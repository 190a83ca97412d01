-------------------------- MODULE GenerationProofs --------------------------
(***************************************************************************)
(* What is proved of agentic generation.                                   *)
(*                                                                         *)
(* The build: for every set of trees the model may return and every notion *)
(* of which labels resemble, the status shown is that of the tree saved,   *)
(* and no further round of fixes would change a tree that is given up on.  *)
(* The argument is about what one round does to a draft: it leaves no slip *)
(* the rules can find but copies of an edge, which a corrected label may   *)
(* have made; a second round leaves none at all.                           *)
(*                                                                         *)
(* The wizard: for any number of tabs a generation makes one tree, unless  *)
(* two requests ran on its thread at once or one broke off; in one tab, a  *)
(* straight run builds from what the user has submitted.                   *)
(***************************************************************************)
EXTENDS GraphBuild, Wizard, KernelProofs

-----------------------------------------------------------------------------
(* The build. What validation says.                                        *)

\* A set has several elements if two of them differ.
LEMMA MoreThanOne ==
  ASSUME NEW S, IsFiniteSet(S)
  PROVE  Cardinality(S) > 1 <=> \E x, y \in S : x # y
<1>1. CASE S = {}
  BY <1>1, FS_EmptySet
<1>2. CASE S # {}
  <2>1. PICK x \in S : TRUE
    BY <1>2
  <2>2. /\ IsFiniteSet(S \ {x}) /\ Cardinality(S \ {x}) = Cardinality(S) - 1
        /\ Cardinality(S) \in Nat /\ Cardinality(S \ {x}) \in Nat
    BY <2>1, FS_RemoveElement, FS_CardinalityType
  <2>3. Cardinality(S \ {x}) = 0 <=> S \ {x} = {}
    BY <2>2, FS_EmptySet
  <2>4. Cardinality(S) > 1 <=> S \ {x} # {}
    BY <2>2, <2>3
  <2> QED BY <2>1, <2>4
<1> QED BY <1>1, <1>2

\* What the other lemmas use of a draft: it is finite, its edges are counted,
\* and no node is both a question and a conclusion.
LEMMA DraftFacts ==
  ASSUME NEW t, DraftLike(t)
  PROVE  /\ t # NoGraph
         /\ Edges(t) = DOMAIN t.edges /\ t.edges \in [Edges(t) -> Nat \ {0}]
         /\ \A e \in Edges(t) : /\ e \in [source : NodeIds, target : NodeIds, condition : Conditions]
                                /\ t.edges[e] \in Nat \ {0}
         /\ IsFiniteSet(Edges(t)) /\ IsFiniteSet(Nodes(t))
         /\ IsFiniteSet(Asked(t)) /\ IsFiniteSet(t.conclusions)
         /\ Asked(t) \cap t.conclusions = {}
<1>1. t # NoGraph
  <2>1. DOMAIN t = {"questions", "conclusions", "edges"}
    BY DEF DraftLike
  <2>2. DOMAIN NoGraph = {"none"}
    BY DEF NoGraph
  <2> QED BY <2>1, <2>2
<1>2. Edges(t) = DOMAIN t.edges /\ t.edges \in [Edges(t) -> Nat \ {0}]
  BY DEF DraftLike, Edges, BagToSet, IsABag
<1>3. IsFiniteSet(Asked(t)) /\ IsFiniteSet(t.conclusions)
  BY FS_Subset DEF DraftLike, Nodes
<1> QED BY <1>1, <1>2, <1>3, NodeIdsAssumption DEF DraftLike

\* The subgraph's list of structural errors is empty for the drafts the
\* editor finds no error in.
LEMMA SameErrors ==
  ASSUME NEW t, DraftLike(t)
  PROVE  EditingErrors(t) <=> StructuralErrors(t) # {}
<1>f. /\ IsFiniteSet(Edges(t)) /\ \A e \in Edges(t) : t.edges[e] \in Nat
      /\ \A e \in Edges(t) : e \in [source : NodeIds, target : NodeIds, condition : Conditions]
  BY DraftFacts
<1>1. StructuralErrors(t) # {} <=>
        \/ Nodes(t) = {} \/ Loops(t) # {} \/ Copied(t) # {} \/ ExtraDefaults(t) # {}
        \/ Mislabelled(t) # {} \/ Cardinality(EntryNodes(t)) > 1 \/ Dangling(t) # {}
        \/ \E q \in Asked(t) : DefaultsOf(Out(t, q)) \cap ToConclusion(t) # {}
  BY DEF StructuralErrors
<1>2. ASSUME NEW n
      PROVE  Cardinality(DefaultsOf(Out(t, n))) > 1 <=>
               \E x, y \in DefaultsOf(Edges(t)) : x # y /\ x.source = n /\ y.source = n
  <2>1. IsFiniteSet(DefaultsOf(Out(t, n)))
    BY <1>f, FS_Subset DEF DefaultsOf, Out
  <2> QED BY <2>1, MoreThanOne DEF DefaultsOf, Out
<1>3. EdgeIntegrityError(t) <=>
        Loops(t) # {} \/ Copied(t) # {} \/ ExtraDefaults(t) # {} \/ Dangling(t) # {}
  <2>1. Dangling(t) # {} <=> \E e \in Edges(t) : {e.source, e.target} \notin SUBSET Nodes(t)
    BY DEF Dangling
  <2>2. (\E n \in Nodes(t) : Cardinality(DefaultsOf(Out(t, n))) > 1) => ExtraDefaults(t) # {}
    BY <1>2 DEF ExtraDefaults, DefaultsOf
  <2>3. ASSUME Copied(t) = {}, Dangling(t) = {}, ExtraDefaults(t) # {}
        PROVE  \E n \in Nodes(t) : Cardinality(DefaultsOf(Out(t, n))) > 1
    <3>1. PICK e \in ExtraDefaults(t) : TRUE
      BY <2>3
    <3>2. e \in DefaultsOf(Edges(t)) /\ e \in Edges(t) /\ e.source \in Nodes(t) /\ ~ (t.edges[e] > 1)
      BY <3>1, <2>3 DEF ExtraDefaults, DefaultsOf, Copied, Dangling
    <3>3. PICK x \in DefaultsOf(Edges(t)) \ {e} : x.source = e.source
      BY <3>1, <3>2 DEF ExtraDefaults
    <3> QED BY <3>2, <3>3, <1>2
  <2> QED BY <2>1, <2>2, <2>3 DEF EdgeIntegrityError, Loops, Copied
<1>4. EdgeConditionError(t) <=>
        \/ Mislabelled(t) # {}
        \/ \E q \in Asked(t) : DefaultsOf(Out(t, q)) \cap ToConclusion(t) # {}
  BY DEF EdgeConditionError, Mislabelled, ConditionsOf, DefaultsOf, Out
<1> QED BY <1>1, <1>3, <1>4 DEF EditingErrors

\* A draft without errors or structure warnings passes for publication, but
\* for what the warnings pass over.
LEMMA ValidIsPublishable ==
  ASSUME NEW t, DraftLike(t), ~ EditingErrors(t), ~ StructureWarnings(t),
         \A q \in Asked(t) : ~ ConcludesOrIsSkipped(t, q)
  PROVE  PublicationValid(t)
<1>f. /\ IsFiniteSet(Edges(t)) /\ IsFiniteSet(Nodes(t)) /\ IsFiniteSet(t.conclusions)
      /\ Nodes(t) = Asked(t) \cup t.conclusions
  BY DraftFacts DEF Nodes
<1>1. \A n : IsFiniteSet(Out(t, n))
  BY <1>f, FS_Subset DEF Out
<1>2. \E n \in Asked(t) : EntryNodes(t) = {n}
  <2>1. /\ EntryNodes(t) # {} /\ EntryNodes(t) \subseteq Asked(t)
        /\ ~ (Cardinality(EntryNodes(t)) > 1)
    BY <1>f DEF StructureWarnings, EditingErrors, EntryNodes
  <2>2. IsFiniteSet(EntryNodes(t))
    BY <1>f, FS_Subset DEF EntryNodes
  <2> QED BY <2>1, <2>2, MoreThanOne
<1>3. \A q \in Asked(t) : Out(t, q) # {}
  BY FS_EmptySet DEF StructureWarnings
<1>4. Cardinality(t.conclusions) >= 2
  <2>1. t.conclusions # {}
    BY <1>3, <1>f DEF StructureWarnings, TerminalNodes
  <2>2. Cardinality(t.conclusions) \in Nat /\ Cardinality(t.conclusions) # 0
    BY <2>1, <1>f, FS_CardinalityType, FS_EmptySet
  <2> QED BY <2>2 DEF StructureWarnings
<1>5. DefaultsOf(ToConclusion(t)) = {}
  <2> SUFFICES ASSUME NEW e \in Edges(t), e.target \in t.conclusions, e.condition = DefaultGuard
               PROVE  FALSE
    BY DEF DefaultsOf, ToConclusion
  <2>1. e.source \in Nodes(t)
    BY DEF EditingErrors, EdgeIntegrityError
  <2>2. e.source \notin t.conclusions
    BY DEF StructureWarnings, Out
  <2>3. e \in DefaultsOf(Out(t, e.source)) \cap ToConclusion(t)
    BY DEF DefaultsOf, Out, ToConclusion
  <2> QED BY <2>1, <2>2, <2>3, <1>f DEF EditingErrors, EdgeConditionError
<1>6. ASSUME NEW q \in Asked(t)
      PROVE  /\ Uncovered(t, q) # {} => t.questions[q].required
             /\ DefaultsOf(Out(t, q)) = {} => Uncovered(t, q) = {} /\ t.questions[q].required
             /\ ConditionsOf(Out(t, q)) \subseteq t.questions[q].options
  <2>1. ~ CoverageWarning(t, q) /\ Out(t, q) # {}
    BY <1>3 DEF StructureWarnings
  <2>2. ~ ConcludesOrIsSkipped(t, q)
    OBVIOUS
  <2>3. ConditionsOf(Out(t, q)) \subseteq t.questions[q].options
    BY DEF EditingErrors, EdgeConditionError
  <2> QED BY <2>1, <2>2, <2>3 DEF CoverageWarning, ConcludesOrIsSkipped
<1>7. StrictValid(t)
  BY <1>1, <1>2, <1>3, <1>4, <1>5, <1>6, <1>f DEF StrictValid, StructureWarnings, EditingErrors
<1> QED BY <1>4, <1>7 DEF PublicationValid, ContractHolds, StructureWarnings

-----------------------------------------------------------------------------
(* The build. What a round of fixes does.                                  *)

\* What no fix by rule can change any more, copies aside ...
FixedOnce(t) ==
  /\ \A e \in Loops(t) : e.source \notin PlainIds
  /\ \A e \in ExtraDefaults(t) : e.source \notin PlainIds
  /\ \A e \in Mislabelled(t) :
       e.source \in PlainIds => Similar[e.condition] \cap t.questions[e.source].options = {}
  /\ \A q \in Asked(t) : \E e \in Edges(t) : q = e.source \/ q = e.target

\* ... and these.
NoPlainCopies(t) == \A e \in Copied(t) : ~ ({e.source, e.target} \subseteq PlainIds)

\* A draft that loses edges is a draft with the edges that are left.
LEMMA FewerEdges ==
  ASSUME NEW t, DraftLike(t), NEW E
  PROVE  LET u == WithoutEdges(t, E)
         IN  /\ DraftLike(u) /\ u.questions = t.questions /\ u.conclusions = t.conclusions
             /\ Edges(u) = Edges(t) \ E /\ \A e \in Edges(u) : u.edges[e] = t.edges[e]
             /\ E \cap Edges(t) = {} => u = t
<1> DEFINE u == WithoutEdges(t, E)
<1>f. /\ Edges(t) = DOMAIN t.edges /\ t.edges \in [Edges(t) -> Nat \ {0}]
      /\ IsFiniteSet(Edges(t))
  BY DraftFacts
<1>1. u = [questions |-> t.questions, conclusions |-> t.conclusions,
           edges |-> [e \in Edges(t) \ E |-> t.edges[e]]]
  BY DEF DraftLike, WithoutEdges
<1>2. /\ u.questions = t.questions /\ u.conclusions = t.conclusions
      /\ u.edges = [e \in Edges(t) \ E |-> t.edges[e]]
      /\ u = [questions |-> u.questions, conclusions |-> u.conclusions, edges |-> u.edges]
  BY <1>1
<1> HIDE DEF u
<1>3. Edges(u) = Edges(t) \ E /\ \A e \in Edges(u) : u.edges[e] = t.edges[e]
  BY <1>2 DEF Edges, BagToSet
<1>4. IsABag(u.edges)
  BY <1>2, <1>f DEF IsABag
<1>5. IsFiniteSet(Edges(u))
  BY <1>3, <1>f, FS_Subset
<1>6. DraftLike(u)
  BY <1>2, <1>3, <1>4, <1>5 DEF DraftLike, Asked, Nodes
<1>7. E \cap Edges(t) = {} => u = t
  <2> SUFFICES ASSUME E \cap Edges(t) = {} PROVE u = t
    OBVIOUS
  <2>1. u.edges = t.edges
    BY <1>2, <1>f
  <2> QED BY <2>1, <1>2 DEF DraftLike
<1> QED BY <1>2, <1>3, <1>6, <1>7 DEF u

\* A slip of a draft that has lost edges was one before.
LEMMA FewerSlips ==
  ASSUME NEW t, NEW u, u.questions = t.questions, Edges(u) \subseteq Edges(t),
         \A e \in Edges(u) : u.edges[e] = t.edges[e]
  PROVE  /\ Loops(u) \subseteq Loops(t) /\ Copied(u) \subseteq Copied(t)
         /\ ExtraDefaults(u) \subseteq ExtraDefaults(t)
         /\ Mislabelled(u) \subseteq Mislabelled(t)
<1>1. Loops(u) \subseteq Loops(t) /\ Copied(u) \subseteq Copied(t)
  BY DEF Loops, Copied
<1>2. Mislabelled(u) \subseteq Mislabelled(t)
  BY DEF Mislabelled, DefaultsOf, Asked
<1>3. ExtraDefaults(u) \subseteq ExtraDefaults(t)
  <2>1. DefaultsOf(Edges(u)) \subseteq DefaultsOf(Edges(t)) /\ DefaultsOf(Edges(u)) \subseteq Edges(u)
    BY DEF DefaultsOf
  <2> QED BY <2>1 DEF ExtraDefaults
<1> QED BY <1>1, <1>2, <1>3

\* Validation names every slip the fixes look for.
LEMMA FoundAreNamed ==
  ASSUME NEW t, Nodes(t) # {}
  PROVE  /\ \A e \in Loops(t) : LoopOn(e) \in StructuralErrors(t)
         /\ \A e \in Copied(t) : CopiesOf(e) \in StructuralErrors(t)
         /\ \A e \in ExtraDefaults(t) : DefaultsAt(e) \in StructuralErrors(t)
         /\ \A e \in Mislabelled(t) : LabelOf(e) \in StructuralErrors(t)
BY DEF StructuralErrors

\* Of the default edges of a node whose id is found at most one stays.
LEMMA DefaultsAreReduced ==
  ASSUME NEW t, DraftLike(t), NEW found,
         \A e \in ExtraDefaults(t) : e.source \in PlainIds => DefaultsAt(e) \in found,
         NEW u \in DefaultsReduced(t, found)
  PROVE  /\ DraftLike(u) /\ u.questions = t.questions /\ u.conclusions = t.conclusions
         /\ Edges(u) \subseteq Edges(t)
         /\ \A e \in Edges(u) : u.edges[e] = t.edges[e]
         /\ \A e \in ExtraDefaults(u) : e.source \notin PlainIds
<1> DEFINE reduced == {e \in ExtraDefaults(t) : e.source \in PlainIds /\ DefaultsAt(e) \in found}
<1>1. PICK F \in SUBSET reduced :
        /\ \A e \in reduced : Cardinality({x \in F : x.source = e.source}) = 1
        /\ u = WithoutEdges(t, reduced \ {e \in F : t.edges[e] = 1})
  BY DEF DefaultsReduced
<1>2. /\ DraftLike(u) /\ u.questions = t.questions /\ u.conclusions = t.conclusions
      /\ Edges(u) = Edges(t) \ (reduced \ {e \in F : t.edges[e] = 1})
      /\ \A e \in Edges(u) : u.edges[e] = t.edges[e]
  BY <1>1, FewerEdges
<1>3. ExtraDefaults(u) \subseteq ExtraDefaults(t)
  BY <1>2, FewerSlips
<1>4. ASSUME NEW e \in ExtraDefaults(u), e.source \in PlainIds
      PROVE  FALSE
  <2>1. e \in reduced /\ e \in Edges(u)
    BY <1>3, <1>4 DEF ExtraDefaults, DefaultsOf
  <2>2. e \in F /\ t.edges[e] = 1 /\ u.edges[e] = 1
    BY <2>1, <1>2
  <2>3. PICK x \in DefaultsOf(Edges(u)) \ {e} : x.source = e.source
    BY <2>2 DEF ExtraDefaults
  <2>4. x \in ExtraDefaults(u) /\ x \in Edges(u)
    BY <2>3, <1>4 DEF ExtraDefaults, DefaultsOf
  <2>5. x \in F /\ x.source \in PlainIds
    BY <2>4, <2>3, <1>4, <1>3, <1>2
  <2>6. IsFiniteSet({y \in F : y.source = e.source})
    <3>1. F \subseteq Edges(t)
      BY DEF ExtraDefaults, DefaultsOf
    <3> QED BY <3>1, DraftFacts, FS_Subset
  <2>7. Cardinality({y \in F : y.source = e.source}) = 1
    BY <1>1, <2>1
  <2> HIDE DEF reduced
  <2>8. Cardinality({y \in F : y.source = e.source}) > 1
    BY <2>2, <2>3, <2>5, <2>6, MoreThanOne
  <2> QED BY <2>7, <2>8
<1> QED BY <1>2, <1>4

\* With no default edge too many that could be found none goes.
LEMMA NothingToReduce ==
  ASSUME NEW t, DraftLike(t), NEW found, \A e \in ExtraDefaults(t) : e.source \notin PlainIds
  PROVE  DefaultsReduced(t, found) = {t}
<1>1. {e \in ExtraDefaults(t) : e.source \in PlainIds /\ DefaultsAt(e) \in found} = {}
  OBVIOUS
<1>2. WithoutEdges(t, {}) = t
  BY FewerEdges
<1>3. \A F \in SUBSET {} : {} \ {e \in F : t.edges[e] = 1} = {}
  OBVIOUS
<1> QED BY <1>1, <1>2, <1>3 DEF DefaultsReduced

\* A corrected label is an answer to its question; what is not corrected stays.
LEMMA LabelsAreCorrected ==
  ASSUME NEW t, DraftLike(t), NEW found,
         \A e \in Mislabelled(t) : LabelOf(e) \in found
  PROVE  LET u == LabelsCorrected(t, found)
         IN  /\ DraftLike(u) /\ u.questions = t.questions /\ u.conclusions = t.conclusions
             /\ \A e \in Loops(u) : \E x \in Loops(t) : x.source = e.source
             /\ ExtraDefaults(u) \subseteq ExtraDefaults(t)
             /\ \A e \in Mislabelled(u) :
                  e.source \in PlainIds => Similar[e.condition] \cap u.questions[e.source].options = {}
             /\ (\A e \in Mislabelled(t) :
                   e.source \in PlainIds => Similar[e.condition] \cap t.questions[e.source].options = {})
                  => u = t
<1> DEFINE u == LabelsCorrected(t, found)
           answers(e) == Similar[e.condition] \cap t.questions[e.source].options
           wrong == {e \in Mislabelled(t) :
                       e.source \in PlainIds /\ LabelOf(e) \in found /\ answers(e) # {}}
           right(e) == IF e \in wrong THEN [e EXCEPT !.condition = CHOOSE o \in answers(e) : TRUE] ELSE e
           from(e) == {x \in Edges(t) : right(x) = e}
           copies(e) == IF \E x \in from(e) : from(e) = {x} THEN t.edges[CHOOSE x \in from(e) : TRUE] ELSE 2
           kept == {right(x) : x \in Edges(t)}
<1>f. /\ Edges(t) = DOMAIN t.edges /\ t.edges \in [Edges(t) -> Nat \ {0}]
      /\ IsFiniteSet(Edges(t))
      /\ \A e \in Edges(t) : e \in [source : NodeIds, target : NodeIds, condition : Conditions]
      /\ wrong \subseteq Edges(t)
  BY DraftFacts DEF Mislabelled
<1>1. u = [questions |-> t.questions, conclusions |-> t.conclusions,
           edges |-> [e \in kept |-> copies(e)]]
  <2>1. u = [t EXCEPT !.edges = [e \in kept |-> copies(e)]]
    BY DEF LabelsCorrected
  <2>2. t = [questions |-> t.questions, conclusions |-> t.conclusions, edges |-> t.edges]
    BY DEF DraftLike
  <2> HIDE DEF u, kept, copies
  <2> QED BY <2>1, <2>2
<1>2. /\ u.questions = t.questions /\ u.conclusions = t.conclusions
      /\ u.edges = [e \in kept |-> copies(e)]
      /\ u = [questions |-> u.questions, conclusions |-> u.conclusions, edges |-> u.edges]
  BY <1>1
<1> HIDE DEF u
<1>3. Edges(u) = kept
  BY <1>2 DEF Edges, BagToSet
<1>4. ASSUME NEW x \in wrong
      PROVE  /\ right(x).condition \in t.questions[x.source].options
             /\ right(x).condition \in Options
             /\ right(x).source = x.source /\ right(x).target = x.target
             /\ right(x) \in [source : NodeIds, target : NodeIds, condition : Conditions]
  <2>1. x \in [source : NodeIds, target : NodeIds, condition : Conditions]
    BY <1>f
  <2>2. PICK o : o = CHOOSE c \in answers(x) : TRUE
    OBVIOUS
  <2>3. o \in answers(x)
    BY <2>2
  <2>4. right(x) = [x EXCEPT !.condition = o]
    BY <2>2
  <2>5. x.source \in Asked(t)
    BY DEF Mislabelled
  <2>6. t.questions[x.source].options \subseteq Options
    BY <2>5 DEF DraftLike, Question
  <2>7. o \in Options /\ o \in t.questions[x.source].options
    BY <2>3, <2>6
  <2> HIDE DEF right, wrong, answers
  <2> QED BY <2>1, <2>4, <2>7 DEF Conditions
<1>5. \A x : x \notin wrong => right(x) = x
  OBVIOUS
<1> HIDE DEF right
<1>6. \A x \in Edges(t) : /\ right(x) \in [source : NodeIds, target : NodeIds, condition : Conditions]
                          /\ right(x).source = x.source /\ right(x).target = x.target
  BY <1>4, <1>5, <1>f
<1>7. DraftLike(u)
  <2>1. IsFiniteSet(kept)
    <3> DEFINE f == [x \in Edges(t) |-> right(x)]
    <3>1. kept = {f[x] : x \in Edges(t)} /\ DOMAIN f = Edges(t)
      OBVIOUS
    <3> HIDE DEF kept, f
    <3> QED BY <3>1, <1>f, ImageIsFinite
  <2>2. \A e \in kept : copies(e) \in Nat \ {0}
    <3> TAKE e \in kept
    <3>1. from(e) # {} /\ from(e) \subseteq Edges(t)
      OBVIOUS
    <3>2. (CHOOSE x \in from(e) : TRUE) \in Edges(t)
      BY <3>1
    <3> HIDE DEF from
    <3> QED BY <3>2, <1>f
  <2>3. IsABag(u.edges)
    <3> HIDE DEF kept, copies
    <3> QED BY <2>2, <1>2 DEF IsABag
  <2>4. Edges(u) \subseteq [source : NodeIds, target : NodeIds, condition : Conditions]
    BY <1>3, <1>6
  <2>5. /\ u.questions \in [Asked(u) -> Question] /\ Asked(u) \subseteq QuestionIds
        /\ u.conclusions \subseteq ConclusionIds /\ IsFiniteSet(Nodes(u))
    BY <1>2 DEF DraftLike, Asked, Nodes
  <2> HIDE DEF kept
  <2> QED BY <2>1, <2>3, <2>4, <2>5, <1>2, <1>3 DEF DraftLike
<1>8. \A e \in Loops(u) : \E x \in Loops(t) : x.source = e.source
  BY <1>3, <1>6 DEF Loops
<1>9. \A e \in Edges(u) : e \notin wrong /\ e.condition = DefaultGuard =>
        /\ e \in Edges(t) /\ u.edges[e] = t.edges[e]
  <2> SUFFICES ASSUME NEW e \in Edges(u), e.condition = DefaultGuard
               PROVE  e \in Edges(t) /\ u.edges[e] = t.edges[e]
    OBVIOUS
  <2>1. \A x \in from(e) : x = e
    BY <1>4, <1>5, OptionsAssumption
  <2>2. from(e) # {} /\ from(e) \subseteq Edges(t)
    BY <1>3
  <2>3. from(e) = {e}
    BY <2>1, <2>2
  <2>4. copies(e) = t.edges[e]
    <3>1. (CHOOSE x \in from(e) : TRUE) = e
      BY <2>3
    <3>2. \E x \in from(e) : from(e) = {x}
      BY <2>3
    <3> HIDE DEF from
    <3> QED BY <3>1, <3>2
  <2>5. u.edges[e] = copies(e)
    <3> HIDE DEF copies
    <3> QED BY <1>2, <1>3
  <2> QED BY <2>2, <2>3, <2>4, <2>5
<1>10. ExtraDefaults(u) \subseteq ExtraDefaults(t)
  <2>1. \A e \in wrong : e.condition # DefaultGuard
    BY DEF Mislabelled, DefaultsOf
  <2>2. DefaultsOf(Edges(u)) \subseteq DefaultsOf(Edges(t))
    BY <1>9, <2>1 DEF DefaultsOf
  <2>3. \A e \in DefaultsOf(Edges(u)) : u.edges[e] = t.edges[e]
    BY <1>9, <2>1 DEF DefaultsOf
  <2> QED BY <2>2, <2>3 DEF ExtraDefaults
<1>11. ASSUME NEW e \in Mislabelled(u), e.source \in PlainIds
       PROVE  Similar[e.condition] \cap u.questions[e.source].options = {}
  <2>1. PICK x \in Edges(t) : e = right(x)
    BY <1>3 DEF Mislabelled
  <2>2. x \notin wrong
    BY <2>1, <1>4, <1>2, <1>6 DEF Mislabelled
  <2>3. e = x /\ e \in Mislabelled(t)
    BY <2>1, <2>2, <1>5, <1>2 DEF Mislabelled, DefaultsOf, Asked
  <2> QED BY <2>2, <2>3, <1>11, <1>2
<1>12. ASSUME wrong = {}
       PROVE  u = t
  <2> HIDE DEF wrong
  <2>1. kept = Edges(t)
    BY <1>5, <1>12
  <2>2. \A e \in Edges(t) : copies(e) = t.edges[e]
    <3> TAKE e \in Edges(t)
    <3>1. from(e) = {e}
      BY <1>5, <1>12
    <3>2. (CHOOSE x \in from(e) : TRUE) = e /\ \E x \in from(e) : from(e) = {x}
      BY <3>1
    <3> HIDE DEF from
    <3> QED BY <3>2
  <2>3. u.edges = t.edges
    <3> HIDE DEF kept, copies
    <3> QED BY <2>1, <2>2, <1>2, <1>f
  <2> QED BY <2>3, <1>2 DEF DraftLike
<1> QED BY <1>2, <1>7, <1>8, <1>10, <1>11, <1>12 DEF u

\* Questions without an edge go, and nothing else.
LEMMA OrphansAreRemoved ==
  ASSUME NEW t, DraftLike(t)
  PROVE  LET u == OrphansRemoved(t)
         IN  /\ DraftLike(u) /\ u.conclusions = t.conclusions /\ u.edges = t.edges
             /\ Edges(u) = Edges(t) /\ Asked(u) \subseteq Asked(t)
             /\ \A q \in Asked(u) : /\ u.questions[q] = t.questions[q]
                                    /\ \E e \in Edges(u) : q = e.source \/ q = e.target
             /\ (\A q \in Asked(t) : \E e \in Edges(t) : q = e.source \/ q = e.target) => u = t
<1> DEFINE tied == {e.source : e \in Edges(t)} \cup Targets(Edges(t))
           left == [q \in Asked(t) \cap tied |-> t.questions[q]]
           u == OrphansRemoved(t)
<1>1. u = [t EXCEPT !.questions = left]
  BY DEF OrphansRemoved
<1>2. t = [questions |-> t.questions, conclusions |-> t.conclusions, edges |-> t.edges]
  BY DEF DraftLike
<1>3. u = [questions |-> left, conclusions |-> t.conclusions, edges |-> t.edges]
  <2> HIDE DEF u, left
  <2> QED BY <1>1, <1>2
<1> HIDE DEF u
<1>4. /\ u.questions = left /\ u.conclusions = t.conclusions /\ u.edges = t.edges
      /\ u = [questions |-> u.questions, conclusions |-> u.conclusions, edges |-> u.edges]
  BY <1>3
<1>5. Edges(u) = Edges(t) /\ Asked(u) = Asked(t) \cap tied
  BY <1>4 DEF Edges, Asked
<1>6. \A q \in Asked(u) : /\ u.questions[q] = t.questions[q]
                          /\ \E e \in Edges(u) : q = e.source \/ q = e.target
  BY <1>4, <1>5 DEF Targets
<1>7. DraftLike(u)
  <2>1. t.questions \in [Asked(t) -> Question] /\ Asked(t) \subseteq QuestionIds
    BY DEF DraftLike
  <2>2. u.questions \in [Asked(u) -> Question] /\ Asked(u) \subseteq QuestionIds
    BY <2>1, <1>4, <1>5
  <2>3. IsFiniteSet(Nodes(u))
    <3>1. Nodes(u) \subseteq Nodes(t) /\ IsFiniteSet(Nodes(t))
      BY <1>4, <1>5 DEF Nodes, DraftLike
    <3> QED BY <3>1, FS_Subset
  <2>4. /\ t.conclusions \subseteq ConclusionIds /\ IsABag(t.edges) /\ IsFiniteSet(Edges(t))
        /\ Edges(t) \subseteq [source : NodeIds, target : NodeIds, condition : Conditions]
    BY DEF DraftLike
  <2> HIDE DEF tied, left
  <2> QED BY <2>2, <2>3, <2>4, <1>4, <1>5 DEF DraftLike
<1>8. ASSUME \A q \in Asked(t) : \E e \in Edges(t) : q = e.source \/ q = e.target
      PROVE  u = t
  <2>1. Asked(t) \cap tied = Asked(t)
    BY <1>8 DEF Targets
  <2>2. t.questions \in [Asked(t) -> Question]
    BY DEF DraftLike
  <2>3. u.questions = t.questions
    <3> HIDE DEF tied
    <3> QED BY <2>1, <2>2, <1>4
  <2> QED BY <2>3, <1>4, <1>2
<1> QED BY <1>4, <1>5, <1>6, <1>7, <1>8 DEF u

\* Slips the fixes can find are gone after one round, copies aside: a label
\* may only now have become a copy.
LEMMA OneRoundFixes ==
  ASSUME NEW t, DraftLike(t), Nodes(t) # {}, NEW u \in Fixes(t, StructuralErrors(t))
  PROVE  DraftLike(u) /\ FixedOnce(u)
<1> DEFINE found == StructuralErrors(t)
           loops == {e \in Loops(t) : e.source \in PlainIds /\ LoopOn(e) \in found}
           a == LoopsRemoved(t, found)
           b == CopiesRemoved(a, found)
<1>1. /\ DraftLike(a) /\ a.questions = t.questions /\ Edges(a) = Edges(t) \ loops
      /\ \A e \in Edges(a) : a.edges[e] = t.edges[e]
  BY FewerEdges DEF LoopsRemoved
<1>2. \A e \in Loops(a) : e.source \notin PlainIds
  BY <1>1, FoundAreNamed DEF Loops
<1> HIDE DEF a
<1>3. /\ DraftLike(b) /\ b.questions = a.questions /\ Edges(b) \subseteq Edges(a)
      /\ \A e \in Edges(b) : b.edges[e] = a.edges[e]
  BY <1>1, FewerEdges DEF CopiesRemoved
<1> HIDE DEF b
<1>4. /\ Loops(b) \subseteq Loops(a) /\ ExtraDefaults(b) \subseteq ExtraDefaults(t)
  BY <1>1, <1>3, FewerSlips
<1>5. PICK c \in DefaultsReduced(b, found) : u = OrphansRemoved(LabelsCorrected(c, found))
  BY DEF Fixes, a, b
<1>6. /\ DraftLike(c) /\ c.questions = b.questions /\ Edges(c) \subseteq Edges(b)
      /\ \A e \in Edges(c) : c.edges[e] = b.edges[e]
      /\ \A e \in ExtraDefaults(c) : e.source \notin PlainIds
  <2>1. \A e \in ExtraDefaults(b) : DefaultsAt(e) \in found
    BY <1>4, FoundAreNamed
  <2> HIDE DEF found
  <2> QED BY <1>3, <1>5, <2>1, DefaultsAreReduced
<1>7. /\ Loops(c) \subseteq Loops(a)
      /\ Mislabelled(c) \subseteq Mislabelled(t)
  <2>1. Loops(c) \subseteq Loops(b) /\ Mislabelled(c) \subseteq Mislabelled(b)
    BY <1>6, FewerSlips
  <2>2. Mislabelled(b) \subseteq Mislabelled(a)
    BY <1>3, FewerSlips
  <2>3. Mislabelled(a) \subseteq Mislabelled(t)
    BY <1>1, FewerSlips
  <2> QED BY <2>1, <2>2, <2>3, <1>4
<1> DEFINE d == LabelsCorrected(c, found)
<1>8. /\ DraftLike(d)
      /\ \A e \in Loops(d) : \E x \in Loops(c) : x.source = e.source
      /\ ExtraDefaults(d) \subseteq ExtraDefaults(c)
      /\ \A e \in Mislabelled(d) :
           e.source \in PlainIds => Similar[e.condition] \cap d.questions[e.source].options = {}
  <2>1. \A e \in Mislabelled(c) : LabelOf(e) \in found
    BY <1>7, FoundAreNamed
  <2> HIDE DEF found
  <2> QED BY <1>6, <2>1, LabelsAreCorrected
<1> HIDE DEF d, found
<1>9. /\ DraftLike(u) /\ Edges(u) = Edges(d) /\ u.edges = d.edges /\ Asked(u) \subseteq Asked(d)
      /\ \A q \in Asked(u) : /\ u.questions[q] = d.questions[q]
                             /\ \E e \in Edges(u) : q = e.source \/ q = e.target
  BY <1>5, <1>8, OrphansAreRemoved DEF d
<1>10. /\ Loops(u) = Loops(d) /\ ExtraDefaults(u) = ExtraDefaults(d)
       /\ \A e \in Mislabelled(u) : e \in Mislabelled(d) /\ e.source \in Asked(u)
  BY <1>9 DEF Loops, ExtraDefaults, Mislabelled
<1>11. \A e \in Loops(u) : e.source \notin PlainIds
  BY <1>2, <1>7, <1>8, <1>10
<1>12. \A e \in ExtraDefaults(u) : e.source \notin PlainIds
  BY <1>6, <1>8, <1>10
<1>13. \A e \in Mislabelled(u) :
         e.source \in PlainIds => Similar[e.condition] \cap u.questions[e.source].options = {}
  BY <1>8, <1>9, <1>10
<1> QED BY <1>9, <1>11, <1>12, <1>13 DEF FixedOnce

\* Of a draft that has been through a round only copies change, and they go.
LEMMA FixedRound ==
  ASSUME NEW t, DraftLike(t), Nodes(t) # {}, FixedOnce(t),
         NEW u \in Fixes(t, StructuralErrors(t))
  PROVE  NoPlainCopies(u) /\ (NoPlainCopies(t) => u = t)
<1> DEFINE found == StructuralErrors(t)
           gone == {e \in Copied(t) : {e.source, e.target} \subseteq PlainIds /\ CopiesOf(e) \in found}
           b == CopiesRemoved(t, found)
<1>1. LoopsRemoved(t, found) = t
  <2>1. {e \in Loops(t) : e.source \in PlainIds /\ LoopOn(e) \in found} = {}
    BY DEF FixedOnce
  <2> QED BY <2>1, FewerEdges DEF LoopsRemoved
<1>2. /\ DraftLike(b) /\ b.questions = t.questions /\ Edges(b) = Edges(t) \ gone
      /\ \A e \in Edges(b) : b.edges[e] = t.edges[e]
      /\ gone \cap Edges(t) = {} => b = t
  BY FewerEdges DEF CopiesRemoved
<1>3. NoPlainCopies(b)
  BY <1>2, FoundAreNamed DEF NoPlainCopies, Copied
<1>4. NoPlainCopies(t) => b = t
  BY <1>2 DEF NoPlainCopies
<1>5. /\ ExtraDefaults(b) \subseteq ExtraDefaults(t) /\ Mislabelled(b) \subseteq Mislabelled(t)
  BY <1>2, FewerSlips
<1>6. \A e \in Mislabelled(b) : LabelOf(e) \in found
  BY <1>5, FoundAreNamed
<1>7. u \in {OrphansRemoved(LabelsCorrected(c, found)) : c \in DefaultsReduced(b, found)}
  BY <1>1 DEF Fixes
<1>8. DefaultsReduced(b, found) = {b}
  <2>1. \A e \in ExtraDefaults(b) : e.source \notin PlainIds
    BY <1>5 DEF FixedOnce
  <2> HIDE DEF b, found
  <2> QED BY <2>1, <1>2, NothingToReduce
<1>9. LabelsCorrected(b, found) = b
  <2>1. \A e \in Mislabelled(b) :
          e.source \in PlainIds => Similar[e.condition] \cap b.questions[e.source].options = {}
    BY <1>2, <1>5 DEF FixedOnce
  <2> HIDE DEF b, found
  <2> QED BY <2>1, <1>2, <1>6, LabelsAreCorrected
<1>10. u = OrphansRemoved(b)
  BY <1>7, <1>8, <1>9
<1> HIDE DEF b, found
<1>11. Edges(u) = Edges(b) /\ u.edges = b.edges
  BY <1>2, <1>10, OrphansAreRemoved
<1>12. NoPlainCopies(u)
  BY <1>3, <1>11 DEF NoPlainCopies, Copied
<1>13. ASSUME NoPlainCopies(t)
       PROVE  u = t
  <2>1. u = OrphansRemoved(t)
    BY <1>4, <1>10, <1>13
  <2> QED BY <2>1, OrphansAreRemoved DEF FixedOnce
<1> QED BY <1>12, <1>13

\* There is always some outcome of a round.
LEMMA FixesExist ==
  ASSUME NEW t, DraftLike(t), FixedOnce(t), NEW found
  PROVE  Fixes(t, found) # {}
<1> DEFINE gone == {e \in Copied(t) : {e.source, e.target} \subseteq PlainIds /\ CopiesOf(e) \in found}
           b == CopiesRemoved(t, found)
<1>1. LoopsRemoved(t, found) = t
  <2>1. {e \in Loops(t) : e.source \in PlainIds /\ LoopOn(e) \in found} = {}
    BY DEF FixedOnce
  <2> QED BY <2>1, FewerEdges DEF LoopsRemoved
<1>2. /\ DraftLike(b) /\ b.questions = t.questions /\ Edges(b) \subseteq Edges(t)
      /\ \A e \in Edges(b) : b.edges[e] = t.edges[e]
  BY FewerEdges DEF CopiesRemoved
<1>3. DefaultsReduced(b, found) = {b}
  <2>1. \A e \in ExtraDefaults(b) : e.source \notin PlainIds
    BY <1>2, FewerSlips DEF FixedOnce
  <2> HIDE DEF b
  <2> QED BY <2>1, <1>2, NothingToReduce
<1> QED BY <1>1, <1>3 DEF Fixes

\* A tree without nodes is not fixed at all: validation names no slip in it.
LEMMA NothingToFix ==
  ASSUME NEW t, DraftLike(t), Nodes(t) = {}
  PROVE  Fixes(t, StructuralErrors(t)) = {t}
<1> DEFINE found == StructuralErrors(t)
<1>1. found = {[code |-> "other"]}
  BY DEF StructuralErrors
<1>2. ASSUME NEW e
      PROVE  {LoopOn(e), CopiesOf(e), DefaultsAt(e), LabelOf(e)} \cap found = {}
  <2>1. /\ LoopOn(e).code = "loop" /\ CopiesOf(e).code = "copies"
        /\ DefaultsAt(e).code = "defaults" /\ LabelOf(e).code = "label"
    BY DEF LoopOn, CopiesOf, DefaultsAt, LabelOf
  <2> QED BY <1>1, <2>1
<1> HIDE DEF found
<1>3. LoopsRemoved(t, found) = t
  <2>1. {e \in Loops(t) : e.source \in PlainIds /\ LoopOn(e) \in found} = {}
    BY <1>2
  <2> QED BY <2>1, FewerEdges DEF LoopsRemoved
<1>4. CopiesRemoved(t, found) = t
  <2>1. {e \in Copied(t) : {e.source, e.target} \subseteq PlainIds /\ CopiesOf(e) \in found} = {}
    BY <1>2
  <2> QED BY <2>1, FewerEdges DEF CopiesRemoved
<1>5. DefaultsReduced(t, found) = {t}
  <2>1. {e \in ExtraDefaults(t) : e.source \in PlainIds /\ DefaultsAt(e) \in found} = {}
    BY <1>2
  <2>2. WithoutEdges(t, {}) = t
    BY FewerEdges
  <2>3. \A F \in SUBSET {} : {} \ {e \in F : t.edges[e] = 1} = {}
    OBVIOUS
  <2> QED BY <2>1, <2>2, <2>3 DEF DefaultsReduced
<1>6. Asked(t) = {} /\ Mislabelled(t) = {}
  BY DEF Nodes, Mislabelled
<1>7. LabelsCorrected(t, found) = t
  BY <1>6, LabelsAreCorrected
<1>8. OrphansRemoved(t) = t
  BY <1>6, OrphansAreRemoved
<1>9. Fixes(t, found) = {t}
  BY <1>3, <1>4, <1>5, <1>7, <1>8 DEF Fixes
<1> QED BY <1>9 DEF found

\* After two rounds the next one changes nothing.
LEMMA TwoRoundsFix ==
  ASSUME NEW t, DraftLike(t), Nodes(t) # {} => FixedOnce(t) /\ NoPlainCopies(t)
  PROVE  Fixes(t, StructuralErrors(t)) = {t}
<1>1. CASE Nodes(t) = {}
  BY <1>1, NothingToFix
<1>2. CASE Nodes(t) # {}
  <2>1. \A u \in Fixes(t, StructuralErrors(t)) : u = t
    BY <1>2, FixedRound
  <2>2. Fixes(t, StructuralErrors(t)) # {}
    BY <1>2, FixesExist
  <2> QED BY <2>1, <2>2
<1> QED BY <1>1, <1>2

-----------------------------------------------------------------------------
(* The build. Its invariant.                                               *)

\* What holds of the tree depends on how often it has been fixed.
Rounds(t, n) ==
  /\ n >= 1 /\ Nodes(t) # {} => FixedOnce(t)
  /\ n >= 2 /\ Nodes(t) # {} => NoPlainCopies(t)

\* The inductive invariant: errors and status are those of the tree there
\* is, and a build that ends with structural errors has used up its rounds.
BuildInv ==
  /\ at \in {"build_graph", "validate", "auto_fix", "end"} /\ rounds \in Nat
  /\ at = "build_graph" => graph = NoGraph /\ rounds = 0
  /\ graph = NoGraph /\ at # "build_graph" => errors = {BuildFailed} /\ status = "has_errors"
  /\ graph # NoGraph =>
       /\ DraftLike(graph) /\ Rounds(graph, rounds)
       /\ at = "auto_fix" => errors = StructuralErrors(graph)
       /\ at = "end" =>
            /\ errors = GenerationErrors(graph)
            /\ status = (IF errors # {} THEN "has_errors"
                         ELSE IF GenerationWarnings(graph) THEN "valid_with_warnings"
                         ELSE "valid")
            /\ StructuralErrors(graph) = {} \/ rounds >= 3

\* Errors other than of quality are structural, and then all of them are.
LEMMA KindsOfErrors ==
  ASSUME NEW t
  PROVE  /\ StructuralErrors(t) # {} => GenerationErrors(t) = StructuralErrors(t)
         /\ StructuralErrors(t) = {} => GenerationErrors(t) \in SUBSET {[code |-> "quality"]}
         /\ GenerationErrors(t) # {} <=> StructuralErrors(t) # {} \/ QualityErrors(t)
         /\ StructuralErrors(t) # {} => StructuralErrors(t) \notin SUBSET {[code |-> "quality"]}
<1>1. \A x \in StructuralErrors(t) : x # [code |-> "quality"]
  <2> SUFFICES ASSUME NEW x \in StructuralErrors(t)
               PROVE  x.code \in {"other", "loop", "copies", "defaults", "label"}
    OBVIOUS
  <2> QED BY DEF StructuralErrors, LoopOn, CopiesOf, DefaultsAt, LabelOf
<1>2. [code |-> "quality"] \in {[code |-> "quality"]}
  OBVIOUS
<1> QED BY <1>1, <1>2 DEF GenerationErrors

\* The build's invariant holds at first and every step keeps it.
LEMMA BuildInvHolds == BuildSpec => []BuildInv
<1>1. BuildInit => BuildInv
  BY DEF BuildInit, BuildInv
<1>2. BuildInv /\ [BuildNext]_buildVars => BuildInv'
  <2> SUFFICES ASSUME BuildInv, [BuildNext]_buildVars
               PROVE  BuildInv'
    OBVIOUS
  <2>1. CASE UNCHANGED buildVars
    BY <2>1 DEF buildVars, BuildInv
  <2>2. CASE BuildGraph
    <3>1. graph' # NoGraph => graph' \in Returned
      BY <2>2 DEF BuildGraph, BuildInv
    <3>2. graph' # NoGraph => DraftLike(graph')
      BY <3>1, ReturnedAssumption
    <3>3. rounds' = 0 /\ Rounds(graph', rounds')
      BY <2>2 DEF BuildGraph, BuildInv, Rounds
    <3>4. graph' = NoGraph => errors' = {BuildFailed} /\ status' = "has_errors"
      <4>1. \A t \in Returned : t # NoGraph
        BY DraftFacts, ReturnedAssumption
      <4> QED BY <2>2, <4>1 DEF BuildGraph
    <3>5. at' = "validate"
      BY <2>2 DEF BuildGraph
    <3> QED BY <3>2, <3>3, <3>4, <3>5 DEF BuildInv
  <2>3. CASE ValidateGraph
    <3>1. graph' = graph /\ rounds' = rounds /\ at' = RouteAfterValidation(errors')
          /\ at = "validate" /\ at' \in {"auto_fix", "end"}
      BY <2>3 DEF ValidateGraph, RouteAfterValidation
    <3>2. CASE graph = NoGraph
      BY <2>3, <3>1, <3>2 DEF ValidateGraph, BuildInv
    <3>3. CASE graph # NoGraph
      <4>1. /\ errors' = GenerationErrors(graph)
            /\ status' = IF errors' # {} THEN "has_errors"
                         ELSE IF GenerationWarnings(graph) THEN "valid_with_warnings"
                         ELSE "valid"
        BY <2>3, <3>3 DEF ValidateGraph
      <4>2. at' = "auto_fix" => errors' = StructuralErrors(graph)
        BY <3>1, <4>1, KindsOfErrors DEF RouteAfterValidation
      <4>3. at' = "end" => StructuralErrors(graph) = {} \/ rounds >= 3
        <5>1. rounds \in Nat
          BY DEF BuildInv
        <5>2. at' = "end" => errors' \in SUBSET {[code |-> "quality"]} \/ ~ (rounds < 3)
          BY <3>1 DEF RouteAfterValidation, MaxFixIterations
        <5> QED BY <5>1, <5>2, <4>1, KindsOfErrors
      <4>4. DraftLike(graph) /\ Rounds(graph, rounds) /\ rounds \in Nat
        BY <3>3 DEF BuildInv
      <4> QED BY <3>1, <3>3, <4>1, <4>2, <4>3, <4>4 DEF BuildInv
    <3> QED BY <3>2, <3>3
  <2>4. CASE AutoFix
    <3>1. /\ at = "auto_fix" /\ at' = "validate" /\ rounds' = rounds + 1 /\ rounds \in Nat
          /\ errors' = errors /\ status' = status
      BY <2>4 DEF AutoFix, BuildInv
    <3>2. CASE graph = NoGraph
      BY <2>4, <3>1, <3>2 DEF AutoFix, BuildInv
    <3>3. CASE graph # NoGraph
      <4>1. graph' \in Fixes(graph, StructuralErrors(graph)) /\ DraftLike(graph)
            /\ Rounds(graph, rounds)
        BY <2>4, <3>1, <3>3 DEF AutoFix, BuildInv
      <4>2. CASE Nodes(graph) = {}
        <5>1. graph' = graph
          BY <4>1, <4>2, NothingToFix
        <5> QED BY <3>1, <3>3, <4>1, <4>2, <5>1 DEF BuildInv, Rounds
      <4>3. CASE Nodes(graph) # {}
        <5>1. DraftLike(graph') /\ FixedOnce(graph')
          BY <4>1, <4>3, OneRoundFixes
        <5>2. rounds >= 1 => NoPlainCopies(graph')
          BY <4>1, <4>3, FixedRound DEF Rounds
        <5>3. Rounds(graph', rounds')
          BY <3>1, <5>1, <5>2 DEF Rounds
        <5>4. graph' # NoGraph
          BY <5>1, DraftFacts
        <5> QED BY <3>1, <5>1, <5>3, <5>4 DEF BuildInv
      <4> QED BY <4>2, <4>3
    <3> QED BY <3>2, <3>3
  <2> QED BY <2>1, <2>2, <2>3, <2>4 DEF BuildNext
<1> QED BY <1>1, <1>2, PTL DEF BuildSpec

\* The status shown of a generated tree is that of the tree saved, whatever
\* trees the model returns: "valid" without warnings is fit for publication,
\* but for a question the warnings pass over.
THEOREM StatusTellsOfTheTreeHolds == BuildSpec => []StatusTellsOfTheTree
<1>1. BuildInv => StatusTellsOfTheTree
  <2> SUFFICES ASSUME BuildInv, at = "end"
               PROVE  /\ status = "has_errors" <=>
                           graph = NoGraph \/ EditingErrors(graph) \/ QualityErrors(graph)
                      /\ status = "valid" =>
                           \/ PublicationValid(graph)
                           \/ \E q \in Asked(graph) : ConcludesOrIsSkipped(graph, q)
    BY DEF StatusTellsOfTheTree
  <2>1. CASE graph = NoGraph
    BY <2>1 DEF BuildInv
  <2>2. CASE graph # NoGraph
    <3>1. /\ DraftLike(graph)
          /\ errors = GenerationErrors(graph)
          /\ status = (IF errors # {} THEN "has_errors"
                       ELSE IF GenerationWarnings(graph) THEN "valid_with_warnings"
                       ELSE "valid")
      BY <2>2 DEF BuildInv
    <3>2. errors # {} <=> EditingErrors(graph) \/ QualityErrors(graph)
      BY <3>1, KindsOfErrors, SameErrors
    <3>3. status = "has_errors" <=> EditingErrors(graph) \/ QualityErrors(graph)
      BY <3>1, <3>2
    <3>4. status = "valid" => ~ EditingErrors(graph) /\ ~ StructureWarnings(graph)
      BY <3>1, <3>2 DEF GenerationWarnings
    <3> QED BY <2>2, <3>1, <3>3, <3>4, ValidIsPublishable
  <2> QED BY <2>1, <2>2
<1> QED BY <1>1, BuildInvHolds, PTL

\* Three rounds of fixes are enough, whatever trees the model returns and
\* whichever labels are taken for which: a build that ends with structural
\* errors would not be changed by a fourth.
THEOREM NothingFixableIsLeftHolds == BuildSpec => []NothingFixableIsLeft
<1>1. BuildInv => NothingFixableIsLeft
  <2> SUFFICES ASSUME BuildInv, at = "end", graph # NoGraph, StructuralErrors(graph) # {}
               PROVE  Fixes(graph, errors) = {graph}
    BY DEF NothingFixableIsLeft
  <2>1. errors = StructuralErrors(graph)
    BY KindsOfErrors DEF BuildInv
  <2>2. rounds >= 3 /\ rounds \in Nat
    BY DEF BuildInv
  <2>3. DraftLike(graph) /\ (Nodes(graph) # {} => FixedOnce(graph) /\ NoPlainCopies(graph))
    BY <2>2 DEF BuildInv, Rounds
  <2> QED BY <2>1, <2>3, TwoRoundsFix
<1> QED BY <1>1, BuildInvHolds, PTL

-----------------------------------------------------------------------------
(* The wizard. One tree per generation.                                    *)

\* What an actor is doing says which fields there are.
Doing(r) ==
  \/ DOMAIN r = {"kind"} /\ r.kind \in {"idle", "cleanup"}
  \/ DOMAIN r = {"kind", "value"} /\ r.kind \notin {"idle", "cleanup", "retryResearch"}
  \/ /\ DOMAIN r = {"kind", "st"} /\ r.kind \notin {"idle", "cleanup", "retryConclusions", "retryResearch"}
     /\ "next" \in DOMAIN r.st
  \/ DOMAIN r = {"kind", "input"} /\ r.kind = "retryResearch"

\* The fields of the state, and that the workflow starts from its first one.
WizardShape ==
  /\ DOMAIN run = Actors /\ \A a \in Actors : Doing(run[a])
  /\ run["background"].kind = "first" /\ "value" \in DOMAIN run["background"] =>
       run["background"].value = FirstState
  /\ generation \in [there : BOOLEAN, fresh : BOOLEAN]
  /\ "next" \in DOMAIN thread

\* One request at a time, and whoever clears up has deleted the row; a retry
\* beside the workflow finds the thread unless the row is gone.
OneAtATime ==
  /\ \A a, b \in Actors : InFlight(a) /\ InFlight(b) => a = b
  /\ \A a \in Actors :
       /\ run[a].kind = "cleanup" => ~ generation.there
       /\ run[a].kind \in {"retryConclusions", "retryResearch"} /\ thread = NoThread =>
            ~ generation.there

\* A thread nothing more comes of.
Ended(st) == st = NoThread \/ st.next = "end"

\* Once there is a tree nobody is on the way to another one: whoever runs on
\* the thread has saved, and a thread that could build again belongs to a row
\* that is gone.
OneIsEnough ==
  /\ trees = <<>> \/ Len(trees) = 1
  /\ trees # <<>> =>
       /\ \A a \in Actors : "st" \in DOMAIN run[a] => run[a].st.next \in {"saved", "end"}
       /\ "value" \in DOMAIN run["background"] => run["background"].kind # "first"
       /\ \/ Ended(thread)
          \/ \E a \in Actors : "st" \in DOMAIN run[a] /\ run[a].st.next = "saved"
          \/ ~ generation.there /\ \A a \in Actors : ~ InFlight(a)

WizardSafe == WizardShape /\ OneAtATime /\ OneIsEnough

\* The inductive invariant: while no two requests have run at once and none
\* has broken off, all of that.
WizardInv == "torn" \notin mishaps => WizardSafe

\* Nobody runs on the thread when a request of the user leaves it whole.
LEMMA NobodyInFlight ==
  ASSUME "torn" \notin mishaps', NEW what, Noted(what)
  PROVE  "torn" \notin mishaps /\ \A a \in Actors : ~ InFlight(a)
BY DEF Noted

\* What is merged keeps its fields, and the values of those not named.
LEMMA MergeKeeps ==
  ASSUME NEW st, NEW edits
  PROVE  /\ DOMAIN Merged(st, edits) = DOMAIN st
         /\ "next" \in DOMAIN st /\ "next" \notin DOMAIN edits =>
              Merged(st, edits).next = st.next
BY DEF Merged

\* A thread that has ended stays so when values are stored in it.
LEMMA UpdateKeepsEnd ==
  ASSUME NEW st, "next" \in DOMAIN st, NEW values, "next" \notin DOMAIN values
  PROVE  /\ "next" \in DOMAIN Updated(st, values)
         /\ st.next = "end" => Updated(st, values).next = "end"
<1>1. "next" \in DOMAIN FirstState
  BY DEF FirstState
<1> DEFINE base == IF st = NoThread THEN FirstState ELSE st
           s == Merged(base, values)
<1>2. "next" \in DOMAIN base
  BY <1>1
<1> HIDE DEF base
<1>3. DOMAIN s = DOMAIN base /\ s.next = base.next
  BY <1>2, MergeKeeps
<1>4. Updated(st, values) = IF st.next \in {"research", "conclusions"} /\ st.research # "unset"
                            THEN [s EXCEPT !.next = AfterResearchEdit(s)] ELSE s
  BY DEF Updated, base
<1> HIDE DEF s
<1>5. "next" \in DOMAIN Updated(st, values)
  BY <1>2, <1>3, <1>4
<1>6. ASSUME st.next = "end"
      PROVE  Updated(st, values).next = "end"
  <2>1. st # NoThread
    BY <1>6 DEF NoThread
  <2> QED BY <2>1, <1>3, <1>4, <1>6 DEF base
<1> QED BY <1>5, <1>6

\* Resuming a thread and running a node lead to a state with a next node.
LEMMA StatesGoOn ==
  ASSUME NEW st, "next" \in DOMAIN st
  PROVE  /\ \A value : st.next \in Waiting => "next" \in DOMAIN Resumed(st, value)
         /\ \A searches :
              st.next \in {"research", "conclusions", "design", "build"} =>
                \A s \in NodeOutcomes(st, searches) : "next" \in DOMAIN s
<1>1. ASSUME NEW value, st.next \in Waiting
      PROVE  "next" \in DOMAIN Resumed(st, value)
  <2>1. \A f, shown : DOMAIN Edited(st, f, shown, value) = DOMAIN st
    BY MergeKeeps DEF Edited
  <2>2. CASE st.next = "wait_research"
    <3>1. Resumed(st, value) = WaitForResearchEdit(st, value)
      BY <2>2 DEF Resumed
    <3>2. "next" \in DOMAIN Merged(st, value)
      BY MergeKeeps
    <3> QED BY <3>1, <3>2 DEF WaitForResearchEdit
  <2>3. CASE st.next = "wait_conclusions"
    <3>1. Resumed(st, value) = WaitForConclusionsEdit(st, value)
      BY <2>3 DEF Resumed
    <3> QED BY <2>1, <3>1 DEF WaitForConclusionsEdit
  <2>4. CASE st.next = "wait_design"
    <3>1. Resumed(st, value) = WaitForDesignEdit(st, value)
      BY <2>4 DEF Resumed
    <3> QED BY <2>1, <3>1 DEF WaitForDesignEdit
  <2> QED BY <1>1, <2>2, <2>3, <2>4 DEF Waiting
<1>2. ASSUME NEW searches, st.next \in {"research", "conclusions", "design", "build"},
             NEW s \in NodeOutcomes(st, searches)
      PROVE  "next" \in DOMAIN s
  <2>1. CASE st.next = "research"
    <3>1. PICK r \in Researched(st, searches) : s = [r EXCEPT !.next = "wait_research"]
      BY <2>1, <1>2 DEF NodeOutcomes
    <3>2. DOMAIN r = DOMAIN st
      BY DEF Researched, Augmented, Searched
    <3> QED BY <3>1, <3>2
  <2>2. CASE st.next = "conclusions"
    BY <2>2, <1>2 DEF NodeOutcomes, Concluded
  <2>3. CASE st.next = "design"
    BY <2>3, <1>2 DEF NodeOutcomes, Designed
  <2>4. CASE st.next = "build"
    BY <2>4, <1>2 DEF NodeOutcomes, Built
  <2> QED BY <1>2, <2>1, <2>2, <2>3, <2>4
<1> QED BY <1>1, <1>2

\* Who has a state of the workflow in hand is in flight.
LEMMA StatesAreInFlight ==
  ASSUME WizardSafe, NEW a \in Actors, DOMAIN run[a] # {"kind"}
  PROVE  InFlight(a)
BY DEF WizardSafe, WizardShape, Doing, InFlight

\* A request that begins on a whole thread finds nobody on it.
LEMMA RequestsBegin ==
  ASSUME WizardSafe, "torn" \notin mishaps', NEW t \in Tabs, NEW kind, NEW value, NEW touches,
         Begin(t, kind, value, touches), kind \notin {"idle", "cleanup", "first", "retryResearch"},
         "next" \in DOMAIN thread', thread' # NoThread \/ kind # "retryConclusions",
         Ended(thread) => Ended(thread')
  PROVE  WizardSafe'
<1>1. \A a \in Actors : ~ InFlight(a)
  BY NobodyInFlight DEF Begin
<1>2. /\ run' = [run EXCEPT ![t] = [kind |-> kind, value |-> value]]
      /\ generation' = IF touches THEN [generation EXCEPT !.fresh = TRUE] ELSE generation
      /\ generation.there /\ trees' = trees
  BY DEF Begin
<1>3. DOMAIN run = Actors /\ t \in Actors /\ t # "background"
  BY WizardAssumption DEF WizardSafe, WizardShape, Actors
<1>4. /\ DOMAIN run' = Actors /\ run'[t] = [kind |-> kind, value |-> value]
      /\ \A a \in Actors \ {t} : run'[a] = run[a]
  BY <1>2, <1>3
<1>5. generation' \in [there : BOOLEAN, fresh : BOOLEAN] /\ generation'.there
  BY <1>2 DEF WizardSafe, WizardShape
<1>6. WizardShape'
  <2>1. Doing(run[t]')
    BY <1>4 DEF Doing
  <2>2. \A a \in Actors \ {t} : Doing(run[a]')
    BY <1>4 DEF Doing, WizardSafe, WizardShape
  <2>3. run'["background"] = run["background"]
    BY <1>3, <1>4 DEF Actors
  <2> QED BY <1>4, <1>5, <2>1, <2>2, <2>3 DEF WizardSafe, WizardShape
<1>7. \A a \in Actors \ {t} : run'[a].kind \in {"idle", "cleanup"}
  BY <1>1, <1>4 DEF InFlight
<1>8. OneAtATime'
  <2>1. \A a, b \in Actors : InFlight(a)' /\ InFlight(b)' => a = b
    BY <1>7 DEF InFlight
  <2>2. \A a \in Actors : run'[a].kind = "cleanup" => ~ generation'.there
    <3> TAKE a \in Actors
    <3>1. CASE a = t
      BY <3>1, <1>4
    <3>2. CASE a # t
      BY <3>2, <1>4, <1>2 DEF WizardSafe, OneAtATime
    <3> QED BY <3>1, <3>2
  <2>3. \A a \in Actors : ~ (run'[a].kind \in {"retryConclusions", "retryResearch"} /\ thread' = NoThread)
    BY <1>4, <1>7
  <2> QED BY <2>1, <2>2, <2>3 DEF OneAtATime
<1>9. OneIsEnough'
  <2> SUFFICES ASSUME trees # <<>>
               PROVE  /\ \A a \in Actors : "st" \notin DOMAIN run'[a]
                      /\ run'["background"] = run["background"]
                      /\ Ended(thread')
    BY <1>2 DEF OneIsEnough, WizardSafe
  <2>1. \A a \in Actors : "st" \notin DOMAIN run[a]
    BY <1>1, StatesAreInFlight
  <2>2. Ended(thread)
    BY <1>2, <2>1 DEF WizardSafe, OneIsEnough
  <2> QED BY <1>3, <1>4, <2>1, <2>2 DEF Actors
<1> QED BY <1>6, <1>8, <1>9 DEF WizardSafe

\* Whoever deletes the row leaves no more for others to do.
LEMMA RowsComplete ==
  ASSUME WizardSafe, NEW t \in Tabs, Complete(t), thread' = thread, trees' = trees,
         \/ run[t] = NotRunning
         \/ "st" \in DOMAIN run[t] /\ run[t].st.next # "saved"
  PROVE  WizardSafe'
<1>1. DOMAIN run = Actors /\ t \in Actors /\ t # "background"
  BY WizardAssumption DEF WizardSafe, WizardShape, Actors
<1>2. /\ DOMAIN run' = Actors /\ DOMAIN run'[t] = {"kind"}
      /\ \/ run'[t].kind = "idle" /\ generation' = generation
         \/ run'[t].kind = "cleanup" /\ ~ generation'.there
      /\ \A a \in Actors \ {t} : run'[a] = run[a]
      /\ generation' \in [there : BOOLEAN, fresh : BOOLEAN]
      /\ generation'.there => generation.there
  <2>1. generation \in [there : BOOLEAN, fresh : BOOLEAN]
    BY DEF WizardSafe, WizardShape
  <2>2. CASE generation.there
    <3>1. /\ generation' = [there |-> FALSE, fresh |-> FALSE]
          /\ run' = [run EXCEPT ![t] = [kind |-> "cleanup"]]
      BY <2>2 DEF Complete
    <3> QED BY <1>1, <2>2, <3>1
  <2>3. CASE ~ generation.there
    <3>1. generation' = generation /\ run' = [run EXCEPT ![t] = NotRunning]
      BY <2>3 DEF Complete
    <3> QED BY <1>1, <2>1, <3>1 DEF NotRunning
  <2> QED BY <2>2, <2>3
<1>3. run'["background"] = run["background"]
  BY <1>1, <1>2 DEF Actors
<1>4. WizardShape'
  <2>1. \A a \in Actors : Doing(run[a]')
    <3>1. Doing(run[t]')
      BY <1>2 DEF Doing
    <3>2. \A a \in Actors \ {t} : Doing(run[a]')
      BY <1>2 DEF Doing, WizardSafe, WizardShape
    <3> QED BY <3>1, <3>2
  <2> QED BY <1>2, <1>3, <2>1 DEF WizardSafe, WizardShape
<1>5. ~ InFlight(t)' /\ \A a \in Actors \ {t} : InFlight(a)' <=> InFlight(a)
  BY <1>2 DEF InFlight
<1>6. OneAtATime'
  <2>1. \A a, b \in Actors : InFlight(a)' /\ InFlight(b)' => a = b
    BY <1>5 DEF WizardSafe, OneAtATime
  <2>2. ASSUME NEW a \in Actors
        PROVE  /\ run'[a].kind = "cleanup" => ~ generation'.there
               /\ run'[a].kind \in {"retryConclusions", "retryResearch"} /\ thread' = NoThread =>
                    ~ generation'.there
    <3>1. CASE a = t
      BY <3>1, <1>2
    <3>2. CASE a # t
      BY <3>2, <1>2 DEF WizardSafe, OneAtATime
    <3> QED BY <3>1, <3>2
  <2> QED BY <2>1, <2>2 DEF OneAtATime
<1>7. OneIsEnough'
  <2> SUFFICES ASSUME trees # <<>>
               PROVE  /\ \A a \in Actors : "st" \in DOMAIN run'[a] => run'[a].st.next \in {"saved", "end"}
                      /\ \/ Ended(thread)
                         \/ \E a \in Actors : "st" \in DOMAIN run'[a] /\ run'[a].st.next = "saved"
                         \/ ~ generation'.there /\ \A a \in Actors : ~ InFlight(a)'
    BY <1>3 DEF OneIsEnough, WizardSafe
  <2>1. \A a \in Actors : "st" \in DOMAIN run[a] => run[a].st.next \in {"saved", "end"}
    BY DEF WizardSafe, OneIsEnough
  <2>2. ASSUME NEW a \in Actors, "st" \in DOMAIN run[a], run[a].st.next = "saved"
        PROVE  "st" \in DOMAIN run'[a] /\ run'[a].st.next = "saved"
    <3>1. a # t
      BY <2>2 DEF NotRunning
    <3> QED BY <3>1, <2>2, <1>2
  <2>3. \A a \in Actors : "st" \in DOMAIN run'[a] => run'[a].st.next \in {"saved", "end"}
    BY <1>2, <2>1
  <2>4. \/ Ended(thread)
        \/ \E a \in Actors : "st" \in DOMAIN run[a] /\ run[a].st.next = "saved"
        \/ ~ generation.there /\ \A a \in Actors : ~ InFlight(a)
    BY DEF WizardSafe, OneIsEnough
  <2>5. (\A a \in Actors : ~ InFlight(a)) => \A a \in Actors : ~ InFlight(a)'
    BY <1>5
  <2> QED BY <1>2, <2>2, <2>3, <2>4, <2>5
<1> QED BY <1>4, <1>6, <1>7 DEF WizardSafe

\* A run that ends leaves the others where they are.
LEMMA RunsEnd ==
  ASSUME WizardSafe, NEW a \in Actors, run' = [run EXCEPT ![a] = NotRunning],
         trees' = trees, generation' = generation, "next" \in DOMAIN thread',
         thread' = NoThread => thread = NoThread \/ ~ generation.there \/ InFlight(a),
         trees # <<>> =>
           \/ Ended(thread')
           \/ thread' = thread /\ ("st" \in DOMAIN run[a] => run[a].st.next # "saved")
           \/ ~ generation.there /\ InFlight(a)
  PROVE  WizardSafe'
<1>1. /\ DOMAIN run' = Actors /\ run'[a] = NotRunning
      /\ \A b \in Actors \ {a} : run'[b] = run[b]
  BY DEF WizardSafe, WizardShape
<1>2. /\ DOMAIN NotRunning = {"kind"} /\ NotRunning.kind = "idle"
  BY DEF NotRunning
<1>3. WizardShape'
  <2>1. \A b \in Actors : Doing(run[b]')
    BY <1>1, <1>2 DEF Doing, WizardSafe, WizardShape
  <2>2. "value" \in DOMAIN run'["background"] => run'["background"] = run["background"]
    BY <1>1, <1>2 DEF Actors
  <2> QED BY <1>1, <2>1, <2>2 DEF WizardSafe, WizardShape
<1>4. ~ InFlight(a)' /\ \A b \in Actors \ {a} : InFlight(b)' <=> InFlight(b)
  BY <1>1, <1>2 DEF InFlight
<1>5. OneAtATime'
  <2>1. \A b, c \in Actors : InFlight(b)' /\ InFlight(c)' => b = c
    BY <1>4 DEF WizardSafe, OneAtATime
  <2>2. ASSUME NEW b \in Actors
        PROVE  /\ run'[b].kind = "cleanup" => ~ generation'.there
               /\ run'[b].kind \in {"retryConclusions", "retryResearch"} /\ thread' = NoThread =>
                    ~ generation'.there
    <3>1. CASE b = a
      BY <3>1, <1>1, <1>2
    <3>2. CASE b # a
      BY <3>2, <1>1 DEF WizardSafe, OneAtATime, InFlight
    <3> QED BY <3>1, <3>2
  <2> QED BY <2>1, <2>2 DEF OneAtATime
<1>6. OneIsEnough'
  <2> SUFFICES ASSUME trees # <<>>
               PROVE  /\ \A b \in Actors : "st" \in DOMAIN run'[b] => run'[b].st.next \in {"saved", "end"}
                      /\ "value" \in DOMAIN run'["background"] => run'["background"].kind # "first"
                      /\ \/ Ended(thread')
                         \/ \E b \in Actors : "st" \in DOMAIN run'[b] /\ run'[b].st.next = "saved"
                         \/ ~ generation.there /\ \A b \in Actors : ~ InFlight(b)'
    BY DEF OneIsEnough, WizardSafe
  <2>1. /\ \A b \in Actors : "st" \in DOMAIN run[b] => run[b].st.next \in {"saved", "end"}
        /\ "value" \in DOMAIN run["background"] => run["background"].kind # "first"
        /\ \/ Ended(thread)
           \/ \E b \in Actors : "st" \in DOMAIN run[b] /\ run[b].st.next = "saved"
           \/ ~ generation.there /\ \A b \in Actors : ~ InFlight(b)
    BY DEF WizardSafe, OneIsEnough
  <2>2. \A b \in Actors : "st" \in DOMAIN run'[b] => run'[b].st.next \in {"saved", "end"}
    BY <1>1, <1>2, <2>1
  <2>3. "value" \in DOMAIN run'["background"] => run'["background"].kind # "first"
    BY <1>1, <1>2, <2>1 DEF Actors
  <2>4. CASE thread' = thread /\ ("st" \in DOMAIN run[a] => run[a].st.next # "saved")
    <3>1. (\E b \in Actors : "st" \in DOMAIN run[b] /\ run[b].st.next = "saved") =>
            \E b \in Actors : "st" \in DOMAIN run'[b] /\ run'[b].st.next = "saved"
      BY <2>4, <1>1
    <3>2. (\A b \in Actors : ~ InFlight(b)) => \A b \in Actors : ~ InFlight(b)'
      BY <1>4
    <3> QED BY <2>1, <2>2, <2>3, <2>4, <3>1, <3>2
  <2>5. CASE ~ generation.there /\ InFlight(a)
    <3>1. \A b \in Actors : ~ InFlight(b)'
      BY <2>5, <1>4 DEF WizardSafe, OneAtATime
    <3> QED BY <2>2, <2>3, <2>5, <3>1
  <2> QED BY <2>2, <2>3, <2>4, <2>5
<1> QED BY <1>3, <1>5, <1>6 DEF WizardSafe

\* What the user does.
LEMMA SubmitIsSafe ==
  ASSUME WizardSafe, "torn" \notin mishaps', NEW t \in Tabs, Submit(t)
  PROVE  WizardSafe'
<1>f. /\ "next" \in DOMAIN thread /\ NoThread.next = "nothing"
      /\ t \in Actors /\ t # "background" /\ DOMAIN run = Actors
  BY WizardAssumption DEF WizardSafe, WizardShape, NoThread, Actors
<1>1. CASE SubmitResearch(t)
  <2>1. PICK edits, touches : Begin(t, "research", edits, touches) /\ thread' = thread
    BY <1>1 DEF SubmitResearch
  <2> QED BY <2>1, <1>f, RequestsBegin
<1>2. CASE SkipConclusions(t)
  <2>1. CASE thread = NoThread
    BY <1>2, <2>1, <1>f DEF SkipConclusions, WizardSafe, WizardShape, OneAtATime, OneIsEnough, InFlight
  <2>2. CASE thread # NoThread
    <3>1. /\ thread' = Updated(thread, <<>>) /\ generation.there
          /\ UNCHANGED <<generation, run, trees>>
          /\ \A a \in Actors : ~ InFlight(a)
      BY <1>2, <2>2, NobodyInFlight DEF SkipConclusions
    <3>2. /\ "next" \in DOMAIN thread'
          /\ Ended(thread) => Ended(thread')
      <4>1. "next" \notin DOMAIN <<>>
        OBVIOUS
      <4> QED BY <3>1, <2>2, <1>f, <4>1, UpdateKeepsEnd DEF Ended
    <3>3. WizardShape'
      BY <3>1, <3>2 DEF WizardSafe, WizardShape
    <3>4. OneAtATime'
      BY <3>1 DEF WizardSafe, OneAtATime, InFlight
    <3>5. OneIsEnough'
      <4>1. \A a \in Actors : "st" \notin DOMAIN run[a]
        BY <3>1, StatesAreInFlight
      <4> QED BY <3>1, <3>2, <4>1 DEF WizardSafe, OneIsEnough
    <3> QED BY <3>3, <3>4, <3>5 DEF WizardSafe
  <2> QED BY <2>1, <2>2
<1>3. CASE SubmitConclusions(t)
  BY <1>3, <1>f, RequestsBegin DEF SubmitConclusions
<1>4. CASE SubmitOwnConclusions(t)
  <2> DEFINE values == [concl |-> "C", conclEd |-> "C"]
  <2>1. /\ thread # NoThread /\ thread' = Updated(thread, values)
        /\ Begin(t, "own", Text("C"), TRUE)
    BY <1>4 DEF SubmitOwnConclusions
  <2>2. "next" \notin DOMAIN values
    OBVIOUS
  <2>3. /\ "next" \in DOMAIN thread'
        /\ Ended(thread) => Ended(thread')
    BY <2>1, <2>2, <1>f, UpdateKeepsEnd DEF Ended
  <2> QED BY <2>1, <2>3, RequestsBegin
<1>5. CASE SubmitDesign(t)
  BY <1>5, <1>f, RequestsBegin DEF SubmitDesign
<1>6. CASE RetryResearch(t)
  <2>1. /\ thread # NoThread /\ thread' = thread /\ generation' = generation /\ trees' = trees
        /\ generation.there /\ \A a \in Actors : ~ InFlight(a)
    BY <1>6, NobodyInFlight DEF RetryResearch
  <2>2. PICK input : run' = [run EXCEPT !["background"] = [kind |-> "retryResearch", input |-> input]]
    BY <1>6 DEF RetryResearch
  <2>3. /\ "background" \in Actors /\ DOMAIN run' = Actors
        /\ run'["background"] = [kind |-> "retryResearch", input |-> input]
        /\ \A a \in Actors \ {"background"} : run'[a] = run[a]
    BY <2>2, <1>f DEF Actors
  <2>4. Doing(run["background"]') /\ "value" \notin DOMAIN run'["background"]
    BY <2>3 DEF Doing
  <2>5. WizardShape'
    <3>1. \A a \in Actors : Doing(run[a]')
      BY <2>3, <2>4 DEF Doing, WizardSafe, WizardShape
    <3> QED BY <2>1, <2>3, <2>4, <3>1 DEF WizardSafe, WizardShape
  <2>6. \A a \in Actors \ {"background"} : run'[a].kind \in {"idle", "cleanup"}
    BY <2>1, <2>3 DEF InFlight
  <2>7. OneAtATime'
    <3>1. \A a, b \in Actors : InFlight(a)' /\ InFlight(b)' => a = b
      BY <2>6 DEF InFlight
    <3>2. \A a \in Actors : run'[a].kind = "cleanup" => ~ generation'.there
      BY <2>1, <2>3 DEF WizardSafe, OneAtATime
    <3> QED BY <2>1, <3>1, <3>2 DEF OneAtATime
  <2>8. OneIsEnough'
    <3>1. \A a \in Actors : "st" \notin DOMAIN run[a]
      BY <2>1, StatesAreInFlight
    <3>2. \A a \in Actors : "st" \notin DOMAIN run'[a]
      BY <2>3, <3>1
    <3> QED BY <2>1, <2>4, <3>1, <3>2 DEF WizardSafe, OneIsEnough
  <2> QED BY <2>5, <2>7, <2>8 DEF WizardSafe
<1>7. CASE RetryConclusions(t)
  BY <1>7, <1>f, RequestsBegin DEF RetryConclusions
<1>8. CASE RetryDesign(t)
  BY <1>8, <1>f, RequestsBegin DEF RetryDesign
<1>9. CASE RetryBuild(t)
  BY <1>9, <1>f, RequestsBegin DEF RetryBuild
<1>10. CASE BackToResearch(t)
  BY <1>10 DEF BackToResearch, WizardSafe, WizardShape, OneAtATime, OneIsEnough, InFlight
<1>11. CASE View(t)
  <2>1. CASE thread # NoThread /\ thread.tree # 0
    BY <1>11, <2>1, RowsComplete DEF View
  <2>2. CASE ~ (thread # NoThread /\ thread.tree # 0)
    <3>1. UNCHANGED <<generation, run, thread, trees>>
      BY <1>11, <2>2 DEF View
    <3> QED BY <3>1 DEF WizardSafe, WizardShape, OneAtATime, OneIsEnough, InFlight
  <2> QED BY <2>1, <2>2
<1>12. CASE Abandon(t)
  BY <1>12, RowsComplete DEF Abandon
<1> QED BY <1>1, <1>2, <1>3, <1>4, <1>5, <1>6, <1>7, <1>8, <1>9, <1>10, <1>11, <1>12 DEF Submit

\* A run that goes on with a state of the workflow goes on alone.
LEMMA RunsGoOn ==
  ASSUME WizardSafe, NEW a \in Actors, InFlight(a),
         DOMAIN run' = Actors, DOMAIN run'[a] = {"kind", "st"}, run'[a].kind = run[a].kind,
         run[a].kind \notin {"retryConclusions", "retryResearch"},
         \A b \in Actors \ {a} : run'[b] = run[b],
         "next" \in DOMAIN run'[a].st, "next" \in DOMAIN thread', generation' = generation,
         \/ trees = <<>> /\ trees' = trees
         \/ Len(trees') = 1 /\ run'[a].st.next = "saved"
         \/ trees' = trees /\ run'[a].st.next = "end" /\ thread'.next = "end"
  PROVE  WizardSafe'
<1>1. \A b \in Actors \ {a} : ~ InFlight(b) /\ ~ InFlight(b)' /\ DOMAIN run[b] = {"kind"}
  <2>1. \A b \in Actors \ {a} : ~ InFlight(b)
    BY DEF WizardSafe, OneAtATime
  <2>2. \A b \in Actors \ {a} : DOMAIN run[b] = {"kind"}
    BY <2>1, StatesAreInFlight
  <2> QED BY <2>1, <2>2 DEF InFlight
<1>2. Doing(run[a]')
  BY DEF Doing, InFlight
<1>3. WizardShape'
  <2>1. \A b \in Actors : Doing(run[b]')
    BY <1>2 DEF Doing, WizardSafe, WizardShape
  <2>2. "value" \notin DOMAIN run'["background"]
    BY <1>1 DEF Actors
  <2> QED BY <2>1, <2>2 DEF WizardSafe, WizardShape
<1>4. OneAtATime'
  <2>1. \A b, c \in Actors : InFlight(b)' /\ InFlight(c)' => b = c
    BY <1>1
  <2>2. ASSUME NEW b \in Actors
        PROVE  /\ run'[b].kind = "cleanup" => ~ generation'.there
               /\ run'[b].kind \notin {"retryConclusions", "retryResearch"}
    <3>1. CASE b = a
      BY <3>1 DEF InFlight
    <3>2. CASE b # a
      BY <3>2, <1>1 DEF WizardSafe, OneAtATime, InFlight
    <3> QED BY <3>1, <3>2
  <2> QED BY <2>1, <2>2 DEF OneAtATime
<1>5. OneIsEnough'
  <2>1. trees' = <<>> \/ Len(trees') = 1
    BY DEF WizardSafe, OneIsEnough
  <2> SUFFICES ASSUME trees' # <<>>
               PROVE  /\ \A b \in Actors : "st" \in DOMAIN run'[b] => run'[b].st.next \in {"saved", "end"}
                      /\ "value" \notin DOMAIN run'["background"]
                      /\ \/ Ended(thread')
                         \/ \E b \in Actors : "st" \in DOMAIN run'[b] /\ run'[b].st.next = "saved"
    BY <2>1 DEF OneIsEnough
  <2>2. \/ run'[a].st.next = "saved"
        \/ run'[a].st.next = "end" /\ thread'.next = "end"
    OBVIOUS
  <2>3. \A b \in Actors \ {a} : "st" \notin DOMAIN run'[b] /\ "value" \notin DOMAIN run'[b]
    BY <1>1
  <2>4. "value" \notin DOMAIN run'["background"]
    BY <2>3 DEF Actors
  <2> QED BY <2>2, <2>3, <2>4 DEF Ended
<1> QED BY <1>3, <1>4, <1>5 DEF WizardSafe

\* A subgraph run beside the workflow leaves an ended thread ended; one whose
\* checkpoints are gone it starts anew, but then its row is gone too.
LEMMA RetriesEnd ==
  ASSUME WizardSafe, NEW a \in Actors, run[a].kind \in {"retryConclusions", "retryResearch"},
         run' = [run EXCEPT ![a] = NotRunning], trees' = trees, generation' = generation,
         "next" \in DOMAIN thread', thread.next = "end" => thread'.next = "end"
  PROVE  WizardSafe'
<1>1. InFlight(a) /\ (thread = NoThread => ~ generation.there)
  BY DEF InFlight, WizardSafe, OneAtATime
<1>2. trees # <<>> => Ended(thread)
  <2>1. DOMAIN run[a] # {"kind", "st"}
    BY DEF WizardSafe, WizardShape, Doing
  <2>2. "st" \notin DOMAIN run[a]
    BY <2>1 DEF WizardSafe, WizardShape, Doing
  <2>3. \A b \in Actors : "st" \notin DOMAIN run[b]
    BY <1>1, <2>2, StatesAreInFlight DEF WizardSafe, OneAtATime
  <2> QED BY <1>1, <2>3 DEF WizardSafe, OneIsEnough
<1>3. trees # <<>> => Ended(thread') \/ (~ generation.there /\ InFlight(a))
  BY <1>1, <1>2 DEF Ended
<1> QED BY <1>1, <1>3, RunsEnd

\* What the server does for a request.
LEMMA ServeIsSafe ==
  ASSUME WizardSafe, NEW t \in Tabs, Serve(t)
  PROVE  WizardSafe'
<1>f. /\ "next" \in DOMAIN thread /\ NoThread.next = "nothing" /\ "next" \in DOMAIN NoThread
      /\ t \in Actors /\ t # "background" /\ DOMAIN run = Actors /\ Doing(run[t])
  BY WizardAssumption DEF WizardSafe, WizardShape, NoThread, Actors
<1>1. CASE Load(t)
  <2>1. /\ DOMAIN run[t] = {"kind", "value"} /\ InFlight(t)
        /\ run[t].kind \notin {"retryConclusions", "retryResearch"}
        /\ UNCHANGED <<generation, trees>>
    BY <1>1, <1>f DEF Load, Doing, InFlight
  <2>2. CASE thread = NoThread
    <3>1. run' = [run EXCEPT ![t] = NotRunning] /\ thread' = thread
      BY <1>1, <2>2 DEF Load
    <3> QED BY <1>f, <2>1, <2>2, <3>1, RunsEnd
  <2>3. CASE thread # NoThread
    <3> DEFINE st == IF thread.next \in Waiting THEN Resumed(thread, run[t].value) ELSE thread
    <3>1. thread' = st /\ run' = [run EXCEPT ![t] = [kind |-> run[t].kind, st |-> st]]
      BY <1>1, <2>3 DEF Load
    <3>2. "next" \in DOMAIN st
      BY <1>f, StatesGoOn
    <3>3. trees # <<>> => Ended(thread)
      <4>1. \A b \in Actors \ {t} : ~ InFlight(b)
        BY <1>f, <2>1 DEF WizardSafe, OneAtATime
      <4>2. \A b \in Actors \ {t} : "st" \notin DOMAIN run[b]
        BY <4>1, StatesAreInFlight
      <4>3. \A b \in Actors : "st" \notin DOMAIN run[b]
        BY <2>1, <4>2
      <4> QED BY <1>f, <2>1, <4>3 DEF WizardSafe, OneIsEnough
    <3>4. trees # <<>> => st = thread /\ thread.next = "end"
      BY <2>3, <3>3 DEF Waiting, Ended
    <3>5. CASE trees = <<>>
      <4> HIDE DEF st
      <4> QED BY <1>f, <2>1, <3>1, <3>2, <3>5, RunsGoOn
    <3>6. CASE trees # <<>>
      <4> HIDE DEF st
      <4> QED BY <1>f, <2>1, <3>1, <3>2, <3>4, <3>6, RunsGoOn
    <3> QED BY <3>5, <3>6
  <2> QED BY <2>2, <2>3
<1>2. CASE Respond(t)
  <2>1. /\ "st" \in DOMAIN run[t] /\ run[t].st.next \in Waiting \cup {"end"}
        /\ UNCHANGED <<thread, trees>>
        /\ \/ Complete(t)
           \/ run' = [run EXCEPT ![t] = NotRunning] /\ generation' = generation
    BY <1>2 DEF Respond
  <2>2. run[t].st.next # "saved"
    BY <2>1 DEF Waiting
  <2>3. CASE Complete(t)
    BY <2>1, <2>2, <2>3, RowsComplete
  <2>4. CASE run' = [run EXCEPT ![t] = NotRunning] /\ generation' = generation
    BY <1>f, <2>1, <2>2, <2>4, RunsEnd
  <2> QED BY <2>1, <2>3, <2>4
<1>3. CASE ConclusionsRetried(t)
  <2>1. /\ run[t].kind = "retryConclusions" /\ run' = [run EXCEPT ![t] = NotRunning]
        /\ UNCHANGED <<generation, trees>>
    BY <1>3 DEF ConclusionsRetried
  <2>2. PICK text : thread' = Updated(thread, [concl |-> text])
    BY <1>3 DEF ConclusionsRetried
  <2>3. "next" \notin DOMAIN [concl |-> text]
    OBVIOUS
  <2>4. "next" \in DOMAIN thread' /\ (thread.next = "end" => thread'.next = "end")
    BY <1>f, <2>2, <2>3, UpdateKeepsEnd
  <2> QED BY <1>f, <2>1, <2>4, RetriesEnd
<1>4. CASE DeleteCheckpoints(t)
  <2>1. /\ run[t].kind = "cleanup" /\ run' = [run EXCEPT ![t] = NotRunning]
        /\ thread' = NoThread /\ UNCHANGED <<generation, trees>>
    BY <1>4 DEF DeleteCheckpoints
  <2>2. ~ generation.there
    BY <1>f, <2>1 DEF WizardSafe, OneAtATime
  <2> QED BY <1>f, <2>1, <2>2, RunsEnd DEF Ended
<1> QED BY <1>1, <1>2, <1>3, <1>4 DEF Serve

\* The workflow's nodes, and the saving of the tree.
LEMMA WorkIsSafe ==
  ASSUME WizardSafe, NEW a \in Actors, Work(a)
  PROVE  WizardSafe'
<1>1. /\ "st" \in DOMAIN run[a] /\ run[a].kind # "retryConclusions" /\ run[a].kind # "retryResearch"
      /\ DOMAIN run[a] = {"kind", "st"} /\ "next" \in DOMAIN run[a].st
      /\ InFlight(a) /\ DOMAIN run = Actors /\ "next" \in DOMAIN thread
  <2>1. "st" \in DOMAIN run[a]
    BY DEF Work, Node, SaveTree, SaveFails, SaveCheckpoint
  <2> QED BY <2>1, StatesAreInFlight DEF WizardSafe, WizardShape, Doing
<1>2. trees # <<>> => run[a].st.next \in {"saved", "end"}
  BY <1>1 DEF WizardSafe, OneIsEnough
<1>3. CASE Node(a)
  <2>1. PICK st \in NodeOutcomes(run[a].st, run[a].kind \in {"first", "research"}) :
          run' = [run EXCEPT ![a].st = st] /\ thread' = st
    BY <1>3 DEF Node
  <2>2. /\ run[a].st.next \in {"research", "conclusions", "design", "build"}
        /\ UNCHANGED <<generation, trees>>
    BY <1>3 DEF Node
  <2>3. trees = <<>>
    BY <1>2, <2>2
  <2>4. "next" \in DOMAIN st
    BY <1>1, <2>1, <2>2, StatesGoOn
  <2>5. /\ DOMAIN run' = Actors /\ DOMAIN run'[a] = {"kind", "st"} /\ run'[a].kind = run[a].kind
        /\ run'[a].st = st /\ \A b \in Actors \ {a} : run'[b] = run[b]
    BY <1>1, <2>1
  <2> QED BY <1>1, <2>1, <2>2, <2>3, <2>4, <2>5, RunsGoOn
<1>4. CASE SaveTree(a)
  <2>1. /\ run[a].st.next = "save" /\ thread' = thread /\ generation' = generation
        /\ run' = [run EXCEPT ![a].st.next = "saved", ![a].st.tree = Len(trees')]
    BY <1>4 DEF SaveTree
  <2>2. PICK text : trees' = Append(trees, text)
    BY <1>4 DEF SaveTree
  <2>3. trees = <<>>
    BY <1>2, <2>1
  <2>4. Len(trees') = 1
    <3>1. trees \in Seq({text}) /\ Len(trees) = 0
      BY <2>3
    <3> QED BY <2>2, <3>1
  <2>5. /\ DOMAIN run' = Actors /\ DOMAIN run'[a] = {"kind", "st"} /\ run'[a].kind = run[a].kind
        /\ "next" \in DOMAIN run'[a].st /\ run'[a].st.next = "saved"
        /\ \A b \in Actors \ {a} : run'[b] = run[b]
    BY <1>1, <2>1
  <2> QED BY <1>1, <2>1, <2>4, <2>5, RunsGoOn
<1>5. ASSUME run' = [run EXCEPT ![a].st.next = "end"], thread' = run'[a].st,
             UNCHANGED <<generation, trees>>
      PROVE  WizardSafe'
  <2>1. /\ DOMAIN run' = Actors /\ DOMAIN run'[a] = {"kind", "st"} /\ run'[a].kind = run[a].kind
        /\ "next" \in DOMAIN run'[a].st /\ run'[a].st.next = "end"
        /\ \A b \in Actors \ {a} : run'[b] = run[b]
    BY <1>1, <1>5
  <2> QED BY <1>1, <1>5, <2>1, RunsGoOn
<1>6. CASE SaveFails(a)
  BY <1>5, <1>6 DEF SaveFails
<1>7. CASE SaveCheckpoint(a)
  BY <1>5, <1>7 DEF SaveCheckpoint
<1> QED BY <1>3, <1>4, <1>6, <1>7 DEF Work

\* The tasks in the background.
LEMMA BackgroundIsSafe ==
  ASSUME WizardSafe, InBackground
  PROVE  WizardSafe'
<1> DEFINE bg == "background"
<1>f. /\ "next" \in DOMAIN thread /\ bg \in Actors /\ DOMAIN run = Actors /\ Doing(run[bg])
  BY DEF WizardSafe, WizardShape, Actors
<1>1. CASE StartWorkflow
  <2>1. /\ run[bg].kind = "first" /\ "value" \in DOMAIN run[bg] /\ thread' = run[bg].value
        /\ run' = [run EXCEPT ![bg] = [kind |-> "first", st |-> thread']]
        /\ UNCHANGED <<generation, trees>>
    BY <1>1 DEF StartWorkflow
  <2>2. thread' = FirstState /\ "next" \in DOMAIN thread'
    BY <2>1 DEF WizardSafe, WizardShape, FirstState
  <2>3. trees = <<>>
    BY <2>1 DEF WizardSafe, OneIsEnough
  <2>4. InFlight(bg)
    BY <2>1 DEF InFlight
  <2>5. /\ DOMAIN run' = Actors /\ DOMAIN run'[bg] = {"kind", "st"} /\ run'[bg].kind = run[bg].kind
        /\ run'[bg].st = thread' /\ \A b \in Actors \ {bg} : run'[b] = run[b]
    BY <1>f, <2>1
  <2> HIDE DEF bg
  <2> QED BY <1>f, <2>1, <2>2, <2>3, <2>4, <2>5, RunsGoOn
<1>2. CASE ResearchComplete
  <2>1. /\ "st" \in DOMAIN run[bg] /\ run[bg].st.next = "wait_research"
        /\ run' = [run EXCEPT ![bg] = NotRunning] /\ UNCHANGED <<generation, trees, thread>>
    BY <1>2 DEF ResearchComplete
  <2> QED BY <1>f, <2>1, RunsEnd
<1>3. CASE ResearchRetried
  <2>1. /\ run[bg].kind = "retryResearch" /\ run' = [run EXCEPT ![bg] = NotRunning]
        /\ UNCHANGED <<generation, trees>>
    BY <1>3 DEF ResearchRetried
  <2>2. PICK r, n : thread' = Updated(thread, [research |-> r, augmented |-> n])
    BY <1>3 DEF ResearchRetried
  <2>3. "next" \notin DOMAIN [research |-> r, augmented |-> n]
    OBVIOUS
  <2>4. "next" \in DOMAIN thread' /\ (thread.next = "end" => thread'.next = "end")
    BY <1>f, <2>2, <2>3, UpdateKeepsEnd
  <2> QED BY <1>f, <2>1, <2>4, RetriesEnd
<1> QED BY <1>1, <1>2, <1>3 DEF InBackground

\* Maintenance.
LEMMA MaintainIsSafe ==
  ASSUME WizardSafe, "torn" \notin mishaps', Maintain
  PROVE  WizardSafe'
<1>f. NoThread.next = "nothing" /\ "next" \in DOMAIN NoThread
  BY DEF NoThread
<1>u. run' = run /\ trees' = trees
  BY DEF Maintain, TimePasses, SelectStale, PurgeStale, DeleteStale, SweepOrphans
<1>1. /\ generation' \in [there : BOOLEAN, fresh : BOOLEAN]
      /\ generation'.there => generation.there
      /\ thread' = thread \/ thread' = NoThread
  <2>1. generation \in [there : BOOLEAN, fresh : BOOLEAN]
    BY DEF WizardSafe, WizardShape
  <2>2. CASE TimePasses
    <3>1. generation' = [generation EXCEPT !.fresh = FALSE] /\ thread' = thread
      BY <2>2 DEF TimePasses
    <3> QED BY <2>1, <3>1
  <2>3. CASE DeleteStale
    <3>1. thread' = thread
      BY <2>3 DEF DeleteStale
    <3>2. CASE generation.fresh
      <4>1. generation' = generation
        BY <2>3, <3>2 DEF DeleteStale
      <4> QED BY <2>1, <3>1, <4>1
    <3>3. CASE ~ generation.fresh
      <4>1. generation' = [there |-> FALSE, fresh |-> FALSE]
        BY <2>3, <3>3 DEF DeleteStale
      <4> QED BY <3>1, <4>1
    <3> QED BY <3>2, <3>3
  <2>4. CASE SelectStale \/ PurgeStale \/ SweepOrphans
    BY <2>1, <2>4 DEF SelectStale, PurgeStale, SweepOrphans
  <2> QED BY <2>2, <2>3, <2>4 DEF Maintain
<1>2. thread' = thread \/ ~ generation.there \/ \A a \in Actors : ~ InFlight(a)
  BY DEF Maintain, TimePasses, SelectStale, PurgeStale, DeleteStale, SweepOrphans
<1>3. WizardShape'
  BY <1>f, <1>u, <1>1 DEF WizardSafe, WizardShape
<1>4. OneAtATime'
  <2>1. \A a, b \in Actors : InFlight(a)' /\ InFlight(b)' => a = b
    BY <1>u DEF WizardSafe, OneAtATime, InFlight
  <2>2. ASSUME NEW a \in Actors
        PROVE  /\ run'[a].kind = "cleanup" => ~ generation'.there
               /\ run'[a].kind \in {"retryConclusions", "retryResearch"} /\ thread' = NoThread =>
                    ~ generation'.there
    BY <1>u, <1>1, <1>2 DEF WizardSafe, OneAtATime, InFlight
  <2> QED BY <2>1, <2>2 DEF OneAtATime
<1>5. OneIsEnough'
  BY <1>u, <1>1 DEF WizardSafe, OneIsEnough, Ended, InFlight
<1> QED BY <1>3, <1>4, <1>5 DEF WizardSafe

\* The wizard's invariant holds at first, and every step keeps it: once two
\* requests have run at once or one has broken off there is nothing to keep.
LEMMA WizardInvHolds == WizardSpec => []WizardInv
<1>1. WizardInit => WizardInv
  <2> SUFFICES ASSUME WizardInit
               PROVE  WizardSafe
    BY DEF WizardInv, WizardSafe
  <2>1. /\ DOMAIN run = Actors /\ run["background"] = [kind |-> "first", value |-> FirstState]
        /\ \A a \in Actors \ {"background"} : run[a] = [kind |-> "idle"]
    BY DEF WizardInit, NotRunning, Actors
  <2>2. WizardShape
    <3>1. \A a \in Actors : Doing(run[a])
      BY <2>1 DEF Doing
    <3> QED BY <2>1, <3>1 DEF WizardInit, WizardShape, NoThread
  <2>3. OneAtATime
    BY <2>1 DEF OneAtATime, InFlight
  <2>4. OneIsEnough
    BY DEF WizardInit, OneIsEnough
  <2> QED BY <2>2, <2>3, <2>4 DEF WizardSafe
<1>2. WizardInv /\ [WizardNext]_wizardVars => WizardInv'
  <2> SUFFICES ASSUME WizardInv, [WizardNext]_wizardVars, "torn" \notin mishaps'
               PROVE  WizardSafe'
    BY DEF WizardInv, WizardSafe
  <2>1. CASE UNCHANGED wizardVars
    BY <2>1 DEF wizardVars, WizardInv, WizardSafe, WizardShape, OneAtATime, OneIsEnough, InFlight
  <2>2. ASSUME NEW t \in Tabs, Submit(t)
        PROVE  WizardSafe'
    <3>1. "torn" \notin mishaps
      BY <2>2 DEF Submit, SubmitResearch, SkipConclusions, SubmitConclusions,
                  SubmitOwnConclusions, SubmitDesign, RetryResearch, RetryConclusions,
                  RetryDesign, RetryBuild, BackToResearch, View, Abandon, Begin, Noted
    <3> QED BY <2>2, <3>1, SubmitIsSafe DEF WizardInv, WizardSafe
  <2>3. ASSUME NEW t \in Tabs, Serve(t)
        PROVE  WizardSafe'
    <3>1. "torn" \notin mishaps
      BY <2>3 DEF Serve, Load, Respond, ConclusionsRetried, DeleteCheckpoints
    <3> QED BY <2>3, <3>1, ServeIsSafe DEF WizardInv, WizardSafe
  <2>4. ASSUME NEW t \in Tabs
        PROVE  ~ Fail(t)
    BY DEF Fail
  <2>5. ASSUME NEW a \in Actors
        PROVE  ~ Crash(a)
    BY DEF Crash
  <2>6. ASSUME NEW a \in Actors, Work(a)
        PROVE  WizardSafe'
    <3>1. "torn" \notin mishaps
      BY <2>6 DEF Work, Node, SaveTree, SaveFails, SaveCheckpoint
    <3> QED BY <2>6, <3>1, WorkIsSafe DEF WizardInv, WizardSafe
  <2>7. CASE InBackground
    <3>1. "torn" \notin mishaps
      BY <2>7 DEF InBackground, StartWorkflow, ResearchComplete, ResearchRetried
    <3> QED BY <2>7, <3>1, BackgroundIsSafe DEF WizardInv, WizardSafe
  <2>8. CASE Maintain
    <3>1. "torn" \notin mishaps
      BY <2>8 DEF Maintain, TimePasses, SelectStale, PurgeStale, DeleteStale, SweepOrphans
    <3> QED BY <2>8, <3>1, MaintainIsSafe DEF WizardInv, WizardSafe
  <2> QED BY <2>1, <2>2, <2>3, <2>4, <2>5, <2>6, <2>7, <2>8 DEF WizardNext
<1> QED BY <1>1, <1>2, PTL DEF WizardSpec

\* A generation makes one tree, whatever the number of tabs, unless two
\* requests ran on its thread at once or one broke off: retries, pages gone
\* back to, a row abandoned or cleaned up while a request runs make no second.
THEOREM OneTreePerGenerationHolds == WizardSpec => []OneTreePerGeneration
<1>1. WizardInv => OneTreePerGeneration
  <2>1. trees = <<>> => Len(trees) = 0
    OBVIOUS
  <2>2. OneIsEnough => Len(trees) = 0 \/ Len(trees) = 1
    BY <2>1 DEF OneIsEnough
  <2>3. \A n \in {0, 1} : n <= 1
    OBVIOUS
  <2>4. OneIsEnough => Len(trees) <= 1
    <3> DEFINE n == Len(trees)
    <3> SUFFICES ASSUME n \in {0, 1} PROVE n <= 1
      BY <2>2
    <3> HIDE DEF n
    <3> QED BY <2>3
  <2> QED BY <2>4 DEF WizardInv, WizardSafe, OneTreePerGeneration
<1> QED BY <1>1, WizardInvHolds, PTL

-----------------------------------------------------------------------------
(* The wizard. Straight runs of one tab.                                   *)

\* A state of the workflow in which the user's fields hold what the user has
\* submitted, and which builds from nothing else.
Submitted(st) ==
  /\ DOMAIN st = DOMAIN FirstState /\ st.next # "nothing"
  /\ st.conclEd \in {"", "C"} /\ st.designEd \in {"", "D"}
  /\ st.next \in {"build", "save", "saved"} => st.designEd = "D"

\* What the phases so far have left, the phases being gone through in order.
InOrder(st) ==
  /\ st.next \in {"research", "wait_research", "conclusions"} =>
       st.concl = "" /\ st.design = "none"
  /\ st.next \in {"wait_conclusions", "design"} => st.concl = "ai" /\ st.design = "none"
  /\ st.next = "wait_design" => st.concl = "ai" /\ st.design = "ai"

\* The node a request's value is for, and what the value may be.
ForNode(kind) ==
  CASE kind = "research" -> "wait_research"
    [] kind \in {"conclusions", "retryConclusions"} -> "wait_conclusions"
    [] kind = "design" -> "wait_design"
    [] OTHER -> "end"

ValueFits(kind, value) ==
  /\ kind \in {"research", "conclusions", "design", "retryBuild", "retryConclusions"}
  /\ kind = "research" => DOMAIN value \subseteq {"action", "augment"}
  /\ kind = "conclusions" => value = Text("C")
  /\ kind = "design" => value = Text("D")

\* The nodes a request of a page gets to, and those of the first run.
StateFits(kind, st) ==
  \/ kind = "research" /\ st.next \in {"research", "wait_research", "conclusions", "wait_conclusions"}
  \/ kind = "conclusions" /\ st.next \in {"design", "wait_design"}
  \/ kind = "design" /\ st.next \in {"build", "save", "saved", "end"}
  \/ kind = "retryBuild" /\ st.next = "end"
  \/ /\ kind = "first" /\ st.next \in {"research", "wait_research"}
     /\ st.next = "research" => st.research = "unset"

\* A page, and the node at which the thread waits for what it submits.
PageFits(p, st) ==
  /\ p.at \in {"loading", "error", "research", "conclusions", "design", "buildError"}
  /\ p.at = "research" => st.next \in {"nothing", "wait_research"}
  /\ p.at = "conclusions" => st.next \in {"nothing", "wait_conclusions"}
  /\ p.at = "design" => st.next \in {"nothing", "wait_design"} /\ ~ p.retry
  /\ p.at = "buildError" => st.next \in {"nothing", "end"}

\* Whatever is in a field was submitted on its page.
TextsAreSubmitted ==
  /\ \A n \in 1..Len(trees) : trees[n] = "D"
  /\ thread = NoThread \/ Submitted(thread)
  /\ \A a \in Actors : "st" \in DOMAIN run[a] => Submitted(run[a].st)

\* A request finds the thread at the node it is for, or gone.
RequestsFit ==
  /\ \A a \in Actors : "st" \in DOMAIN run[a] => StateFits(run[a].kind, run[a].st)
  /\ \A t \in Tabs :
       /\ run[t].kind # "first"
       /\ "value" \in DOMAIN run[t] =>
            /\ ValueFits(run[t].kind, run[t].value)
            /\ thread = NoThread \/ thread.next = ForNode(run[t].kind)
  /\ run["background"].kind \in {"idle", "first", "retryResearch"}
  /\ run["background"].kind = "retryResearch" =>
       thread = NoThread \/ thread.next = "wait_research"

\* While the row is there, the thread is what whoever runs on it has, at rest
\* only where the user is asked, and the page is for where it rests.
RowFits ==
  generation.there =>
    /\ InOrder(thread)
    /\ \A a \in Actors :
         "st" \in DOMAIN run[a] /\ run[a].st.next # "saved" => thread = run[a].st
    /\ (\A a \in Actors : "st" \notin DOMAIN run[a]) =>
         thread.next \in Waiting \cup {"nothing", "end"}
    /\ \A t \in Tabs : run[t] = NotRunning => PageFits(page[t], thread)
    /\ "value" \in DOMAIN run["background"] =>
         /\ thread = NoThread
         /\ \A t \in Tabs : page[t].at \in {"loading", "error"}

OnCourse ==
  /\ DOMAIN page = Tabs
  /\ TextsAreSubmitted /\ RequestsFit /\ RowFits

\* With WizardInv, the inductive invariant: while nothing goes other than
\* straight, all of that.
StraightInv == mishaps = {} => OnCourse

\* Thread gone: nothing is out of order.
LEMMA NoThreadInOrder == InOrder(NoThread) /\ NoThread.next = "nothing" /\ ~ Submitted(NoThread)
<1>1. "research" \in DOMAIN FirstState /\ "research" \notin DOMAIN NoThread
  BY DEF FirstState, NoThread
<1> QED BY <1>1 DEF InOrder, NoThread, Submitted

\* The fields of a state.
LEMMA FieldsOfStates ==
  DOMAIN FirstState = {"next", "research", "action", "augment", "augmented", "concl", "conclEd",
                       "design", "designEd", "graph", "tree"}
BY DEF FirstState

\* A node keeps what the user has submitted, and unless a phase comes back
\* empty its outcome is the next one's in order.
LEMMA NodesKeepOrder ==
  ASSUME NEW st, Submitted(st), NEW searches, NEW s \in NodeOutcomes(st, searches),
         st.next \in {"research", "conclusions", "design", "build"}
  PROVE  /\ Submitted(s)
         /\ st.next = "research" => s.next = "wait_research"
         /\ st.next = "conclusions" => s.next = "wait_conclusions"
         /\ st.next = "design" => s.next = "wait_design"
         /\ st.next = "build" => s.next \in {"save", "end"}
         /\ InOrder(st) /\ Strayed(st.next, s) = {} => InOrder(s)
<1>f. DOMAIN st = DOMAIN FirstState
  BY DEF Submitted
<1>1. CASE st.next = "research"
  <2>1. PICK r \in Researched(st, searches) : s = [r EXCEPT !.next = "wait_research"]
    BY <1>1 DEF NodeOutcomes
  <2>2. /\ DOMAIN r = DOMAIN st /\ r.conclEd = st.conclEd /\ r.designEd = st.designEd
        /\ r.concl = st.concl /\ r.design = st.design
    BY <1>f, FieldsOfStates DEF Researched, Augmented, Searched
  <2>3. /\ DOMAIN s = DOMAIN st /\ s.next = "wait_research" /\ s.conclEd = st.conclEd
        /\ s.designEd = st.designEd /\ s.concl = st.concl /\ s.design = st.design
    BY <1>f, <2>1, <2>2, FieldsOfStates
  <2> QED BY <1>1, <2>3 DEF Submitted, InOrder
<1>2. CASE st.next = "conclusions"
  <2>1. PICK r \in Concluded(st) : s = [r EXCEPT !.next = "wait_conclusions"]
    BY <1>2 DEF NodeOutcomes
  <2>2. PICK text \in {"", "ai"} : r = [st EXCEPT !.concl = text]
    BY <2>1 DEF Concluded
  <2>3. /\ DOMAIN s = DOMAIN st /\ s.next = "wait_conclusions" /\ s.conclEd = st.conclEd
        /\ s.designEd = st.designEd /\ s.concl = text /\ s.design = st.design
    BY <1>f, <2>1, <2>2, FieldsOfStates
  <2>4. Strayed(st.next, s) = {} => s.concl = "ai"
    BY <1>2, <2>3 DEF Strayed
  <2> QED BY <1>2, <2>3, <2>4 DEF Submitted, InOrder
<1>3. CASE st.next = "design"
  <2>1. PICK r \in Designed(st) : s = [r EXCEPT !.next = "wait_design"]
    BY <1>3 DEF NodeOutcomes
  <2>2. PICK text \in {"none", "ai"} : r = [st EXCEPT !.design = text]
    BY <2>1 DEF Designed
  <2>3. /\ DOMAIN s = DOMAIN st /\ s.next = "wait_design" /\ s.conclEd = st.conclEd
        /\ s.designEd = st.designEd /\ s.concl = st.concl /\ s.design = text
    BY <1>f, <2>1, <2>2, FieldsOfStates
  <2>4. Strayed(st.next, s) = {} => s.design = "ai"
    BY <1>3, <2>3 DEF Strayed
  <2> QED BY <1>3, <2>3, <2>4 DEF Submitted, InOrder
<1>4. CASE st.next = "build"
  <2>1. PICK r \in Built(st) : s = [r EXCEPT !.next = IF r.graph THEN "save" ELSE "end"]
    BY <1>4 DEF NodeOutcomes
  <2>2. PICK ok \in BOOLEAN : r = [st EXCEPT !.graph = ok]
    BY <2>1 DEF Built
  <2>3. /\ DOMAIN s = DOMAIN st /\ s.next \in {"save", "end"} /\ s.conclEd = st.conclEd
        /\ s.designEd = st.designEd
    BY <1>f, <2>1, <2>2, FieldsOfStates
  <2> QED BY <1>4, <2>3 DEF Submitted, InOrder
<1> QED BY <1>1, <1>2, <1>3, <1>4

\* A request that resumes the thread at the node it is for leaves in the
\* fields what it has submitted.
LEMMA ResumingSubmits ==
  ASSUME NEW st, Submitted(st), NEW kind, NEW value, ValueFits(kind, value),
         st.next = ForNode(kind), st.next \in Waiting, kind # "retryConclusions"
  PROVE  LET s == Resumed(st, value) IN
         /\ Submitted(s) /\ StateFits(kind, s)
         /\ InOrder(st) => InOrder(s)
<1>f. DOMAIN st = DOMAIN FirstState
  BY DEF Submitted
<1> DEFINE s == Resumed(st, value)
<1>1. CASE kind = "research"
  <2>1. st.next = "wait_research"
    BY <1>1 DEF ForNode
  <2> DEFINE m == IF "text" \in DOMAIN value THEN st ELSE Merged(st, value)
  <2>2. s = [m EXCEPT !.next = AfterResearchEdit(m)]
    BY <2>1 DEF Resumed, WaitForResearchEdit
  <2>3. DOMAIN value \subseteq {"action", "augment"}
    BY <1>1 DEF ValueFits
  <2>4. /\ DOMAIN m = DOMAIN st /\ m.conclEd = st.conclEd /\ m.designEd = st.designEd
        /\ m.concl = st.concl /\ m.design = st.design
    BY <1>f, <2>3, FieldsOfStates DEF Merged
  <2>5. AfterResearchEdit(m) \in {"research", "conclusions"}
    BY DEF AfterResearchEdit
  <2> HIDE DEF m
  <2>6. /\ DOMAIN s = DOMAIN st /\ s.next \in {"research", "conclusions"} /\ s.conclEd = st.conclEd
        /\ s.designEd = st.designEd /\ s.concl = st.concl /\ s.design = st.design
    BY <1>f, <2>2, <2>4, <2>5, FieldsOfStates
  <2> HIDE DEF s
  <2>7. Submitted(s) /\ StateFits(kind, s)
    BY <1>1, <2>6 DEF Submitted, StateFits
  <2>8. InOrder(st) => InOrder(s)
    BY <2>1, <2>6 DEF InOrder
  <2> QED BY <2>7, <2>8 DEF s
<1>2. CASE kind = "conclusions"
  <2>1. st.next = "wait_conclusions" /\ value = Text("C")
    BY <1>2 DEF ForNode, ValueFits
  <2>2. "conclEd" \notin DOMAIN value /\ "text" \in DOMAIN value /\ value.text = "C"
    BY <2>1 DEF Text
  <2>3. s = [[st EXCEPT !.conclEd = "C"] EXCEPT !.next = "design"]
    BY <2>1, <2>2 DEF Resumed, WaitForConclusionsEdit, Edited
  <2>4. /\ DOMAIN s = DOMAIN st /\ s.next = "design" /\ s.conclEd = "C"
        /\ s.designEd = st.designEd /\ s.concl = st.concl /\ s.design = st.design
    BY <1>f, <2>3, FieldsOfStates
  <2> HIDE DEF s
  <2>5. Submitted(s) /\ StateFits(kind, s)
    BY <1>2, <2>4 DEF Submitted, StateFits
  <2>6. InOrder(st) => InOrder(s)
    BY <2>1, <2>4 DEF InOrder
  <2> QED BY <2>5, <2>6 DEF s
<1>3. CASE kind = "design"
  <2>1. st.next = "wait_design" /\ value = Text("D")
    BY <1>3 DEF ForNode, ValueFits
  <2>2. "designEd" \notin DOMAIN value /\ "text" \in DOMAIN value /\ value.text = "D"
    BY <2>1 DEF Text
  <2>3. s = [[st EXCEPT !.designEd = "D"] EXCEPT !.next = "build"]
    BY <2>1, <2>2 DEF Resumed, WaitForDesignEdit, Edited
  <2>4. DOMAIN s = DOMAIN st /\ s.next = "build" /\ s.conclEd = st.conclEd /\ s.designEd = "D"
    BY <1>f, <2>3, FieldsOfStates
  <2> HIDE DEF s
  <2>5. Submitted(s) /\ StateFits(kind, s)
    BY <1>3, <2>4 DEF Submitted, StateFits
  <2>6. InOrder(s)
    BY <2>4 DEF InOrder
  <2> QED BY <2>5, <2>6 DEF s
<1>4. CASE kind = "retryBuild"
  BY <1>4 DEF ForNode, Waiting
<1> QED BY <1>1, <1>2, <1>3, <1>4 DEF ValueFits

\* What a retry beside the workflow stores leaves the thread where it is, and
\* the user's fields alone.
LEMMA UpdatesKeepSubmitted ==
  ASSUME NEW st, st = NoThread \/ Submitted(st), NEW values,
         DOMAIN values \subseteq {"research", "augmented", "concl"},
         st = NoThread \/ st.next \in {"wait_research", "wait_conclusions"}
  PROVE  LET s == Updated(st, values) IN
         /\ Submitted(s)
         /\ st # NoThread => s.next = st.next /\ s.design = st.design
         /\ st # NoThread => s.concl = IF "concl" \in DOMAIN values THEN values.concl ELSE st.concl
<1> DEFINE base == IF st = NoThread THEN FirstState ELSE st
<1>1. /\ DOMAIN base = DOMAIN FirstState /\ base.conclEd \in {"", "C"} /\ base.designEd \in {"", "D"}
      /\ base.next \in {"research", "wait_research", "wait_conclusions"}
      /\ st # NoThread => base = st
  BY DEF Submitted, FirstState
<1>2. Updated(st, values) = Merged(base, values)
  BY NoThreadInOrder DEF Updated
<1> HIDE DEF base
<1> DEFINE s == Merged(base, values)
<1>3. /\ DOMAIN s = DOMAIN FirstState /\ s.conclEd = base.conclEd /\ s.designEd = base.designEd
      /\ s.next = base.next /\ s.design = base.design
      /\ s.concl = IF "concl" \in DOMAIN values THEN values.concl ELSE base.concl
  BY <1>1, FieldsOfStates DEF Merged
<1> HIDE DEF s
<1>4. Submitted(s)
  BY <1>1, <1>3 DEF Submitted
<1> QED BY <1>1, <1>2, <1>3, <1>4 DEF s

\* While nothing goes other than straight, a request of the user begins with
\* nobody on the thread and the other tasks at rest.
LEMMA StraightRequests ==
  ASSUME NEW what, Noted(what), mishaps' = {}
  PROVE  mishaps = {} /\ what = {} /\ \A a \in Actors : ~ InFlight(a)
BY DEF Noted

\* A request that begins on a page the thread waits for.
LEMMA StraightBegin ==
  ASSUME NEW t, Tabs = {t}, WizardSafe, OnCourse, mishaps' = {},
         NEW kind, NEW value, NEW touches, Begin(t, kind, value, touches),
         thread' = thread, ValueFits(kind, value),
         thread = NoThread \/ thread.next = ForNode(kind)
  PROVE  OnCourse'
<1>1. \A a \in Actors : ~ InFlight(a)
  BY StraightRequests DEF Begin
<1>2. /\ run' = [run EXCEPT ![t] = [kind |-> kind, value |-> value]]
      /\ run[t] = NotRunning /\ generation.there /\ UNCHANGED <<page, trees>>
  BY DEF Begin
<1>3. DOMAIN run = Actors /\ t \in Actors /\ t # "background" /\ Actors = {t, "background"}
  BY WizardAssumption DEF WizardSafe, WizardShape, Actors
<1>4. run'["background"] = run["background"] /\ run'[t] = [kind |-> kind, value |-> value]
  BY <1>2, <1>3
<1>5. DOMAIN run["background"] = {"kind"} /\ run["background"].kind = "idle"
  BY <1>1, <1>3, StatesAreInFlight DEF InFlight, OnCourse, RequestsFit
<1>6. \A a \in Actors : "st" \notin DOMAIN run'[a] /\ "st" \notin DOMAIN run[a]
  BY <1>2, <1>3, <1>4, <1>5 DEF NotRunning
<1>7. TextsAreSubmitted'
  BY <1>2, <1>6 DEF OnCourse, TextsAreSubmitted
<1>8. RequestsFit'
  <2>1. kind # "first"
    BY DEF ValueFits
  <2> QED BY <1>4, <1>5, <1>6, <2>1 DEF RequestsFit
<1>9. RowFits'
  <2>1. run'[t] # NotRunning
    BY <1>4 DEF NotRunning
  <2>2. InOrder(thread) /\ thread.next \in Waiting \cup {"nothing", "end"}
    BY <1>2, <1>6 DEF OnCourse, RowFits
  <2> QED BY <1>4, <1>5, <1>6, <2>1, <2>2 DEF RowFits
<1> QED BY <1>2, <1>7, <1>8, <1>9 DEF OnCourse

\* A step that leaves nobody with a state or a value on the thread, and a tab
\* that shows a page for it: what is left to be in order is the thread.
LEMMA StraightEnd ==
  ASSUME NEW t, Tabs = {t}, WizardSafe, OnCourse,
         DOMAIN run' = Actors, run'[t] = NotRunning, run'["background"] = run["background"],
         trees' = trees, DOMAIN page' = Tabs, generation'.there => generation.there,
         thread' = NoThread \/ Submitted(thread'),
         InFlight(t) \/ thread' = thread \/ (thread' = NoThread /\ ~ generation'.there),
         generation'.there =>
           /\ InOrder(thread') /\ PageFits(page'[t], thread')
           /\ InFlight(t) => thread'.next \in Waiting \cup {"nothing", "end"}
           /\ "value" \in DOMAIN run["background"] => page'[t].at \in {"loading", "error"}
  PROVE  OnCourse'
<1>1. DOMAIN run = Actors /\ t \in Actors /\ t # "background" /\ Actors = {t, "background"}
  BY WizardAssumption DEF WizardSafe, WizardShape, Actors
<1>2. /\ run'["background"] = run["background"] /\ run'[t] = NotRunning
      /\ DOMAIN run'[t] = {"kind"} /\ run'[t].kind = "idle"
  BY <1>1 DEF NotRunning
<1>3. InFlight(t) => DOMAIN run["background"] = {"kind"} /\ run["background"].kind = "idle"
  <2> SUFFICES ASSUME InFlight(t)
               PROVE  DOMAIN run["background"] = {"kind"} /\ run["background"].kind = "idle"
    OBVIOUS
  <2>1. ~ InFlight("background")
    BY <1>1 DEF WizardSafe, OneAtATime
  <2> QED BY <1>1, <2>1, StatesAreInFlight DEF InFlight, OnCourse, RequestsFit
<1>4. TextsAreSubmitted'
  BY <1>1, <1>2 DEF OnCourse, TextsAreSubmitted
<1>5. RequestsFit'
  BY <1>1, <1>2, <1>3 DEF OnCourse, RequestsFit
<1>6. RowFits'
  <2> SUFFICES ASSUME generation'.there
               PROVE  RowFits'
    BY DEF RowFits
  <2>1. \A a \in Actors : "st" \in DOMAIN run'[a] /\ run'[a].st.next # "saved" => thread' = run'[a].st
    BY <1>1, <1>2, <1>3 DEF OnCourse, RowFits
  <2>2. (\A a \in Actors : "st" \notin DOMAIN run'[a]) =>
          thread'.next \in Waiting \cup {"nothing", "end"}
    <3>1. CASE InFlight(t)
      BY <3>1
    <3>2. CASE ~ InFlight(t)
      <4>1. "st" \notin DOMAIN run[t] /\ thread' = thread
        BY <1>1, <3>2, StatesAreInFlight
      <4> QED BY <1>1, <1>2, <4>1 DEF OnCourse, RowFits
    <3> QED BY <3>1, <3>2
  <2>3. "value" \in DOMAIN run'["background"] => thread' = NoThread
    BY <1>2, <1>3 DEF OnCourse, RowFits
  <2> QED BY <1>2, <2>1, <2>2, <2>3 DEF RowFits
<1> QED BY <1>4, <1>5, <1>6 DEF OnCourse

\* Once the row is gone, only the texts and the requests under way count.
LEMMA StraightGone ==
  ASSUME OnCourse, ~ generation'.there, DOMAIN page' = Tabs, trees' = trees, DOMAIN run' = Actors,
         thread' = NoThread \/ thread' = thread,
         \A a \in Actors : run'[a] = run[a] \/ (a \in Tabs /\ run'[a] = [kind |-> "cleanup"]),
         "background" \notin Tabs
  PROVE  OnCourse'
<1>1. \A a \in Actors : "st" \in DOMAIN run'[a] \/ "value" \in DOMAIN run'[a] => run'[a] = run[a]
  OBVIOUS
<1>2. run'["background"] = run["background"]
  BY DEF Actors
<1>3. \A t \in Tabs : t \in Actors
  BY DEF Actors
<1>4. TextsAreSubmitted'
  BY <1>1 DEF OnCourse, TextsAreSubmitted
<1>5. RequestsFit'
  <2>1. \A a \in Actors : "st" \in DOMAIN run'[a] => StateFits(run'[a].kind, run'[a].st)
    BY <1>1 DEF OnCourse, RequestsFit
  <2>2. ASSUME NEW t \in Tabs
        PROVE  /\ run'[t].kind # "first"
               /\ "value" \in DOMAIN run'[t] =>
                    /\ ValueFits(run'[t].kind, run'[t].value)
                    /\ thread' = NoThread \/ thread'.next = ForNode(run'[t].kind)
    BY <1>1, <1>3 DEF OnCourse, RequestsFit
  <2>3. /\ run'["background"].kind \in {"idle", "first", "retryResearch"}
        /\ run'["background"].kind = "retryResearch" =>
             thread' = NoThread \/ thread'.next = "wait_research"
    BY <1>2 DEF OnCourse, RequestsFit
  <2> QED BY <2>1, <2>2, <2>3 DEF RequestsFit
<1> QED BY <1>4, <1>5 DEF OnCourse, RowFits

\* The page for a design offers a retry only where the model owes the design.
LEMMA DesignPagesOffer ==
  ASSUME NEW st, st.design = "ai"
  PROVE  DesignPage(st) = [at |-> "design", retry |-> FALSE]
<1>1. (st.design = "none") = FALSE
  OBVIOUS
<1> QED BY <1>1, Zenon DEF DesignPage

\* The page for a saved generation is the one its thread waits for.
LEMMA SavedPagesFit ==
  ASSUME NEW st, InOrder(st), st = NoThread \/ Submitted(st),
         \/ st.next \in Waiting \cup {"nothing", "end"}
         \/ st.next = "research" /\ st.research = "unset"
  PROVE  /\ PageFits(PageFor(st), st)
         /\ st = NoThread => PageFor(st).at = "error"
<1>1. st = NoThread => PageFor(st) = Page("error")
  BY NoThreadInOrder DEF PageFor
<1>2. PageFits(Page("error"), st) /\ Page("error").at = "error"
  BY DEF PageFits, Page
<1>3. ASSUME st.next = "wait_research"
      PROVE  PageFits(PageFor(st), st)
  <2>1. PageFor(st) \in {Page("error"), ResearchPage(st)}
    BY <1>3 DEF PageFor, InOrder
  <2> QED BY <1>2, <1>3, <2>1 DEF PageFits, ResearchPage
<1>4. ASSUME st.next = "wait_conclusions"
      PROVE  PageFits(PageFor(st), st)
  <2>1. PageFor(st) \in {Page("error"), ConclusionsPage(st)}
    BY <1>4 DEF PageFor, InOrder
  <2> QED BY <1>2, <1>4, <2>1 DEF PageFits, ConclusionsPage
<1>5. ASSUME st.next = "wait_design"
      PROVE  PageFits(PageFor(st), st)
  <2>1. PageFor(st) \in {Page("error"), DesignPage(st)} /\ st.design = "ai"
    BY <1>5 DEF PageFor, InOrder
  <2>2. DesignPage(st) = [at |-> "design", retry |-> FALSE]
    BY <2>1, DesignPagesOffer
  <2> QED BY <1>2, <1>5, <2>1, <2>2 DEF PageFits
<1>6. ASSUME st.next \notin Waiting
      PROVE  PageFor(st) = Page("error")
  BY <1>6 DEF PageFor
<1> QED BY <1>1, <1>2, <1>3, <1>4, <1>5, <1>6 DEF Waiting

\* The page that answers a request is the one its thread waits for.
LEMMA AnsweringPagesFit ==
  ASSUME NEW st, InOrder(st), Submitted(st), NEW kind, kind # "first", StateFits(kind, st),
         st.next \in Waiting \cup {"end"}
  PROVE  PageFits(PageAfter(kind, st, st), st)
<1>1. PageFits(Page("error"), st)
  BY DEF PageFits, Page
<1>2. CASE kind = "research"
  <2>1. PageAfter(kind, st, st) =
          IF st.next = "wait_research" THEN ResearchPage(st) ELSE ConclusionsPage(st)
    BY <1>2, NoThreadInOrder DEF PageAfter, StateFits, InOrder, Waiting
  <2>2. st.next \in {"wait_research", "wait_conclusions"}
    BY <1>2 DEF StateFits, Waiting
  <2> QED BY <2>1, <2>2 DEF PageFits, ResearchPage, ConclusionsPage
<1>3. CASE kind = "conclusions"
  <2>1. st.next = "wait_design" /\ st.design = "ai"
    BY <1>3 DEF StateFits, Waiting, InOrder
  <2>2. PageAfter(kind, st, st) = DesignPage(st)
    BY <1>3, <2>1 DEF PageAfter, Waiting
  <2>3. DesignPage(st) = [at |-> "design", retry |-> FALSE]
    BY <2>1, DesignPagesOffer
  <2> QED BY <2>1, <2>2, <2>3 DEF PageFits
<1>4. CASE kind \in {"design", "retryBuild"}
  <2>1. st.next = "end"
    BY <1>4 DEF StateFits, Waiting
  <2>2. PageAfter(kind, st, st) \in {Page("error"), BuildErrorPage}
    BY <1>4 DEF PageAfter
  <2> QED BY <1>1, <2>1, <2>2 DEF PageFits, BuildErrorPage
<1> QED BY <1>2, <1>3, <1>4 DEF StateFits

\* What the user does.
LEMMA SubmitIsStraight ==
  ASSUME NEW t, Tabs = {t}, WizardSafe, OnCourse, mishaps' = {}, Submit(t)
  PROVE  OnCourse'
<1>f. /\ t \in Actors /\ t # "background" /\ Actors = {t, "background"} /\ DOMAIN run = Actors
      /\ DOMAIN page = Tabs /\ "background" \notin Tabs
      /\ thread = NoThread \/ Submitted(thread)
  BY WizardAssumption DEF WizardSafe, WizardShape, Actors, OnCourse, TextsAreSubmitted
<1>p. ASSUME run[t] = NotRunning, generation.there
      PROVE  PageFits(page[t], thread)
  BY <1>p DEF OnCourse, RowFits
<1>n. thread.next = "nothing" => thread = NoThread
  BY <1>f DEF Submitted
<1>1. CASE SubmitResearch(t)
  <2>1. PICK action \in {"continue", "augment"}, asks \in BOOLEAN :
          Begin(t, "research", ResearchEdits(action, asks), action = "continue")
    BY <1>1 DEF SubmitResearch
  <2>2. page[t].at = "research" /\ thread' = thread /\ run[t] = NotRunning /\ generation.there
    BY <1>1, <2>1 DEF SubmitResearch, Begin
  <2>3. ValueFits("research", ResearchEdits(action, asks))
    BY DEF ValueFits, ResearchEdits
  <2>4. thread = NoThread \/ thread.next = ForNode("research")
    BY <1>p, <1>n, <2>2 DEF PageFits, ForNode
  <2> QED BY <2>1, <2>2, <2>3, <2>4, StraightBegin
<1>2. CASE SkipConclusions(t)
  <2>1. thread = NoThread /\ page' = [page EXCEPT ![t] = Page("error")] /\ UNCHANGED <<run, generation, trees, thread>>
    <3>1. ~ Noted({"strayed"})
      BY StraightRequests
    <3> QED BY <1>2, <3>1 DEF SkipConclusions
  <2>2. run[t] = NotRunning
    BY <1>2 DEF SkipConclusions
  <2>3. page'[t].at = "error" /\ DOMAIN page' = Tabs
    BY <1>f, <2>1 DEF Page
  <2>4. PageFits(page'[t], thread')
    BY <2>3 DEF PageFits
  <2>5. ~ InFlight(t)
    BY <2>2 DEF InFlight, NotRunning
  <2> QED BY <1>f, <2>1, <2>2, <2>3, <2>4, <2>5, StraightEnd, NoThreadInOrder
<1>3. CASE SubmitConclusions(t)
  <2>1. /\ page[t].at = "conclusions" /\ Begin(t, "conclusions", Text("C"), TRUE) /\ thread' = thread
        /\ run[t] = NotRunning /\ generation.there
    BY <1>3 DEF SubmitConclusions, Begin
  <2>2. ValueFits("conclusions", Text("C"))
    BY DEF ValueFits
  <2>3. thread = NoThread \/ thread.next = ForNode("conclusions")
    BY <1>p, <1>n, <2>1 DEF PageFits, ForNode
  <2> QED BY <2>1, <2>2, <2>3, StraightBegin
<1>4. ~ SubmitOwnConclusions(t)
  BY <1>p DEF SubmitOwnConclusions, Begin, PageFits
<1>5. CASE SubmitDesign(t)
  <2>1. /\ page[t].at = "design" /\ Begin(t, "design", Text("D"), TRUE) /\ thread' = thread
        /\ run[t] = NotRunning /\ generation.there
    BY <1>5 DEF SubmitDesign, Begin
  <2>2. ValueFits("design", Text("D"))
    BY DEF ValueFits
  <2>3. thread = NoThread \/ thread.next = ForNode("design")
    BY <1>p, <1>n, <2>1 DEF PageFits, ForNode
  <2> QED BY <2>1, <2>2, <2>3, StraightBegin
<1>6. CASE RetryResearch(t)
  <2>1. /\ page[t].at = "research" /\ thread # NoThread /\ run[t] = NotRunning /\ generation.there
        /\ page' = [page EXCEPT ![t] = Page("loading")]
        /\ UNCHANGED <<generation, thread, trees>>
        /\ \A a \in Actors : ~ InFlight(a)
    BY <1>6, StraightRequests DEF RetryResearch
  <2>2. thread.next = "wait_research"
    BY <1>p, <1>n, <2>1 DEF PageFits
  <2>3. PICK input : run' = [run EXCEPT !["background"] = [kind |-> "retryResearch", input |-> input]]
    BY <1>6 DEF RetryResearch
  <2>4. run'["background"] = [kind |-> "retryResearch", input |-> input] /\ run'[t] = run[t]
    BY <1>f, <2>3
  <2>5. \A a \in Actors : "st" \notin DOMAIN run'[a] /\ "value" \notin DOMAIN run'[a]
    BY <1>f, <2>1, <2>4 DEF NotRunning
  <2>6. page'[t].at = "loading" /\ DOMAIN page' = Tabs
    BY <1>f, <2>1 DEF Page
  <2>7. TextsAreSubmitted'
    BY <2>1, <2>5 DEF OnCourse, TextsAreSubmitted
  <2>8. RequestsFit'
    BY <1>f, <2>1, <2>2, <2>4, <2>5 DEF RequestsFit, NotRunning
  <2>9. RowFits'
    <3>1. PageFits(page'[t], thread')
      BY <2>6 DEF PageFits
    <3>2. InOrder(thread)
      BY <2>1 DEF OnCourse, RowFits
    <3> QED BY <1>f, <2>1, <2>2, <2>5, <3>1, <3>2 DEF RowFits, Waiting
  <2> QED BY <2>6, <2>7, <2>8, <2>9 DEF OnCourse
<1>7. CASE RetryConclusions(t)
  <2>1. /\ page[t].at = "conclusions" /\ Begin(t, "retryConclusions", <<>>, FALSE) /\ thread' = thread
        /\ run[t] = NotRunning /\ generation.there
    BY <1>7 DEF RetryConclusions, Begin
  <2>2. ValueFits("retryConclusions", <<>>)
    BY DEF ValueFits
  <2>3. thread = NoThread \/ thread.next = ForNode("retryConclusions")
    BY <1>p, <1>n, <2>1 DEF PageFits, ForNode
  <2> QED BY <2>1, <2>2, <2>3, StraightBegin
<1>8. ~ RetryDesign(t)
  BY <1>p DEF RetryDesign, Begin, PageFits
<1>9. CASE RetryBuild(t)
  <2>1. /\ page[t].at = "buildError" /\ Begin(t, "retryBuild", BuildRetry(thread), FALSE) /\ thread' = thread
        /\ run[t] = NotRunning /\ generation.there
    BY <1>9 DEF RetryBuild, Begin
  <2>2. ValueFits("retryBuild", BuildRetry(thread))
    BY DEF ValueFits
  <2>3. thread = NoThread \/ thread.next = ForNode("retryBuild")
    BY <1>p, <1>n, <2>1 DEF PageFits, ForNode
  <2> QED BY <2>1, <2>2, <2>3, StraightBegin
<1>10. ~ BackToResearch(t)
  BY <1>p DEF BackToResearch, PageFits
<1>11. ASSUME Complete(t), generation.there, UNCHANGED <<thread, trees>>, DOMAIN page' = Tabs
       PROVE  OnCourse'
  <2>1. generation' = [there |-> FALSE, fresh |-> FALSE] /\ run' = [run EXCEPT ![t] = [kind |-> "cleanup"]]
    BY <1>11 DEF Complete
  <2>2. /\ ~ generation'.there /\ DOMAIN run' = Actors
        /\ \A a \in Actors : run'[a] = run[a] \/ (a \in Tabs /\ run'[a] = [kind |-> "cleanup"])
    BY <1>f, <2>1
  <2> QED BY <1>f, <1>11, <2>2, StraightGone
<1>12. CASE View(t)
  <2>1. run[t] = NotRunning /\ generation.there /\ UNCHANGED <<thread, trees>>
    BY <1>12 DEF View
  <2>2. CASE thread # NoThread /\ thread.tree # 0
    <3>1. DOMAIN page' = Tabs /\ Complete(t)
      BY <1>12, <1>f, <2>2 DEF View
    <3> QED BY <1>11, <2>1, <3>1
  <2>3. CASE ~ (thread # NoThread /\ thread.tree # 0)
    <3>1. page' = [page EXCEPT ![t] = PageFor(thread)] /\ UNCHANGED <<generation, run>>
      BY <1>12, <2>3 DEF View
    <3>2. page'[t] = PageFor(thread) /\ DOMAIN page' = Tabs
      BY <1>f, <3>1
    <3>3. InOrder(thread) /\ "st" \notin DOMAIN run[t]
      BY <2>1 DEF OnCourse, RowFits, NotRunning
    <3>4. \/ thread.next \in Waiting \cup {"nothing", "end"}
          \/ thread.next = "research" /\ thread.research = "unset"
      <4>1. CASE "st" \in DOMAIN run["background"]
        <5>1. "background" \in Actors
          BY <1>f
        <5>2. StateFits(run["background"].kind, run["background"].st)
              /\ run["background"].kind \in {"idle", "first", "retryResearch"}
          BY <4>1, <5>1 DEF OnCourse, RequestsFit
        <5>3. run["background"].st.next \in {"research", "wait_research"}
              /\ (run["background"].st.next = "research" => run["background"].st.research = "unset")
          BY <5>2 DEF StateFits
        <5>4. thread = run["background"].st
          BY <2>1, <4>1, <5>1, <5>3 DEF OnCourse, RowFits
        <5> QED BY <5>3, <5>4 DEF Waiting
      <4>2. CASE "st" \notin DOMAIN run["background"]
        <5>1. \A a \in Actors : "st" \notin DOMAIN run[a]
          BY <1>f, <3>3, <4>2
        <5> QED BY <2>1, <5>1 DEF OnCourse, RowFits
      <4> QED BY <4>1, <4>2
    <3>5. /\ PageFits(PageFor(thread), thread)
          /\ thread = NoThread => PageFor(thread).at = "error"
      BY <1>f, <3>3, <3>4, SavedPagesFit
    <3>6. "value" \in DOMAIN run["background"] => thread = NoThread
      BY <2>1 DEF OnCourse, RowFits
    <3>7. ~ InFlight(t)
      BY <2>1 DEF InFlight, NotRunning
    <3> QED BY <1>f, <2>1, <3>1, <3>2, <3>3, <3>5, <3>6, <3>7, StraightEnd
  <2> QED BY <2>2, <2>3
<1>13. CASE Abandon(t)
  <2>1. DOMAIN page' = Tabs /\ Complete(t) /\ generation.there /\ UNCHANGED <<thread, trees>>
    BY <1>13, <1>f DEF Abandon
  <2> QED BY <1>11, <2>1
<1> QED BY <1>1, <1>2, <1>3, <1>4, <1>5, <1>6, <1>7, <1>8, <1>9, <1>10, <1>12, <1>13 DEF Submit

\* Who runs on the thread goes on with a state in order.
LEMMA StraightGoOn ==
  ASSUME NEW t, Tabs = {t}, WizardSafe, OnCourse, NEW a \in Actors, InFlight(a),
         DOMAIN run' = Actors, DOMAIN run'[a] = {"kind", "st"}, run'[a].kind = run[a].kind,
         \A b \in Actors \ {a} : run'[b] = run[b],
         Submitted(run'[a].st), StateFits(run'[a].kind, run'[a].st),
         thread' = NoThread \/ Submitted(thread'),
         \A n \in 1..Len(trees') : trees'[n] = "D",
         generation' = generation, page' = page,
         generation.there =>
           /\ InOrder(thread') /\ (run'[a].st.next # "saved" => thread' = run'[a].st)
           /\ run[t] = NotRunning => PageFits(page[t], thread')
  PROVE  OnCourse'
<1>1. t \in Actors /\ t # "background" /\ Actors = {t, "background"}
  BY WizardAssumption DEF Actors
<1>2. \A b \in Actors \ {a} : DOMAIN run'[b] = {"kind"} /\ run'[b] = run[b] /\ run[b].kind \in {"idle", "cleanup"}
  <2>1. \A b \in Actors \ {a} : ~ InFlight(b)
    BY DEF WizardSafe, OneAtATime
  <2>2. \A b \in Actors \ {a} : DOMAIN run[b] = {"kind"}
    BY <2>1, StatesAreInFlight
  <2> QED BY <2>1, <2>2 DEF InFlight
<1>3. TextsAreSubmitted'
  <2>1. \A b \in Actors : "st" \in DOMAIN run'[b] => Submitted(run'[b].st)
    BY <1>2
  <2> QED BY <2>1 DEF TextsAreSubmitted
<1>4. RequestsFit'
  <2>1. \A b \in Actors : "st" \in DOMAIN run'[b] => StateFits(run'[b].kind, run'[b].st)
    BY <1>2
  <2>2. "value" \notin DOMAIN run'[t]
    BY <1>1, <1>2
  <2>3. run'[t].kind = run[t].kind /\ run'["background"].kind = run["background"].kind
    BY <1>1
  <2>4. run'["background"].kind # "retryResearch"
    <3>1. CASE a = "background"
      BY <3>1 DEF StateFits
    <3>2. CASE a # "background"
      BY <3>2, <1>1, <1>2
    <3> QED BY <3>1, <3>2
  <2> QED BY <2>1, <2>2, <2>3, <2>4 DEF OnCourse, RequestsFit
<1>5. RowFits'
  <2> SUFFICES ASSUME generation.there
               PROVE  RowFits'
    BY DEF RowFits
  <2>1. \A b \in Actors : "st" \in DOMAIN run'[b] /\ run'[b].st.next # "saved" => thread' = run'[b].st
    BY <1>2
  <2>2. "st" \in DOMAIN run'[a] /\ "value" \notin DOMAIN run'["background"]
    BY <1>1, <1>2
  <2>3. run'[t] = NotRunning => PageFits(page'[t], thread')
    <3>1. CASE a = t
      BY <3>1 DEF NotRunning
    <3>2. CASE a # t
      BY <3>2, <1>1
    <3> QED BY <3>1, <3>2
  <2> QED BY <2>1, <2>2, <2>3 DEF RowFits
<1> QED BY <1>3, <1>4, <1>5 DEF OnCourse

\* What the server does for a request.
LEMMA ServeIsStraight ==
  ASSUME NEW t, Tabs = {t}, WizardSafe, OnCourse, mishaps' = {}, Serve(t)
  PROVE  OnCourse'
<1>f. /\ t \in Actors /\ t # "background" /\ Actors = {t, "background"} /\ DOMAIN run = Actors
      /\ DOMAIN page = Tabs /\ "background" \notin Tabs
      /\ thread = NoThread \/ Submitted(thread)
      /\ Doing(run[t])
  BY WizardAssumption DEF WizardSafe, WizardShape, Actors, OnCourse, TextsAreSubmitted
<1>b. InFlight(t) => DOMAIN run["background"] = {"kind"}
  BY <1>f, StatesAreInFlight DEF WizardSafe, OneAtATime
<1>1. CASE Load(t)
  <2>1. /\ DOMAIN run[t] = {"kind", "value"} /\ InFlight(t) /\ run[t].kind # "retryConclusions"
        /\ ValueFits(run[t].kind, run[t].value)
        /\ thread = NoThread \/ thread.next = ForNode(run[t].kind)
        /\ UNCHANGED <<generation, trees>>
    BY <1>1, <1>f DEF Load, Doing, InFlight, OnCourse, RequestsFit
  <2>2. CASE thread = NoThread
    <3>1. /\ run' = [run EXCEPT ![t] = NotRunning] /\ page' = [page EXCEPT ![t] = Page("error")]
          /\ thread' = thread
      BY <1>1, <2>2 DEF Load
    <3>2. /\ DOMAIN run' = Actors /\ run'[t] = NotRunning /\ run'["background"] = run["background"]
          /\ DOMAIN page' = Tabs /\ page'[t].at = "error"
      BY <1>f, <3>1 DEF Page
    <3>3. PageFits(page'[t], thread')
      BY <3>2 DEF PageFits
    <3> QED BY <1>f, <2>1, <2>2, <3>1, <3>2, <3>3, NoThreadInOrder, StraightEnd
  <2>3. CASE thread # NoThread
    <3> DEFINE st == IF thread.next \in Waiting THEN Resumed(thread, run[t].value) ELSE thread
    <3>1. /\ thread' = st /\ run' = [run EXCEPT ![t] = [kind |-> run[t].kind, st |-> st]]
          /\ page' = page
      BY <1>1, <2>3 DEF Load
    <3>2. /\ DOMAIN run' = Actors /\ run'[t] = [kind |-> run[t].kind, st |-> st]
          /\ \A b \in Actors \ {t} : run'[b] = run[b]
      BY <1>f, <3>1
    <3>3. Submitted(st) /\ StateFits(run[t].kind, st) /\ (InOrder(thread) => InOrder(st))
      <4>1. CASE thread.next \in Waiting
        BY <1>f, <2>1, <2>3, <4>1, ResumingSubmits
      <4>2. CASE thread.next \notin Waiting
        <5>1. run[t].kind = "retryBuild" /\ thread.next = "end"
          BY <2>1, <2>3, <4>2 DEF ForNode, Waiting, ValueFits
        <5>2. StateFits(run[t].kind, thread)
          BY <5>1 DEF StateFits
        <5> QED BY <1>f, <2>3, <4>2, <5>2
      <4> QED BY <4>1, <4>2
    <3>4. generation.there => InOrder(thread)
      BY DEF OnCourse, RowFits
    <3>5. run[t] # NotRunning /\ \A n \in 1..Len(trees) : trees[n] = "D"
      BY <2>1 DEF NotRunning, OnCourse, TextsAreSubmitted
    <3> HIDE DEF st
    <3> QED BY <1>f, <2>1, <3>1, <3>2, <3>3, <3>4, <3>5, StraightGoOn
  <2> QED BY <2>2, <2>3
<1>2. CASE Respond(t)
  <2>1. /\ "st" \in DOMAIN run[t] /\ run[t].st.next \in Waiting \cup {"end"}
        /\ UNCHANGED <<thread, trees>> /\ run[t].kind # "first" /\ InFlight(t)
        /\ Submitted(run[t].st) /\ StateFits(run[t].kind, run[t].st)
    BY <1>2, <1>f DEF Respond, OnCourse, RequestsFit, TextsAreSubmitted, Doing, InFlight
  <2>2. generation.there => thread = run[t].st /\ InOrder(thread)
    BY <1>f, <2>1 DEF OnCourse, RowFits, Waiting
  <2>3. CASE Complete(t) /\ page' = [page EXCEPT ![t] = Page("editor")]
    <3>0. DOMAIN page' = Tabs
      BY <1>f, <2>3
    <3>1. CASE generation.there
      <4>1. generation' = [there |-> FALSE, fresh |-> FALSE] /\ run' = [run EXCEPT ![t] = [kind |-> "cleanup"]]
        BY <2>3, <3>1 DEF Complete
      <4>2. /\ ~ generation'.there /\ DOMAIN run' = Actors
            /\ \A a \in Actors : run'[a] = run[a] \/ (a \in Tabs /\ run'[a] = [kind |-> "cleanup"])
        BY <1>f, <4>1
      <4> QED BY <1>f, <2>1, <3>0, <4>2, StraightGone
    <3>2. CASE ~ generation.there
      <4>1. run' = [run EXCEPT ![t] = NotRunning] /\ generation' = generation
        BY <2>3, <3>2 DEF Complete
      <4>2. DOMAIN run' = Actors /\ run'[t] = NotRunning /\ run'["background"] = run["background"]
        BY <1>f, <4>1
      <4> QED BY <1>f, <2>1, <3>0, <3>2, <4>1, <4>2, StraightEnd
    <3> QED BY <3>1, <3>2
  <2>4. CASE /\ page' = [page EXCEPT ![t] = PageAfter(run[t].kind, run[t].st, thread)]
             /\ run' = [run EXCEPT ![t] = NotRunning]
             /\ UNCHANGED generation
    <3>1. /\ DOMAIN page' = Tabs /\ page'[t] = PageAfter(run[t].kind, run[t].st, thread)
          /\ DOMAIN run' = Actors /\ run'[t] = NotRunning /\ run'["background"] = run["background"]
      BY <1>f, <2>4
    <3>2. generation.there => PageFits(page'[t], thread')
      BY <2>1, <2>2, <3>1, AnsweringPagesFit
    <3>3. generation.there => thread.next \in Waiting \cup {"nothing", "end"}
      BY <2>1, <2>2
    <3>4. "value" \notin DOMAIN run["background"]
      BY <1>b, <2>1
    <3> QED BY <1>f, <2>1, <2>2, <2>4, <3>1, <3>2, <3>3, <3>4, StraightEnd
  <2> QED BY <1>2, <2>3, <2>4 DEF Respond
<1>3. CASE ConclusionsRetried(t)
  <2>1. /\ run[t].kind = "retryConclusions" /\ run' = [run EXCEPT ![t] = NotRunning]
        /\ UNCHANGED <<generation, trees>> /\ page' = [page EXCEPT ![t] = ConclusionsPage(thread')]
    BY <1>3 DEF ConclusionsRetried
  <2>2. PICK st \in Concluded(FirstState) :
          thread' = Updated(thread, [concl |-> st.concl]) /\ mishaps' = mishaps \cup Strayed("conclusions", st)
    BY <1>3 DEF ConclusionsRetried
  <2>3. st.concl = "ai"
    <3>1. st.concl \in {"", "ai"}
      BY FieldsOfStates DEF Concluded
    <3> QED BY <2>2, <3>1 DEF Strayed
  <2>4. InFlight(t) /\ (thread = NoThread \/ thread.next = "wait_conclusions")
    <3>1. "value" \in DOMAIN run[t]
      BY <1>f, <2>1 DEF Doing
    <3> QED BY <2>1, <3>1 DEF InFlight, OnCourse, RequestsFit, ForNode
  <2>5. thread = NoThread => ~ generation.there
    BY <1>f, <2>1 DEF WizardSafe, OneAtATime
  <2> DEFINE values == [concl |-> st.concl]
  <2>6. /\ Submitted(thread')
        /\ thread # NoThread =>
             thread'.next = thread.next /\ thread'.design = thread.design /\ thread'.concl = "ai"
    <3>1. DOMAIN values \subseteq {"research", "augmented", "concl"} /\ "concl" \in DOMAIN values /\ values.concl = "ai"
      BY <2>3
    <3>2. thread' = Updated(thread, values)
      BY <2>2
    <3> HIDE DEF values
    <3> QED BY <1>f, <2>4, <3>1, <3>2, UpdatesKeepSubmitted
  <2>7. generation.there => InOrder(thread') /\ thread'.next = "wait_conclusions"
    <3>1. generation.there => InOrder(thread) /\ thread.next = "wait_conclusions"
      BY <2>4, <2>5 DEF OnCourse, RowFits
    <3> QED BY <2>5, <2>6, <3>1 DEF InOrder
  <2>8. /\ DOMAIN page' = Tabs /\ page'[t] = ConclusionsPage(thread')
        /\ DOMAIN run' = Actors /\ run'[t] = NotRunning /\ run'["background"] = run["background"]
    BY <1>f, <2>1
  <2>9. generation.there => PageFits(page'[t], thread')
    BY <2>7, <2>8 DEF PageFits, ConclusionsPage
  <2>10. "value" \notin DOMAIN run["background"]
    BY <1>b, <2>4
  <2> QED BY <1>f, <2>1, <2>4, <2>6, <2>7, <2>8, <2>9, <2>10, StraightEnd DEF Waiting
<1>4. CASE DeleteCheckpoints(t)
  <2>1. /\ run[t].kind = "cleanup" /\ run' = [run EXCEPT ![t] = NotRunning]
        /\ thread' = NoThread /\ UNCHANGED <<generation, trees, page>>
    BY <1>4 DEF DeleteCheckpoints
  <2>2. ~ generation.there
    BY <1>f, <2>1 DEF WizardSafe, OneAtATime
  <2>3. DOMAIN run' = Actors /\ run'[t] = NotRunning /\ run'["background"] = run["background"]
    BY <1>f, <2>1
  <2> QED BY <1>f, <2>1, <2>2, <2>3, StraightEnd
<1> QED BY <1>1, <1>2, <1>3, <1>4 DEF Serve

\* The workflow's nodes, and the saving of the tree.
LEMMA WorkIsStraight ==
  ASSUME NEW t, Tabs = {t}, WizardSafe, OnCourse, mishaps' = {}, NEW a \in Actors, Work(a)
  PROVE  OnCourse'
<1>f. t \in Actors /\ t # "background" /\ Actors = {t, "background"} /\ DOMAIN run = Actors
  BY WizardAssumption DEF WizardSafe, WizardShape, Actors
<1> DEFINE now == run[a].st
           kind == run[a].kind
<1>1. /\ "st" \in DOMAIN run[a] /\ DOMAIN run[a] = {"kind", "st"} /\ InFlight(a)
      /\ Submitted(now) /\ StateFits(kind, now)
      /\ UNCHANGED <<generation, page>>
  <2>1. "st" \in DOMAIN run[a] /\ UNCHANGED <<generation, page>>
    BY DEF Work, Node, SaveTree, SaveFails, SaveCheckpoint
  <2>2. DOMAIN run[a] = {"kind", "st"}
    BY <2>1 DEF WizardSafe, WizardShape, Doing
  <2>3. InFlight(a)
    BY <2>2, StatesAreInFlight
  <2>4. Submitted(now) /\ StateFits(kind, now)
    BY <2>1 DEF OnCourse, TextsAreSubmitted, RequestsFit
  <2> QED BY <2>1, <2>2, <2>3, <2>4
<1>2. generation.there /\ now.next # "saved" => thread = now /\ InOrder(now)
  BY <1>1 DEF OnCourse, RowFits
<1>3. run[t] = NotRunning => a = "background" /\ kind = "first"
  <2> SUFFICES ASSUME run[t] = NotRunning
               PROVE  a = "background" /\ kind = "first"
    OBVIOUS
  <2>1. a = "background"
    BY <1>1, <1>f DEF NotRunning
  <2>2. kind \in {"idle", "first", "retryResearch"}
    BY <2>1 DEF OnCourse, RequestsFit
  <2>3. kind = "first"
    BY <1>1, <2>2 DEF StateFits
  <2> QED BY <2>1, <2>3
<1>4. \A n \in 1..Len(trees) : trees[n] = "D"
  BY DEF OnCourse, TextsAreSubmitted
<1>5. CASE Node(a)
  <2>1. PICK s \in NodeOutcomes(now, run[a].kind \in {"first", "research"}) :
          /\ run' = [run EXCEPT ![a].st = s] /\ thread' = s
          /\ mishaps' = mishaps \cup Strayed(now.next, s)
    BY <1>5 DEF Node
  <2>2. now.next \in {"research", "conclusions", "design", "build"} /\ trees' = trees
    BY <1>5 DEF Node
  <2>3. /\ DOMAIN run' = Actors /\ DOMAIN run'[a] = {"kind", "st"} /\ run'[a].kind = kind
        /\ run'[a].st = s /\ \A b \in Actors \ {a} : run'[b] = run[b]
    BY <1>1, <1>f, <2>1
  <2>4. Strayed(now.next, s) = {}
    BY <2>1
  <2>5. /\ Submitted(s)
        /\ now.next = "research" => s.next = "wait_research"
        /\ now.next = "conclusions" => s.next = "wait_conclusions"
        /\ now.next = "design" => s.next = "wait_design"
        /\ now.next = "build" => s.next \in {"save", "end"}
        /\ InOrder(now) => InOrder(s)
    <3>1. \A x \in {now} : \A searches : \A r \in NodeOutcomes(x, searches) :
            Submitted(x) /\ x.next \in {"research", "conclusions", "design", "build"} =>
              /\ Submitted(r)
              /\ x.next = "research" => r.next = "wait_research"
              /\ x.next = "conclusions" => r.next = "wait_conclusions"
              /\ x.next = "design" => r.next = "wait_design"
              /\ x.next = "build" => r.next \in {"save", "end"}
              /\ InOrder(x) /\ Strayed(x.next, r) = {} => InOrder(r)
      BY NodesKeepOrder
    <3> QED BY <1>1, <2>1, <2>2, <2>4, <3>1
  <2>6. StateFits(kind, s)
    BY <1>1, <2>2, <2>5 DEF StateFits
  <2>7. ASSUME generation.there, run[t] = NotRunning
        PROVE  PageFits(page[t], s)
    <3>1. kind = "first" /\ now.next = "research" /\ thread = now
      BY <1>1, <1>2, <1>3, <2>2, <2>7 DEF StateFits
    <3>2. PageFits(page[t], thread)
      BY <2>7 DEF OnCourse, RowFits
    <3>3. page[t].at \in {"loading", "error"}
      BY <3>1, <3>2 DEF PageFits
    <3> QED BY <3>3 DEF PageFits
  <2>8. generation.there => InOrder(s)
    BY <1>2, <2>2, <2>5
  <2> HIDE DEF now, kind
  <2>9. run'[a].kind = run[a].kind /\ StateFits(run'[a].kind, run'[a].st)
    BY <2>3, <2>6 DEF kind
  <2> QED BY <1>f, <1>1, <1>4, <2>1, <2>2, <2>3, <2>5, <2>7, <2>8, <2>9, StraightGoOn
<1>6. CASE SaveTree(a)
  <2>1. /\ now.next = "save" /\ thread' = thread
        /\ trees' = Append(trees, IF now.designEd # "" THEN now.designEd ELSE now.design)
        /\ run' = [run EXCEPT ![a].st.next = "saved", ![a].st.tree = Len(trees')]
    BY <1>6 DEF SaveTree
  <2>2. now.designEd = "D" /\ kind = "design"
    BY <1>1, <2>1 DEF Submitted, StateFits
  <2>3. trees' = Append(trees, "D")
    BY <2>1, <2>2
  <2>4. \A n \in 1..Len(trees') : trees'[n] = "D"
    <3>1. trees = <<>> \/ Len(trees) = 1
      BY DEF WizardSafe, OneIsEnough
    <3>2. CASE trees = <<>>
      BY <2>3, <3>2
    <3>3. CASE trees # <<>>
      \* Once there is a tree nobody is on the way to another one.
      BY <1>1, <2>1, <3>3 DEF WizardSafe, OneIsEnough
    <3> QED BY <3>2, <3>3
  <2>5. /\ DOMAIN run' = Actors /\ DOMAIN run'[a] = {"kind", "st"} /\ run'[a].kind = kind
        /\ \A b \in Actors \ {a} : run'[b] = run[b]
        /\ run'[a].st = [[now EXCEPT !.next = "saved"] EXCEPT !.tree = Len(trees')]
    BY <1>1, <1>f, <2>1
  <2>6. /\ run'[a].st.next = "saved" /\ DOMAIN run'[a].st = DOMAIN FirstState
        /\ run'[a].st.conclEd = now.conclEd /\ run'[a].st.designEd = now.designEd
    BY <1>1, <2>5, FieldsOfStates DEF Submitted
  <2>7. Submitted(run'[a].st)
    BY <1>1, <2>2, <2>6 DEF Submitted
  <2>8. StateFits(run'[a].kind, run'[a].st)
    BY <2>2, <2>5, <2>6 DEF StateFits
  <2>9. thread = NoThread \/ Submitted(thread)
    BY DEF OnCourse, TextsAreSubmitted
  <2>10. generation.there => InOrder(thread)
    BY DEF OnCourse, RowFits
  <2>11. run[t] # NotRunning
    BY <1>3, <2>2
  <2>12. run'[a].kind = run[a].kind
    BY <2>5
  <2> HIDE DEF now, kind
  <2> QED BY <1>f, <1>1, <2>1, <2>4, <2>5, <2>6, <2>7, <2>8, <2>9, <2>10, <2>11, <2>12, StraightGoOn
<1>7. ASSUME run' = [run EXCEPT ![a].st.next = "end"], thread' = run'[a].st, trees' = trees,
             now.next \in {"save", "saved"}
      PROVE  OnCourse'
  <2>1. /\ DOMAIN run' = Actors /\ DOMAIN run'[a] = {"kind", "st"} /\ run'[a].kind = kind
        /\ \A b \in Actors \ {a} : run'[b] = run[b]
        /\ run'[a].st = [now EXCEPT !.next = "end"]
    BY <1>1, <1>f, <1>7
  <2>2. /\ run'[a].st.next = "end" /\ DOMAIN run'[a].st = DOMAIN FirstState
        /\ run'[a].st.conclEd = now.conclEd /\ run'[a].st.designEd = now.designEd
    BY <1>1, <2>1, FieldsOfStates DEF Submitted
  <2>3. Submitted(run'[a].st)
    BY <1>1, <2>2 DEF Submitted
  <2>4. kind = "design"
    BY <1>1, <1>7 DEF StateFits
  <2>5. StateFits(run'[a].kind, run'[a].st)
    BY <2>1, <2>2, <2>4 DEF StateFits
  <2>6. InOrder(thread')
    BY <1>7, <2>2 DEF InOrder
  <2>7. run[t] # NotRunning
    BY <1>3, <2>4
  <2>8. run'[a].kind = run[a].kind
    BY <2>1
  <2> HIDE DEF now, kind
  <2> QED BY <1>f, <1>1, <1>4, <1>7, <2>1, <2>2, <2>3, <2>5, <2>6, <2>7, <2>8, StraightGoOn
<1>8. CASE SaveFails(a)
  BY <1>7, <1>8 DEF SaveFails
<1>9. CASE SaveCheckpoint(a)
  BY <1>7, <1>9 DEF SaveCheckpoint
<1> QED BY <1>5, <1>6, <1>8, <1>9 DEF Work

\* A task in the background that ends leaves the thread at rest.
LEMMA StraightTaskEnds ==
  ASSUME NEW t, Tabs = {t}, WizardSafe, OnCourse, InFlight("background"),
         run' = [run EXCEPT !["background"] = NotRunning],
         UNCHANGED <<trees, generation>>, DOMAIN page' = Tabs,
         thread' = NoThread \/ Submitted(thread'),
         generation.there =>
           /\ InOrder(thread') /\ thread'.next \in Waiting \cup {"nothing", "end"}
           /\ run[t] = NotRunning => PageFits(page'[t], thread')
  PROVE  OnCourse'
<1>1. /\ t \in Actors /\ t # "background" /\ Actors = {t, "background"} /\ DOMAIN run = Actors
      /\ "background" \in Actors
  BY WizardAssumption DEF WizardSafe, WizardShape, Actors
<1>2. run'[t] = run[t] /\ run'["background"] = NotRunning
  BY <1>1
<1>3. DOMAIN run[t] = {"kind"} /\ DOMAIN NotRunning = {"kind"} /\ NotRunning.kind = "idle"
  <2>1. ~ InFlight(t)
    BY <1>1 DEF WizardSafe, OneAtATime
  <2> QED BY <1>1, <2>1, StatesAreInFlight DEF NotRunning
<1>4. \A a \in Actors : "st" \notin DOMAIN run'[a] /\ "value" \notin DOMAIN run'[a]
  BY <1>1, <1>2, <1>3
<1>5. TextsAreSubmitted'
  BY <1>4 DEF OnCourse, TextsAreSubmitted
<1>6. RequestsFit'
  BY <1>1, <1>2, <1>3, <1>4 DEF OnCourse, RequestsFit
<1>7. RowFits'
  BY <1>1, <1>2, <1>4 DEF RowFits
<1> QED BY <1>5, <1>6, <1>7 DEF OnCourse

\* The tasks in the background.
LEMMA BackgroundIsStraight ==
  ASSUME NEW t, Tabs = {t}, WizardSafe, OnCourse, InBackground
  PROVE  OnCourse'
<1> DEFINE bg == "background"
<1>f. /\ t \in Actors /\ t # bg /\ Actors = {t, bg} /\ DOMAIN run = Actors /\ Doing(run[bg])
      /\ bg \in Actors /\ DOMAIN page = Tabs /\ (thread = NoThread \/ Submitted(thread))
      /\ \A n \in 1..Len(trees) : trees[n] = "D"
  BY WizardAssumption DEF WizardSafe, WizardShape, Actors, OnCourse, TextsAreSubmitted
<1>1. CASE StartWorkflow
  <2>1. /\ run[bg].kind = "first" /\ "value" \in DOMAIN run[bg] /\ thread' = run[bg].value
        /\ run' = [run EXCEPT ![bg] = [kind |-> "first", st |-> thread']]
        /\ UNCHANGED <<generation, trees, page>>
    BY <1>1 DEF StartWorkflow
  <2>2. thread' = FirstState
    BY <2>1 DEF WizardSafe, WizardShape
  <2>3. Submitted(thread') /\ InOrder(thread') /\ StateFits("first", thread')
    BY <2>2 DEF FirstState, Submitted, InOrder, StateFits
  <2>4. InFlight(bg)
    BY <2>1 DEF InFlight
  <2>5. /\ DOMAIN run' = Actors /\ run'[bg] = [kind |-> "first", st |-> thread']
        /\ \A b \in Actors \ {bg} : run'[b] = run[b]
    BY <1>f, <2>1
  <2>6. generation.there => PageFits(page[t], thread')
    BY <2>1 DEF OnCourse, RowFits, PageFits
  <2> HIDE DEF bg
  <2> QED BY <1>f, <2>1, <2>3, <2>4, <2>5, <2>6, StraightGoOn
<1>2. CASE ResearchComplete
  <2>1. /\ "st" \in DOMAIN run[bg] /\ run[bg].st.next = "wait_research" /\ run[bg].kind = "first"
        /\ run' = [run EXCEPT ![bg] = NotRunning] /\ UNCHANGED <<generation, trees, thread>>
        /\ page' = [x \in Tabs |->
                      IF page[x].at # "loading" THEN page[x]
                      ELSE IF generation.there /\ thread # NoThread
                      THEN ResearchPage(thread) ELSE Page("error")]
    BY <1>2 DEF ResearchComplete
  <2>2. generation.there => thread = run[bg].st /\ InOrder(thread)
    BY <1>f, <2>1 DEF OnCourse, RowFits
  <2>3. InFlight(bg)
    BY <2>1 DEF InFlight
  <2>4. DOMAIN page' = Tabs /\ page'[t] \in {page[t], ResearchPage(thread), Page("error")}
    BY <2>1
  <2>5. ASSUME generation.there, run[t] = NotRunning
        PROVE  PageFits(page'[t], thread')
    <3>1. PageFits(page[t], thread)
      BY <2>5 DEF OnCourse, RowFits
    <3>2. PageFits(Page("error"), thread) /\ PageFits(ResearchPage(thread), thread)
      BY <2>1, <2>2, <2>5 DEF PageFits, Page, ResearchPage
    <3> QED BY <2>1, <2>4, <3>1, <3>2
  <2>6. generation.there => thread.next \in Waiting
    BY <2>1, <2>2 DEF Waiting
  <2> QED BY <1>f, <2>1, <2>2, <2>3, <2>4, <2>5, <2>6, StraightTaskEnds
<1>3. CASE ResearchRetried
  <2>1. /\ run[bg].kind = "retryResearch" /\ run' = [run EXCEPT ![bg] = NotRunning]
        /\ UNCHANGED <<generation, trees>>
        /\ page' = [x \in Tabs |-> IF page[x].at # "loading" THEN page[x]
                                   ELSE IF generation.there THEN ResearchPage(thread')
                                   ELSE Page("error")]
    BY <1>3 DEF ResearchRetried
  <2>2. PICK r, n : thread' = Updated(thread, [research |-> r, augmented |-> n])
    BY <1>3 DEF ResearchRetried
  <2>3. InFlight(bg) /\ (thread = NoThread \/ thread.next = "wait_research")
    BY <2>1 DEF InFlight, OnCourse, RequestsFit
  <2>4. thread = NoThread => ~ generation.there
    BY <1>f, <2>1 DEF WizardSafe, OneAtATime
  <2> DEFINE values == [research |-> r, augmented |-> n]
  <2>5. /\ Submitted(thread')
        /\ thread # NoThread =>
             thread'.next = thread.next /\ thread'.design = thread.design /\ thread'.concl = thread.concl
    <3>1. DOMAIN values \subseteq {"research", "augmented", "concl"} /\ "concl" \notin DOMAIN values
      OBVIOUS
    <3>2. thread' = Updated(thread, values)
      BY <2>2
    <3> HIDE DEF values
    <3> QED BY <1>f, <2>3, <3>1, <3>2, UpdatesKeepSubmitted
  <2>6. generation.there => thread.next = "wait_research" /\ InOrder(thread') /\ thread'.next = "wait_research"
    <3>1. generation.there => InOrder(thread) /\ thread.next = "wait_research"
      BY <2>3, <2>4 DEF OnCourse, RowFits
    <3> QED BY <2>4, <2>5, <3>1 DEF InOrder
  <2>7. DOMAIN page' = Tabs /\ (generation.there => page'[t] \in {page[t], ResearchPage(thread')})
    BY <2>1
  <2>8. ASSUME generation.there, run[t] = NotRunning
        PROVE  PageFits(page'[t], thread')
    <3>1. PageFits(page[t], thread)
      BY <2>8 DEF OnCourse, RowFits
    <3>2. PageFits(page[t], thread')
      BY <2>6, <2>8, <3>1 DEF PageFits
    <3>3. PageFits(ResearchPage(thread'), thread')
      BY <2>6, <2>8 DEF PageFits, ResearchPage
    <3> QED BY <2>7, <2>8, <3>2, <3>3
  <2> QED BY <1>f, <2>1, <2>3, <2>5, <2>6, <2>7, <2>8, StraightTaskEnds DEF Waiting
<1> QED BY <1>1, <1>2, <1>3 DEF InBackground

\* Maintenance: checkpoints go with nobody on the thread, or after their row.
LEMMA MaintainIsStraight ==
  ASSUME NEW t, Tabs = {t}, WizardSafe, OnCourse, mishaps' = {}, Maintain
  PROVE  OnCourse'
<1>f. /\ t \in Actors /\ t # "background" /\ Actors = {t, "background"}
  BY WizardAssumption DEF Actors
<1>1. UNCHANGED <<run, trees, page>>
  BY DEF Maintain, TimePasses, SelectStale, PurgeStale, DeleteStale, SweepOrphans
<1>2. generation'.there => generation.there
  <2>1. CASE TimePasses
    BY <2>1 DEF TimePasses
  <2>2. CASE DeleteStale
    BY <2>2 DEF DeleteStale
  <2>3. CASE SelectStale \/ PurgeStale \/ SweepOrphans
    BY <2>3 DEF SelectStale, PurgeStale, SweepOrphans
  <2> QED BY <2>1, <2>2, <2>3 DEF Maintain
<1>3. \/ thread' = thread
      \/ thread' = NoThread /\ (~ generation.there \/ \A a \in Actors : ~ InFlight(a))
  <2>1. CASE PurgeStale
    BY <2>1 DEF PurgeStale
  <2>2. CASE SweepOrphans
    BY <2>2 DEF SweepOrphans
  <2>3. CASE TimePasses \/ SelectStale \/ DeleteStale
    BY <2>3 DEF TimePasses, SelectStale, DeleteStale
  <2> QED BY <2>1, <2>2, <2>3 DEF Maintain
<1>4. TextsAreSubmitted'
  BY <1>1, <1>3 DEF OnCourse, TextsAreSubmitted
<1>5. RequestsFit'
  BY <1>1, <1>3 DEF OnCourse, RequestsFit
<1>6. RowFits'
  <2> SUFFICES ASSUME generation'.there
               PROVE  RowFits'
    BY DEF RowFits
  <2>1. CASE thread' = thread
    BY <1>1, <1>2, <2>1 DEF OnCourse, RowFits
  <2>2. CASE thread' = NoThread /\ \A a \in Actors : ~ InFlight(a)
    <3>1. \A a \in Actors : "st" \notin DOMAIN run[a]
      BY <2>2, StatesAreInFlight
    <3>2. \A x \in Tabs : run[x] = NotRunning => PageFits(page[x], NoThread)
      BY <1>2, NoThreadInOrder DEF OnCourse, RowFits, PageFits
    <3>3. "value" \in DOMAIN run["background"] => \A x \in Tabs : page[x].at \in {"loading", "error"}
      BY <1>2 DEF OnCourse, RowFits
    <3> QED BY <1>1, <2>2, <3>1, <3>2, <3>3, NoThreadInOrder DEF RowFits
  <2> QED BY <1>2, <1>3, <2>1, <2>2
<1> QED BY <1>1, <1>4, <1>5, <1>6 DEF OnCourse

\* Of one tab, the invariant holds at first and every step keeps it: once
\* something goes other than straight there is nothing to keep.
LEMMA StraightInvHolds ==
  ASSUME NEW CONSTANT t, Tabs = {t}
  PROVE  WizardSpec => []StraightInv
<1>1. WizardInit => StraightInv
  <2> SUFFICES ASSUME WizardInit
               PROVE  OnCourse
    BY DEF StraightInv, OnCourse
  <2>1. /\ run["background"] = [kind |-> "first", value |-> FirstState] /\ t # "background"
        /\ \A x \in Tabs : run[x] = [kind |-> "idle"]
        /\ DOMAIN page = Tabs /\ thread = NoThread /\ trees = <<>>
        /\ \A x \in Tabs : page[x].at = "loading"
    BY WizardAssumption DEF WizardInit, NotRunning, Actors, Page
  <2>2. \A a \in Actors : "st" \notin DOMAIN run[a]
    BY <2>1 DEF Actors
  <2>3. TextsAreSubmitted
    BY <2>1, <2>2 DEF TextsAreSubmitted
  <2>4. RequestsFit
    BY <2>1, <2>2 DEF RequestsFit
  <2>5. RowFits
    BY <2>1, <2>2, NoThreadInOrder DEF RowFits, PageFits
  <2> QED BY <2>1, <2>3, <2>4, <2>5 DEF OnCourse
<1>2. WizardInv /\ StraightInv /\ [WizardNext]_wizardVars => StraightInv'
  <2> SUFFICES ASSUME WizardInv, StraightInv, [WizardNext]_wizardVars, mishaps' = {}
               PROVE  OnCourse'
    BY DEF StraightInv, OnCourse
  <2>w. mishaps = {} => WizardSafe /\ OnCourse
    BY DEF WizardInv, WizardSafe, StraightInv, OnCourse
  <2>1. CASE UNCHANGED wizardVars
    <3>1. mishaps = {}
      BY <2>1 DEF wizardVars
    <3> QED BY <2>1, <2>w, <3>1 DEF wizardVars, OnCourse, TextsAreSubmitted, RequestsFit, RowFits
  <2>2. ASSUME Submit(t)
        PROVE  OnCourse'
    <3>1. mishaps = {}
      BY <2>2 DEF Submit, SubmitResearch, SkipConclusions, SubmitConclusions,
                  SubmitOwnConclusions, SubmitDesign, RetryResearch, RetryConclusions,
                  RetryDesign, RetryBuild, BackToResearch, View, Abandon, Begin, Noted
    <3> QED BY <2>2, <2>w, <3>1, SubmitIsStraight
  <2>3. ASSUME Serve(t)
        PROVE  OnCourse'
    <3>1. mishaps = {}
      BY <2>3 DEF Serve, Load, Respond, ConclusionsRetried, DeleteCheckpoints
    <3> QED BY <2>3, <2>w, <3>1, ServeIsStraight
  <2>4. ~ Fail(t)
    BY DEF Fail
  <2>5. \A a \in Actors : ~ Crash(a)
    BY DEF Crash
  <2>6. ASSUME NEW a \in Actors, Work(a)
        PROVE  OnCourse'
    <3>1. mishaps = {}
      BY <2>6 DEF Work, Node, SaveTree, SaveFails, SaveCheckpoint
    <3> QED BY <2>6, <2>w, <3>1, WorkIsStraight
  <2>7. CASE InBackground
    <3>1. mishaps = {}
      BY <2>7 DEF InBackground, StartWorkflow, ResearchComplete, ResearchRetried
    <3> QED BY <2>7, <2>w, <3>1, BackgroundIsStraight
  <2>8. CASE Maintain
    <3>1. mishaps = {}
      BY <2>8 DEF Maintain, TimePasses, SelectStale, PurgeStale, DeleteStale, SweepOrphans
    <3> QED BY <2>8, <2>w, <3>1, MaintainIsStraight
  <2> QED BY <2>1, <2>2, <2>3, <2>4, <2>5, <2>6, <2>7, <2>8 DEF WizardNext
<1> QED BY <1>1, <1>2, WizardInvHolds, PTL DEF WizardSpec

\* With one tab, as long as nothing goes other than straight, the fields hold
\* what the user has submitted on their pages and every tree saved was built
\* from the submitted design: across page loads, retries of research and of
\* conclusions, failed builds, saved generations gone back to and cleanups.
THEOREM StraightRunsBuildWhatWasSubmittedHolds ==
  (\E t : Tabs = {t}) => (WizardSpec => []StraightRunsBuildWhatWasSubmitted)
<1> SUFFICES ASSUME NEW CONSTANT t, Tabs = {t}
             PROVE  WizardSpec => []StraightRunsBuildWhatWasSubmitted
  OBVIOUS
<1>1. StraightInv => StraightRunsBuildWhatWasSubmitted
  BY DEF StraightInv, OnCourse, TextsAreSubmitted, Submitted, StraightRunsBuildWhatWasSubmitted
<1> QED BY <1>1, StraightInvHolds, PTL
=============================================================================
