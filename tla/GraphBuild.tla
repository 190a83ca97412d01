----------------------------- MODULE GraphBuild -----------------------------
(***************************************************************************)
(* The build subgraph of agentic generation (subgraphs/build.py): a model  *)
(* turns the design into a tree, the tree is validated as a draft and for  *)
(* the quality of its branching, and as long as some error is structural   *)
(* it is fixed by rule and validated again.                                *)
(*                                                                         *)
(* Trees are those of TreeGraph, but an edge may lead from or to a node    *)
(* the tree lacks and be conditioned on a label its question lacks. The    *)
(* fixes find nodes in the wording of the errors, by \w+: an id with a     *)
(* hyphen, which validation accepts, is not found. Of the quality warnings *)
(* the one about the longest path is left out: it takes a path over more   *)
(* than 85 % of the questions, so at least seven of them.                  *)
(*                                                                         *)
(* Two groups of fixes are left out because no error or warning asks for   *)
(* them: the edges of conclusions are warned of in other words than        *)
(* auto_fix_graph looks for, and a missing default edge is warned of only  *)
(* in a draft without structural errors, which is not fixed.               *)
(***************************************************************************)
EXTENDS TreeGraph, Sequences

CONSTANTS
  Returned,        \* the trees the model may return
  Gates,           \* q1, q2, ... in order, the ids the design asks for
  PlainIds,        \* the ids made of letters, digits and underscores
  Similar,         \* per label, the labels get_close_matches takes it for
  CollectOnly,     \* questions the design marks as asked for the record only
  Allowed          \* the conclusions the user approved; {}: none could be parsed

ASSUME GatesAssumption == Gates \in Seq(QuestionIds) /\ Len(Gates) >= 4
ASSUME SimilarAssumption == Similar \in [Options -> SUBSET Options]
ASSUME FewQuestionsAssumption == Cardinality(QuestionIds) < 7

\* What convert_simple_graph_to_dt_graph makes of any answer of the model: a
\* draft whose edges need not join its nodes.
DraftLike(t) ==
  /\ t = [questions |-> t.questions, conclusions |-> t.conclusions, edges |-> t.edges]
  /\ t.questions \in [Asked(t) -> Question] /\ Asked(t) \subseteq QuestionIds
  /\ t.conclusions \subseteq ConclusionIds /\ IsFiniteSet(Nodes(t))
  /\ IsABag(t.edges) /\ IsFiniteSet(Edges(t))
  /\ Edges(t) \subseteq [source : NodeIds, target : NodeIds, condition : Conditions]

ASSUME ReturnedAssumption == \A t \in Returned : DraftLike(t)

VARIABLES
  graph,    \* generated_graph, NoGraph if there is none
  errors,   \* validation_errors
  status,   \* final_status
  rounds,   \* fix_iteration_count
  at        \* the node of the subgraph that runs next

buildVars == <<graph, errors, status, rounds, at>>

NoGraph == [none |-> TRUE]

\* Mutant: one round of fixes.
OneFixIteration == 1

MaxFixIterations == 3

-----------------------------------------------------------------------------
(* What validation finds.                                                  *)

BuildFailed == [code |-> "build"]

Dangling(t) == {e \in Edges(t) : ~ ({e.source, e.target} \subseteq Nodes(t))}
Copied(t)   == {e \in Edges(t) : t.edges[e] > 1}
Loops(t)    == {e \in Edges(t) : e.source = e.target}

\* Edges without a condition that are not the only one of their node.
ExtraDefaults(t) ==
  LET defaults == DefaultsOf(Edges(t))
  IN  {e \in defaults : t.edges[e] > 1 \/ \E x \in defaults \ {e} : x.source = e.source}

\* Edges of a question conditioned on something that is not an answer to it.
Mislabelled(t) ==
  {e \in Edges(t) \ DefaultsOf(Edges(t)) :
     e.source \in Asked(t) /\ e.condition \notin t.questions[e.source].options}

LoopOn(e)     == [code |-> "loop", node |-> e.source]
CopiesOf(e)   == [code |-> "copies", from |-> e.source, to |-> e.target]
DefaultsAt(e) == [code |-> "defaults", node |-> e.source]
LabelOf(e)    == [code |-> "label", node |-> e.source, on |-> e.condition]

\* The errors of validate_graph_for_editing: each kind a fix looks for, and
\* the others (several entries, a missing end, a bare edge to a conclusion)
\* as one.
StructuralErrors(t) ==
  IF Nodes(t) = {} THEN {[code |-> "other"]}
  ELSE {LoopOn(e) : e \in Loops(t)} \cup {CopiesOf(e) : e \in Copied(t)}
       \cup {DefaultsAt(e) : e \in ExtraDefaults(t)} \cup {LabelOf(e) : e \in Mislabelled(t)}
       \cup IF \/ Cardinality(EntryNodes(t)) > 1
               \/ Dangling(t) # {}
               \/ \E q \in Asked(t) : DefaultsOf(Out(t, q)) \cap ToConclusion(t) # {}
            THEN {[code |-> "other"]} ELSE {}

OneTarget(t, q) == Cardinality(Targets(Out(t, q))) = 1

\* _detect_sequential_prefix_funnel: q1 to q4 one after the other.
PrefixFunnel(t) ==
  /\ Cardinality(Asked(t)) >= 4
  /\ \A i \in 1..3 : Gates[i] \in Nodes(t) /\ Targets(Out(t, Gates[i])) = {Gates[i + 1]}

\* Answers that make no difference, unless to the first or a collect-only
\* question.
FakeBranching(t, q) ==
  /\ Cardinality(Out(t, q)) >= 2 /\ OneTarget(t, q)
  /\ q # Gates[1] /\ q \notin CollectOnly

\* _entry_node_id: of a valid draft, at most one node has only edges out.
QualityEntry(t) == {n \in EntryNodes(t) : Out(t, n) # {}}

\* assess_branching_quality, its errors ...
QualityErrors(t) ==
  \/ Allowed # {} /\ ~ (t.conclusions \subseteq Allowed)
  \/ PrefixFunnel(t)
  \/ \E q \in Asked(t) : FakeBranching(t, q)
  \/ ~ (t.conclusions \subseteq ReachableFrom(t, QualityEntry(t)))

\* _detect_early_reconvergence: the ways q1 opens meet again at once.
EarlyReconvergence(t) ==
  LET ways == Targets(Out(t, Gates[1])) \ t.conclusions
  IN  /\ Gates[1] \in Asked(t) /\ Cardinality(ways) >= 2
      /\ \E n \in Nodes(t) : \A way \in ways : n \in Targets(Out(t, way))

\* ... and its warnings.
QualityWarnings(t) ==
  \/ ~ (Allowed \subseteq t.conclusions)
  \/ EarlyReconvergence(t)
  \/ \E i \in 1..3 : Gates[i] \in Asked(t) /\ OneTarget(t, Gates[i])
  \/ Cardinality({q \in Asked(t) : Cardinality(Out(t, q)) >= 2 /\ OneTarget(t, q)}) > 1

\* validate_graph_for_generation: quality is assessed in a valid draft only.
GenerationErrors(t) ==
  LET structural == StructuralErrors(t)
  IN  IF structural = {} /\ QualityErrors(t) THEN {[code |-> "quality"]} ELSE structural

GenerationWarnings(t) == StructureWarnings(t) \/ QualityWarnings(t)

-----------------------------------------------------------------------------
(* Fixes by rule (auto_fix.py), from the errors found.                     *)

\* delete_edge: every copy goes.
WithoutEdges(t, E) == [t EXCEPT !.edges = [e \in Edges(t) \ E |-> t.edges[e]]]

\* _remove_self_loops
LoopsRemoved(t, found) ==
  WithoutEdges(t, {e \in Loops(t) : e.source \in PlainIds /\ LoopOn(e) \in found})

\* _remove_duplicate_edges: the second copy is deleted by its ends and its
\* condition, which are also those of the first.
CopiesRemoved(t, found) ==
  WithoutEdges(t, {e \in Copied(t) :
                     {e.source, e.target} \subseteq PlainIds /\ CopiesOf(e) \in found})

\* _keep_first_default_edge: any edge may be the first, and if it has a copy
\* it goes with it.
DefaultsReduced(t, found) ==
  LET reduced == {e \in ExtraDefaults(t) : e.source \in PlainIds /\ DefaultsAt(e) \in found}
      firsts  == {F \in SUBSET reduced :
                    \A e \in reduced : Cardinality({x \in F : x.source = e.source}) = 1}
  IN  {WithoutEdges(t, reduced \ {e \in F : t.edges[e] = 1}) : F \in firsts}

\* _fuzzy_fix_condition, for every edge that has the mistyped label. It may
\* become a copy of another edge; of how many does not matter.
LabelsCorrected(t, found) ==
  LET answers(e) == Similar[e.condition] \cap t.questions[e.source].options
      wrong == {e \in Mislabelled(t) :
                  e.source \in PlainIds /\ LabelOf(e) \in found /\ answers(e) # {}}
      right(e) == IF e \in wrong THEN [e EXCEPT !.condition = CHOOSE o \in answers(e) : TRUE] ELSE e
      from(e) == {x \in Edges(t) : right(x) = e}
      copies(e) == IF \E x \in from(e) : from(e) = {x} THEN t.edges[CHOOSE x \in from(e) : TRUE] ELSE 2
  IN  [t EXCEPT !.edges = [e \in {right(x) : x \in Edges(t)} |-> copies(e)]]

\* _remove_orphan_nodes: questions with no edge at all.
OrphansRemoved(t) ==
  LET tied == {e.source : e \in Edges(t)} \cup Targets(Edges(t))
  IN  [t EXCEPT !.questions = [q \in Asked(t) \cap tied |-> t.questions[q]]]

\* auto_fix_graph, in the order validation lists the errors: what may come
\* of a tree.
Fixes(t, found) ==
  {OrphansRemoved(LabelsCorrected(u, found)) :
     u \in DefaultsReduced(CopiesRemoved(LoopsRemoved(t, found), found), found)}

-----------------------------------------------------------------------------
(* The subgraph.                                                           *)

BuildInit ==
  /\ graph = NoGraph /\ errors = {} /\ status = "unset" /\ rounds = 0
  /\ at = "build_graph"

\* build_graph_node: a tree, or a failure that is reported like an error.
BuildGraph ==
  /\ at = "build_graph"
  /\ at' = "validate"
  /\ \/ graph' \in Returned /\ UNCHANGED <<errors, status>>
     \/ errors' = {BuildFailed} /\ status' = "has_errors" /\ UNCHANGED graph
  /\ UNCHANGED rounds

\* route_after_validation: a failed build goes the rounds too.
RouteAfterValidation(found) ==
  IF found \notin SUBSET {[code |-> "quality"]} /\ rounds < MaxFixIterations
  THEN "auto_fix" ELSE "end"

\* validate_graph_node
ValidateGraph ==
  /\ at = "validate"
  /\ IF graph = NoGraph THEN UNCHANGED <<errors, status>>
     ELSE /\ errors' = GenerationErrors(graph)
          /\ status' = IF errors' # {} THEN "has_errors"
                       ELSE IF GenerationWarnings(graph) THEN "valid_with_warnings"
                       ELSE "valid"
  /\ at' = RouteAfterValidation(errors')
  /\ UNCHANGED <<graph, rounds>>

\* Mutant: a fixed tree is saved without another look.
FixAndGoOn ==
  /\ at = "auto_fix"
  /\ IF graph = NoGraph THEN UNCHANGED graph ELSE graph' \in Fixes(graph, errors)
  /\ rounds' = rounds + 1
  /\ at' = "end"
  /\ UNCHANGED <<errors, status>>

\* auto_fix_node: whatever comes of it, a round is counted.
AutoFix ==
  /\ at = "auto_fix"
  /\ IF graph = NoGraph THEN UNCHANGED graph ELSE graph' \in Fixes(graph, errors)
  /\ rounds' = rounds + 1
  /\ at' = "validate"
  /\ UNCHANGED <<errors, status>>

BuildNext == BuildGraph \/ ValidateGraph \/ AutoFix

BuildSpec == BuildInit /\ [][BuildNext]_buildVars

-----------------------------------------------------------------------------
(* Properties.                                                             *)

\* An optional question that can only be answered to a conclusion: refused by
\* publication, for want of a default edge, and by no warning told of.
ConcludesOrIsSkipped(t, q) ==
  /\ ~ t.questions[q].required
  /\ DefaultsOf(Out(t, q)) = {} /\ Targets(Out(t, q)) \subseteq t.conclusions

\* The status shown for a generated tree is the status of the tree saved,
\* although fixes change it after it is validated: a tree with errors is
\* never called valid, and one called valid without warnings passes the
\* validation for publication as it is, but for the one thing the warnings
\* pass over (final_status, validate_graph_node).
StatusTellsOfTheTree ==
  at = "end" =>
    /\ status = "has_errors" <=> graph = NoGraph \/ EditingErrors(graph) \/ QualityErrors(graph)
    /\ status = "valid" =>
         PublicationValid(graph) \/ \E q \in Asked(graph) : ConcludesOrIsSkipped(graph, q)

\* Three rounds are enough: a build that ends with structural errors ends
\* because none of them can be fixed, not for the bound on rounds, although
\* a corrected label can turn an edge into a copy of another, to be fixed in
\* turn (MAX_FIX_ITERATIONS, auto_fix_graph).
NothingFixableIsLeft ==
  at = "end" /\ graph # NoGraph /\ StructuralErrors(graph) # {} =>
    Fixes(graph, errors) = {graph}

\* Fixing keeps "the first occurrence of each (source, target, condition)
\* tuple" of repeated edges (_remove_duplicate_edges).
FirstCopyIsKept ==
  [][at = "auto_fix" /\ graph # NoGraph =>
       Copied(graph) \ (Loops(graph) \cup DefaultsOf(Edges(graph)) \cup Mislabelled(graph))
         \subseteq Edges(graph')]_buildVars
=============================================================================
