----------------------------- MODULE DraftProofs -----------------------------
(***************************************************************************)
(* Drafts, for every draft however large; the bounds of the model checking *)
(* play no part. First the content: the editor's operations keep the edges *)
(* between nodes of the draft and add no second entry, and what passes     *)
(* publication validation can be walked to a conclusion, passes the        *)
(* solver's gate and means the same to a walk and to the theory. Then the  *)
(* storage, under any number of overlapping requests: that invariant adds  *)
(* to the properties what a request's own copy is worth while it waits. An *)
(* editor's copy has every edit still owed but those saved after its load, *)
(* and a copy on its way to the compiler has passed the gate.              *)
(***************************************************************************)
EXTENDS TreeEditor, DraftLifecycle, KernelProofs

-----------------------------------------------------------------------------
(* The editor's operations.                                                *)

\* What the bag operations do to a bag and to the set of its elements.
LEMMA BagFacts ==
  ASSUME NEW B, IsABag(B), NEW x, NEW S
  PROVE  /\ IsABag(B (+) SetToBag(S)) /\ DOMAIN (B (+) SetToBag(S)) = DOMAIN B \cup S
         /\ IsABag(BagAdd(B, x)) /\ DOMAIN BagAdd(B, x) = DOMAIN B \cup {x}
         /\ IsABag(BagRemove(B, x)) /\ DOMAIN BagRemove(B, x) \subseteq DOMAIN B
         /\ IsABag(BagRemoveAll(B, x)) /\ DOMAIN BagRemoveAll(B, x) \subseteq DOMAIN B
<1> DEFINE Pos == {n \in Nat : n > 0}
<1>1. B \in [DOMAIN B -> Pos]
  BY DEF IsABag
<1>2. \A e \in DOMAIN B : B[e] \in Nat /\ B[e] > 0
  BY <1>1
<1>3. IsABag(B (+) SetToBag(S)) /\ DOMAIN (B (+) SetToBag(S)) = DOMAIN B \cup S
  BY <1>2 DEF IsABag, (+), SetToBag
<1>4. IsABag(BagAdd(B, x)) /\ DOMAIN BagAdd(B, x) = DOMAIN B \cup {x}
  BY <1>2 DEF IsABag, BagAdd
<1>5. IsABag(BagRemove(B, x)) /\ DOMAIN BagRemove(B, x) \subseteq DOMAIN B
  BY <1>2 DEF IsABag, BagRemove
<1>6. IsABag(BagRemoveAll(B, x)) /\ DOMAIN BagRemoveAll(B, x) \subseteq DOMAIN B
  BY <1>2 DEF IsABag, BagRemoveAll
<1> QED BY <1>3, <1>4, <1>5, <1>6

\* The fields of a draft after a change of one of them.
LEMMA FieldFacts ==
  ASSUME NEW t, DOMAIN t = {"questions", "conclusions", "edges"}, NEW v
  PROVE  /\ LET u == [t EXCEPT !.questions = v]
            IN  /\ DOMAIN u = DOMAIN t /\ u.questions = v
                /\ u.conclusions = t.conclusions /\ u.edges = t.edges
         /\ LET u == [t EXCEPT !.conclusions = v]
            IN  /\ DOMAIN u = DOMAIN t /\ u.questions = t.questions
                /\ u.conclusions = v /\ u.edges = t.edges
         /\ LET u == [t EXCEPT !.edges = v]
            IN  /\ DOMAIN u = DOMAIN t /\ u.questions = t.questions
                /\ u.conclusions = t.conclusions /\ u.edges = v
OBVIOUS

Between(t) == [source : Nodes(t), target : Nodes(t), condition : Conditions]

\* A new question, or new data for an old one.
LEMMA QuestionFacts ==
  ASSUME NEW t, WellFormed(t), NEW q \in QuestionIds, NEW data \in Question
  PROVE  LET u == WithQuestion(t, q, data)
         IN  WellFormed(u) /\ Nodes(u) = Nodes(t) \cup {q} /\ u.edges = t.edges
<1> DEFINE u == WithQuestion(t, q, data)
<1>1. /\ DOMAIN u = {"questions", "conclusions", "edges"}
      /\ u.questions = [x \in Asked(t) \cup {q} |-> IF x = q THEN data ELSE t.questions[x]]
      /\ u.conclusions = t.conclusions /\ u.edges = t.edges
  BY FieldFacts DEF WellFormed, WithQuestion
<1> HIDE DEF u
<1>2. Asked(u) = Asked(t) \cup {q} /\ u.questions \in [Asked(u) -> Question]
  BY <1>1 DEF Asked, WellFormed
<1>3. Nodes(u) = Nodes(t) \cup {q} /\ Edges(u) = Edges(t)
  BY <1>1, <1>2 DEF Nodes, Edges
<1>4. IsFiniteSet(Nodes(u))
  BY <1>3, FS_AddElement DEF WellFormed
<1>5. WellFormed(u)
  BY <1>1, <1>2, <1>3, <1>4 DEF WellFormed
<1> QED BY <1>1, <1>3, <1>5 DEF u

\* A new conclusion.
LEMMA ConclusionFacts ==
  ASSUME NEW t, WellFormed(t), NEW c \in ConclusionIds
  PROVE  LET u == WithConclusion(t, c)
         IN  WellFormed(u) /\ Nodes(u) = Nodes(t) \cup {c} /\ u.edges = t.edges
<1> DEFINE u == WithConclusion(t, c)
<1>1. /\ DOMAIN u = {"questions", "conclusions", "edges"} /\ u.questions = t.questions
      /\ u.conclusions = t.conclusions \cup {c} /\ u.edges = t.edges
  BY FieldFacts DEF WellFormed, WithConclusion
<1> HIDE DEF u
<1>2. Asked(u) = Asked(t) /\ Nodes(u) = Nodes(t) \cup {c} /\ Edges(u) = Edges(t)
  BY <1>1 DEF Asked, Nodes, Edges
<1>3. IsFiniteSet(Nodes(u))
  BY <1>2, FS_AddElement DEF WellFormed
<1>4. WellFormed(u)
  BY <1>1, <1>2, <1>3 DEF WellFormed
<1> QED BY <1>1, <1>2, <1>4 DEF u

\* Other edges between the nodes of the draft.
LEMMA EdgeFacts ==
  ASSUME NEW t, WellFormed(t), NEW B, IsABag(B), DOMAIN B \subseteq Between(t)
  PROVE  LET u == [t EXCEPT !.edges = B]
         IN  WellFormed(u) /\ Nodes(u) = Nodes(t) /\ Edges(u) = DOMAIN B
<1> DEFINE u == [t EXCEPT !.edges = B]
<1>1. /\ DOMAIN u = {"questions", "conclusions", "edges"} /\ u.questions = t.questions
      /\ u.conclusions = t.conclusions /\ u.edges = B
  BY FieldFacts DEF WellFormed
<1> HIDE DEF u
<1>2. Asked(u) = Asked(t) /\ Nodes(u) = Nodes(t) /\ Edges(u) = DOMAIN B
  BY <1>1 DEF Asked, Nodes, Edges, BagToSet
<1>3. WellFormed(u)
  BY <1>1, <1>2 DEF WellFormed, Between
<1> QED BY <1>2, <1>3 DEF u

\* New edges into a node of the draft.
LEMMA WiredFacts ==
  ASSUME NEW t, WellFormed(t), NEW d \in Nodes(t),
         NEW wires \in SUBSET (Nodes(t) \X Conditions)
  PROVE  LET u == Wired(t, wires, d)
         IN  /\ WellFormed(u) /\ Nodes(u) = Nodes(t)
             /\ Edges(u) = Edges(t) \cup {NewEdge(w[1], d, w[2]) : w \in wires}
<1> DEFINE W == {NewEdge(w[1], d, w[2]) : w \in wires}
<1>1. W \subseteq Between(t)
  BY DEF NewEdge, Between
<1>2. Edges(t) \subseteq Between(t) /\ IsABag(t.edges) /\ Edges(t) = DOMAIN t.edges
  BY DEF WellFormed, Between, Edges, BagToSet
<1> HIDE DEF W
<1>3. /\ IsABag(t.edges (+) SetToBag(W))
      /\ DOMAIN (t.edges (+) SetToBag(W)) = Edges(t) \cup W
  BY <1>2, BagFacts
<1>4. Wired(t, wires, d) = [t EXCEPT !.edges = t.edges (+) SetToBag(W)]
  BY DEF Wired, W
<1>5. /\ WellFormed(Wired(t, wires, d)) /\ Nodes(Wired(t, wires, d)) = Nodes(t)
      /\ Edges(Wired(t, wires, d)) = Edges(t) \cup W
  BY <1>1, <1>2, <1>3, <1>4, EdgeFacts
<1> QED BY <1>5 DEF W

\* Deleting a node takes its edges along, so none is left dangling.
LEMMA WithoutNodeFacts ==
  ASSUME NEW t, WellFormed(t), NEW n
  PROVE  WellFormed(WithoutNode(t, n))
<1> DEFINE u    == WithoutNode(t, n)
           kept == {e \in Edges(t) : n \notin {e.source, e.target}}
<1>1. /\ DOMAIN u = {"questions", "conclusions", "edges"}
      /\ u.questions = [q \in Asked(t) \ {n} |-> t.questions[q]]
      /\ u.conclusions = t.conclusions \ {n}
      /\ u.edges = [e \in kept |-> t.edges[e]]
  BY DEF WithoutNode
<1> HIDE DEF u
<1>2. /\ Asked(u) = Asked(t) \ {n} /\ Nodes(u) = Nodes(t) \ {n}
      /\ Edges(u) = kept
  BY <1>1 DEF Asked, Nodes, Edges, BagToSet
<1>3. Edges(u) \subseteq [source : Nodes(u), target : Nodes(u), condition : Conditions]
  BY <1>2 DEF WellFormed
<1>4. IsABag(u.edges)
  BY <1>1 DEF WellFormed, IsABag, Edges, BagToSet
<1>5. /\ u.questions \in [Asked(u) -> Question] /\ Asked(u) \subseteq QuestionIds
      /\ u.conclusions \subseteq ConclusionIds
  BY <1>1, <1>2 DEF WellFormed
<1>6. IsFiniteSet(Nodes(u))
  <2>1. Nodes(u) \subseteq Nodes(t)
    BY <1>2
  <2> QED BY <2>1, FS_Subset DEF WellFormed
<1>7. WellFormed(u)
  BY <1>1, <1>3, <1>4, <1>5, <1>6 DEF WellFormed
<1> QED BY <1>7 DEF u

-----------------------------------------------------------------------------
(* Creating nodes.                                                         *)

\* A node created with an edge into it leaves no new entry.
LEMMA WiredNodeIsNoEntry ==
  ASSUME NEW t, NEW u, NEW n, NEW W, NEW e \in W,
         Nodes(u) = Nodes(t) \cup {n}, Edges(u) = Edges(t) \cup W, e.target = n
  PROVE  EntryNodes(u) \subseteq EntryNodes(t)
BY DEF EntryNodes, In

\* A question created with an edge from each chosen predecessor.
LEMMA IncomingFacts ==
  ASSUME WellFormed(tree), NEW q \in QuestionIds, NEW data \in QuestionData,
         NEW preds \in SUBSET Asked(tree), NEW c \in Conditions,
         CreateQuestionIncoming(q, data, preds, c)
  PROVE  WellFormed(tree') /\ EntryNodes(tree') \subseteq EntryNodes(tree)
<1> DEFINE u     == WithQuestion(tree, q, data)
           wires == {<<p, c>> : p \in preds}
           W     == {NewEdge(w[1], q, w[2]) : w \in wires}
<1>1. WellFormed(u) /\ Nodes(u) = Nodes(tree) \cup {q} /\ Edges(u) = Edges(tree)
  BY QuestionFacts, QuestionDataAssumption DEF Edges
<1>2. wires \in SUBSET (Nodes(u) \X Conditions)
  BY <1>1 DEF Nodes
<1>3. tree' = Wired(u, wires, q)
  BY DEF CreateQuestionIncoming
<1>5. PICK p \in preds : NewEdge(p, q, c) \in W
  <2>1. PICK p \in preds : TRUE
    BY DEF CreateQuestionIncoming
  <2>2. <<p, c>> \in wires /\ <<p, c>>[1] = p /\ <<p, c>>[2] = c
    BY <2>1
  <2>3. NewEdge(p, q, c) \in W
    BY <2>2
  <2> QED BY <2>3
<1>6. NewEdge(p, q, c).target = q
  BY DEF NewEdge
<1> HIDE DEF u, wires
<1>4. /\ WellFormed(tree') /\ Nodes(tree') = Nodes(tree) \cup {q}
      /\ Edges(tree') = Edges(tree) \cup W
  BY <1>1, <1>2, <1>3, WiredFacts
<1> HIDE DEF W
<1> QED BY <1>4, <1>5, <1>6, WiredNodeIsNoEntry

\* A question created before the only entry becomes the only entry.
LEMMA NewStartFacts ==
  ASSUME WellFormed(tree), NEW q \in QuestionIds, NEW data \in QuestionData,
         CreateQuestionNewStart(q, data)
  PROVE  WellFormed(tree') /\ EntryNodes(tree') \subseteq {q}
<1> DEFINE u == WithQuestion(tree, q, data)
<1>1. WellFormed(u) /\ Nodes(u) = Nodes(tree) \cup {q} /\ Edges(u) = Edges(tree)
  BY QuestionFacts, QuestionDataAssumption DEF Edges
<1>2. PICK entry \in Asked(tree) :
        /\ EntryNodes(tree) = {entry}
        /\ tree' = Wired(u, {<<q, DefaultGuard>>}, entry)
  BY DEF CreateQuestionNewStart
<1> HIDE DEF u
<1>3. entry \in Nodes(u) /\ {<<q, DefaultGuard>>} \in SUBSET (Nodes(u) \X Conditions)
  BY <1>1, <1>2 DEF Nodes, Conditions
<1>4. /\ WellFormed(tree') /\ Nodes(tree') = Nodes(tree) \cup {q}
      /\ Edges(tree') = Edges(tree)
            \cup {NewEdge(w[1], entry, w[2]) : w \in {<<q, DefaultGuard>>}}
  BY <1>1, <1>2, <1>3, WiredFacts
<1>5. NewEdge(q, entry, DefaultGuard) \in Edges(tree')
  BY <1>4
<1>6. NewEdge(q, entry, DefaultGuard).target = entry
  BY DEF NewEdge
<1>7. entry \notin EntryNodes(tree')
  BY <1>5, <1>6 DEF EntryNodes, In
<1>8. EntryNodes(tree') \subseteq EntryNodes(tree) \cup {q}
  BY <1>4 DEF EntryNodes, In
<1> QED BY <1>2, <1>4, <1>7, <1>8

\* A conclusion created with its conditional edges.
LEMMA ConclusionWiredFacts ==
  ASSUME WellFormed(tree), NEW c \in ConclusionIds,
         NEW wires \in SUBSET (Asked(tree) \X Options), CreateConclusion(c, wires)
  PROVE  WellFormed(tree') /\ EntryNodes(tree') \subseteq EntryNodes(tree)
<1> DEFINE u == WithConclusion(tree, c)
           W == {NewEdge(w[1], c, w[2]) : w \in wires}
<1>1. WellFormed(u) /\ Nodes(u) = Nodes(tree) \cup {c} /\ Edges(u) = Edges(tree)
  BY ConclusionFacts DEF Edges
<1>2. wires \in SUBSET (Nodes(u) \X Conditions)
  BY <1>1 DEF Nodes, Conditions
<1>3. tree' = Wired(u, wires, c) /\ wires # {}
  BY DEF CreateConclusion
<1>5. PICK w \in wires : NewEdge(w[1], c, w[2]) \in W
  BY <1>3
<1>6. NewEdge(w[1], c, w[2]).target = c
  BY DEF NewEdge
<1> HIDE DEF u
<1>4. /\ WellFormed(tree') /\ Nodes(tree') = Nodes(tree) \cup {c}
      /\ Edges(tree') = Edges(tree) \cup W
  BY <1>1, <1>2, <1>3, WiredFacts
<1> HIDE DEF W
<1> QED BY <1>4, <1>5, <1>6, WiredNodeIsNoEntry

\* create_node: the draft was empty, so its edges, which join nodes of it,
\* are none.
LEMMA FirstNodeFacts ==
  ASSUME WellFormed(tree), NEW q \in QuestionIds, NEW data \in QuestionData,
         CreateNode(q, data)
  PROVE  WellFormed(tree') /\ EntryNodes(tree') \subseteq {q}
BY QuestionFacts, QuestionDataAssumption DEF CreateNode, EntryNodes

\* Every request that creates a node keeps the draft well formed and its
\* entry single.
LEMMA CreationFacts ==
  ASSUME WellFormed(tree), CreatesNode
  PROVE  WellFormed(tree') /\ (AtMostOneEntry(tree) => AtMostOneEntry(tree'))
<1>1. ASSUME NEW q \in QuestionIds \ Nodes(tree), NEW data \in QuestionData, CreateNode(q, data)
      PROVE  WellFormed(tree') /\ (AtMostOneEntry(tree) => AtMostOneEntry(tree'))
  BY <1>1, FirstNodeFacts DEF AtMostOneEntry
<1>2. ASSUME NEW q \in QuestionIds \ Nodes(tree), NEW data \in QuestionData,
             NEW preds \in SUBSET Asked(tree), NEW c \in Conditions,
             CreateQuestionIncoming(q, data, preds, c)
      PROVE  WellFormed(tree') /\ (AtMostOneEntry(tree) => AtMostOneEntry(tree'))
  BY <1>2, IncomingFacts DEF AtMostOneEntry
<1>3. ASSUME NEW q \in QuestionIds \ Nodes(tree), NEW data \in QuestionData,
             CreateQuestionNewStart(q, data)
      PROVE  WellFormed(tree') /\ (AtMostOneEntry(tree) => AtMostOneEntry(tree'))
  BY <1>3, NewStartFacts DEF AtMostOneEntry
<1>4. ASSUME NEW c \in ConclusionIds \ Nodes(tree),
             NEW wires \in SUBSET (Asked(tree) \X Options), CreateConclusion(c, wires)
      PROVE  WellFormed(tree') /\ (AtMostOneEntry(tree) => AtMostOneEntry(tree'))
  <2>1. WellFormed(tree') /\ EntryNodes(tree') \subseteq EntryNodes(tree)
    BY <1>4, ConclusionWiredFacts
  <2> QED BY <2>1 DEF AtMostOneEntry
<1> QED BY <1>1, <1>2, <1>3, <1>4 DEF CreatesNode

-----------------------------------------------------------------------------
(* Every request.                                                          *)

\* Every request leaves the draft well formed.
LEMMA EditFacts ==
  ASSUME WellFormed(tree), Edit
  PROVE  WellFormed(tree')
<1> DEFINE B == tree.edges
<1>1. IsABag(B) /\ DOMAIN B \subseteq Between(tree) /\ DOMAIN B = Edges(tree)
  BY DEF WellFormed, Between, Edges, BagToSet
<1> HIDE DEF B
<1>2. CASE CreatesNode
  BY <1>2, CreationFacts
<1>3. ASSUME NEW q \in QuestionIds, NEW data \in QuestionData, UpdateNode(q, data)
      PROVE  WellFormed(tree')
  BY <1>3, QuestionFacts, QuestionDataAssumption DEF UpdateNode
<1>4. ASSUME NEW n \in NodeIds, DeleteNode(n)
      PROVE  WellFormed(tree')
  BY <1>4, WithoutNodeFacts DEF DeleteNode
<1>5. ASSUME NEW s \in NodeIds, NEW d \in NodeIds, NEW c \in Conditions, CreateEdge(s, d, c)
      PROVE  WellFormed(tree')
  <2>1. {<<s, c>>} \in SUBSET (Nodes(tree) \X Conditions) /\ d \in Nodes(tree)
    BY <1>5 DEF CreateEdge
  <2> QED BY <1>5, <2>1, WiredFacts DEF CreateEdge
<1>6. ASSUME NEW e \in Edges(tree), NEW d \in NodeIds, NEW c \in Conditions,
             UpdateEdge(e, d, c)
      PROVE  WellFormed(tree')
  <2> DEFINE f == NewEdge(e.source, d, c)
  <2>1. f \in Between(tree)
    BY <1>1, <1>6 DEF UpdateEdge, NewEdge, Between
  <2> HIDE DEF f
  <2>2. /\ IsABag(BagAdd(BagRemove(B, e), f))
        /\ DOMAIN BagAdd(BagRemove(B, e), f) \subseteq Between(tree)
    <3> DEFINE R == BagRemove(B, e)
    <3>1. IsABag(R) /\ DOMAIN R \subseteq Between(tree)
      BY <1>1, BagFacts
    <3> HIDE DEF R
    <3>2. IsABag(BagAdd(R, f)) /\ DOMAIN BagAdd(R, f) = DOMAIN R \cup {f}
      BY <3>1, BagFacts
    <3> QED BY <3>1, <3>2, <2>1 DEF R
  <2>3. tree' = [tree EXCEPT !.edges = BagAdd(BagRemove(B, e), f)]
    BY <1>6 DEF UpdateEdge, Redirected, B, f
  <2> QED BY <2>2, <2>3, EdgeFacts
<1>7. ASSUME NEW e \in Edges(tree), DeleteEdge(e)
      PROVE  WellFormed(tree')
  <2>1. IsABag(BagRemoveAll(B, e)) /\ DOMAIN BagRemoveAll(B, e) \subseteq Between(tree)
    BY <1>1, BagFacts
  <2>2. tree' = [tree EXCEPT !.edges = BagRemoveAll(B, e)]
    BY <1>7 DEF DeleteEdge, WithoutEdge, B
  <2> QED BY <2>1, <2>2, EdgeFacts
<1> QED BY <1>2, <1>3, <1>4, <1>5, <1>6, <1>7 DEF Edit

\* The edges of a draft join its nodes, whatever is edited.
THEOREM DraftsAreWellFormed == Spec => []TypeOK
<1>1. Init => TypeOK
  BY StartTreesAssumption DEF Init, TypeOK
<1>2. TypeOK /\ [Next]_tree => TypeOK'
  <2>1. ASSUME TypeOK, Next PROVE TypeOK'
    BY <2>1, EditFacts DEF TypeOK, Next
  <2>2. ASSUME TypeOK, UNCHANGED tree PROVE TypeOK'
    BY <2>2 DEF TypeOK, WellFormed, Nodes, Asked, Edges
  <2> QED BY <2>1, <2>2
<1> QED BY <1>1, <1>2, PTL DEF Spec

\* Creating a node never gives a draft its second entry.
THEOREM CreationIsSingleEntry == Spec => CreationKeepsOneEntry
<1>1. TypeOK => [CreatesNode /\ AtMostOneEntry(tree) => AtMostOneEntry(tree')]_tree
  <2> SUFFICES ASSUME TypeOK, CreatesNode, AtMostOneEntry(tree) PROVE AtMostOneEntry(tree')
    OBVIOUS
  <2> QED BY CreationFacts DEF TypeOK
<1> QED BY <1>1, DraftsAreWellFormed, PTL DEF Spec, CreationKeepsOneEntry

-----------------------------------------------------------------------------
(* What ReachableFrom reaches.                                             *)

Pairs(t) == {<<e.source, e.target>> : e \in Edges(t)}

\* The targets of edges that leave a set of nodes, as heads of pairs.
LEMMA TargetsAreHeads ==
  ASSUME NEW t, NEW X
  PROVE  Targets({e \in Edges(t) : e.source \in X}) = Heads(Pairs(t), X)
<1>1. ASSUME NEW e \in Edges(t), e.source \in X
      PROVE  e.target \in Heads(Pairs(t), X)
  <2>1. /\ <<e.source, e.target>> \in Pairs(t)
        /\ <<e.source, e.target>>[1] = e.source /\ <<e.source, e.target>>[2] = e.target
    BY DEF Pairs
  <2> QED BY <1>1, <2>1 DEF Heads
<1>2. ASSUME NEW d \in Heads(Pairs(t), X)
      PROVE  \E e \in Edges(t) : e.source \in X /\ d = e.target
  BY DEF Heads, Pairs
<1> QED BY <1>1, <1>2 DEF Targets

\* ReachableFrom is the last of as many waves as there are nodes.
LEMMA ReachableIsAWave ==
  ASSUME NEW t, NEW S
  PROVE  \E f : Spreads(Pairs(t), S, f) /\ ReachableFrom(t, S) = f[Cardinality(Nodes(t))]
<1> DEFINE wave[k \in Nat] ==
             IF k = 0 THEN S
             ELSE LET before == wave[k - 1]
                  IN  before \cup Targets({e \in Edges(t) : e.source \in before})
<1>1. ReachableFrom(t, S) = wave[Cardinality(Nodes(t))]
  BY DEF ReachableFrom
<1>2. PICK f : WavesAlong(Pairs(t), S, f)
  BY WavesExist
<1>3. \E g : g = [k \in Nat |-> IF k = 0 THEN S
                 ELSE LET before == g[k - 1]
                      IN  before \cup Targets({e \in Edges(t) : e.source \in before})]
  BY <1>2, TargetsAreHeads DEF WavesAlong
<1>4. wave = [k \in Nat |-> IF k = 0 THEN S
             ELSE LET before == wave[k - 1]
                  IN  before \cup Targets({e \in Edges(t) : e.source \in before})]
  BY <1>3 DEF wave
<1> HIDE DEF wave
<1>5. WavesAlong(Pairs(t), S, wave)
  BY <1>4, TargetsAreHeads DEF WavesAlong
<1>6. Spreads(Pairs(t), S, wave)
  BY <1>5, WavesSpread
<1> QED BY <1>1, <1>6

\* It holds the nodes it starts from and is closed under the edges, ...
LEMMA ReachableIsClosed ==
  ASSUME NEW t, WellFormed(t), NEW S
  PROVE  /\ S \subseteq ReachableFrom(t, S)
         /\ \A e \in Edges(t) : e.source \in ReachableFrom(t, S) => e.target \in ReachableFrom(t, S)
<1>1. PICK f : Spreads(Pairs(t), S, f) /\ ReachableFrom(t, S) = f[Cardinality(Nodes(t))]
  BY ReachableIsAWave
<1>2. IsFiniteSet(Nodes(t)) /\ \A p \in Pairs(t) : p[1] \in Nodes(t)
  BY DEF WellFormed, Pairs
<1>3. Closed(Pairs(t), ReachableFrom(t, S))
  BY <1>1, <1>2, WavesEnd
<1>4. Cardinality(Nodes(t)) \in Nat
  BY <1>2, FS_CardinalityType
<1>5. f[0] \subseteq f[Cardinality(Nodes(t))]
  BY <1>1, <1>4, WavesGrow
<1>6. S \subseteq ReachableFrom(t, S)
  BY <1>1, <1>5 DEF Spreads
<1>7. Targets({e \in Edges(t) : e.source \in ReachableFrom(t, S)}) \subseteq ReachableFrom(t, S)
  BY <1>3, TargetsAreHeads DEF Closed
<1>8. ASSUME NEW e \in Edges(t), e.source \in ReachableFrom(t, S)
      PROVE  e.target \in Targets({x \in Edges(t) : x.source \in ReachableFrom(t, S)})
  BY <1>8 DEF Targets
<1> QED BY <1>6, <1>7, <1>8

\* ... and nothing that is both is smaller.
LEMMA ReachableIsLeast ==
  ASSUME NEW t, WellFormed(t), NEW S, NEW D, S \subseteq D,
         \A e \in Edges(t) : e.source \in D => e.target \in D
  PROVE  ReachableFrom(t, S) \subseteq D
<1>1. PICK f : Spreads(Pairs(t), S, f) /\ ReachableFrom(t, S) = f[Cardinality(Nodes(t))]
  BY ReachableIsAWave
<1>2. Cardinality(Nodes(t)) \in Nat
  BY FS_CardinalityType DEF WellFormed
<1>3. Targets({e \in Edges(t) : e.source \in D}) \subseteq D
  BY DEF Targets
<1>4. Closed(Pairs(t), D)
  BY <1>3, TargetsAreHeads DEF Closed
<1> QED BY <1>1, <1>2, <1>4, WavesStayIn

\* The nodes after a node, and those before it.
After(t, n)  == ReachableFrom(t, Targets(Out(t, n)))
Before(t, n) == {m \in Nodes(t) : n \in After(t, m)}

\* What comes after the end of an edge comes after its start.
LEMMA EdgesLeadOn ==
  ASSUME NEW t, WellFormed(t), NEW e \in Edges(t)
  PROVE  e.target \in After(t, e.source) /\ After(t, e.target) \subseteq After(t, e.source)
<1> DEFINE D == After(t, e.source)
<1>1. Targets(Out(t, e.source)) \subseteq D
      /\ \A x \in Edges(t) : x.source \in D => x.target \in D
  BY ReachableIsClosed DEF After
<1>2. e.target \in D
  BY <1>1 DEF Targets, Out
<1>3. Targets(Out(t, e.target)) \subseteq D
  BY <1>1, <1>2 DEF Targets, Out
<1> HIDE DEF D
<1>4. ReachableFrom(t, Targets(Out(t, e.target))) \subseteq D
  BY <1>1, <1>3, ReachableIsLeast
<1> QED BY <1>2, <1>4 DEF After, D

-----------------------------------------------------------------------------
(* What publication validation says of a draft, in the form used below.    *)

Publishable(t) ==
  /\ \E n \in Asked(t) : EntryNodes(t) = {n}
  /\ Nodes(t) \subseteq ReachableFrom(t, EntryNodes(t))
  /\ \A n \in Nodes(t) : n \notin After(t, n)
  /\ \A e \in Edges(t) : e.source \in Asked(t)
  /\ \A q \in Asked(t) : /\ ConditionsOf(Out(t, q)) \subseteq t.questions[q].options
                         /\ DefaultsOf(Out(t, q)) = {} =>
                              t.questions[q].options \subseteq ConditionsOf(Out(t, q))

\* PublicationValid says all of that, and more.
LEMMA ValidMeansPublishable ==
  ASSUME NEW t, WellFormed(t), PublicationValid(t)
  PROVE  Publishable(t)
<1> USE DEF PublicationValid
<1>1. \E n \in Asked(t) : EntryNodes(t) = {n}
  BY DEF ContractHolds, StrictValid
<1>2. Nodes(t) \subseteq ReachableFrom(t, EntryNodes(t))
  BY DEF StructureWarnings
<1>3. \A n \in Nodes(t) : n \notin After(t, n)
  BY DEF StructureWarnings, HasCycle, After
<1>4. \A c \in t.conclusions : Out(t, c) = {}
  BY DEF StructureWarnings
<1>5. t.conclusions # {}
  BY FS_EmptySet DEF ContractHolds
<1>6. \A q \in Asked(t) : Out(t, q) # {}
  BY <1>5 DEF ContractHolds, StrictValid
<1>7. \A q \in Asked(t) : ConditionsOf(Out(t, q)) \subseteq t.questions[q].options
  BY DEF EditingErrors, EdgeConditionError
<1>8. \A q \in Asked(t) : DefaultsOf(Out(t, q)) = {} => Uncovered(t, q) = {}
  BY <1>6 DEF ContractHolds, StrictValid
<1>9. \A e \in Edges(t) : e.source \in Asked(t)
  <2>1. \A e \in Edges(t) : e.source \in Nodes(t) /\ e \in Out(t, e.source)
    BY DEF WellFormed, Out
  <2> QED BY <1>4, <2>1 DEF Nodes
<1> QED BY <1>1, <1>2, <1>3, <1>7, <1>8, <1>9 DEF Publishable, Uncovered

\* Every answer leads on from a question of a draft that can be published.
LEMMA AnswersLeadOn ==
  ASSUME NEW t, WellFormed(t), Publishable(t), NEW q \in Asked(t),
         NEW o \in t.questions[q].options
  PROVE  /\ NextNodes(t, q, o) # {}
         /\ NextNodes(t, q, o) \subseteq Targets(Out(t, q))
<1> DEFINE defaults == DefaultsOf(Out(t, q))
           matching == {e \in Out(t, q) \ defaults : Fold[e.condition] = Fold[o]}
<1>1. NextNodes(t, q, o) = Targets(IF matching # {} THEN matching ELSE defaults)
  BY DEF NextNodes
<1>2. matching # {} \/ defaults # {}
  <2> SUFFICES ASSUME defaults = {}
               PROVE  matching # {}
    OBVIOUS
  <2>1. o \in ConditionsOf(Out(t, q))
    BY DEF Publishable
  <2>2. PICK e \in Out(t, q) : e.condition = o /\ o # DefaultGuard
    BY <2>1 DEF ConditionsOf
  <2>3. e \notin defaults
    BY <2>2 DEF DefaultsOf
  <2>4. Fold[e.condition] = Fold[o]
    BY <2>2
  <2> QED BY <2>2, <2>3, <2>4
<1>3. defaults \subseteq Out(t, q) /\ matching \subseteq Out(t, q)
  BY DEF DefaultsOf
<1> HIDE DEF defaults, matching
<1> QED BY <1>1, <1>2, <1>3 DEF Targets

-----------------------------------------------------------------------------
(* The walk.                                                               *)

StepFrom(t, w, n) ==
  IF n \in Asked(t) /\ NextNodes(t, n, w[n]) # {} THEN NextNodes(t, n, w[n]) ELSE {n}

OneStep(t, w, X) == UNION {StepFrom(t, w, n) : n \in X}

IsWalk(t, w, f) ==
  f = [k \in Nat |-> IF k = 0 THEN EntryNodes(t) ELSE OneStep(t, w, f[k - 1])]

\* Steps lead to nodes of the draft.
LEMMA StepsStay ==
  ASSUME NEW t, WellFormed(t), NEW w, NEW X, X \subseteq Nodes(t)
  PROVE  OneStep(t, w, X) \subseteq Nodes(t)
<1>1. ASSUME NEW n \in X
      PROVE  StepFrom(t, w, n) \subseteq Nodes(t)
  <2>1. NextNodes(t, n, w[n]) \subseteq Targets(Edges(t))
    BY DEF NextNodes, Targets, Out, DefaultsOf
  <2>2. Targets(Edges(t)) \subseteq Nodes(t)
    BY DEF Targets, WellFormed
  <2> QED BY <2>1, <2>2 DEF StepFrom
<1> QED BY <1>1 DEF OneStep

\* WalkEnds is where one stands after as many steps as there are nodes.
LEMMA WalkEndsIsAWalk ==
  ASSUME NEW t, WellFormed(t), NEW w
  PROVE  \E f : IsWalk(t, w, f) /\ WalkEnds(t, w) = f[Cardinality(Nodes(t))]
<1>1. \E f : IsWalk(t, w, f)
  <2> DEFINE St == [X \in SUBSET Nodes(t) |-> OneStep(t, w, X)]
  <2>1. St \in [SUBSET Nodes(t) -> SUBSET Nodes(t)]
    BY StepsStay
  <2>2. \A X \in SUBSET Nodes(t) : St[X] = OneStep(t, w, X)
    OBVIOUS
  <2>3. EntryNodes(t) \in SUBSET Nodes(t)
    BY DEF EntryNodes
  <2> HIDE DEF St
  <2>4. PICK f : Computes(Nodes(t), EntryNodes(t), St, f)
    BY <2>1, <2>3, AllComputed
  <2>5. /\ f \in [Nat -> SUBSET Nodes(t)]
        /\ \A n \in Nat : f[n] = IF n = 0 THEN EntryNodes(t) ELSE St[f[n - 1]]
    BY <2>4 DEF Computes
  <2>6. \A n \in Nat : n # 0 => f[n - 1] \in SUBSET Nodes(t)
    BY <2>5
  <2>7. \A n \in Nat : f[n] = IF n = 0 THEN EntryNodes(t) ELSE OneStep(t, w, f[n - 1])
    BY <2>2, <2>5, <2>6
  <2>8. IsWalk(t, w, f)
    BY <2>5, <2>7 DEF IsWalk
  <2> QED BY <2>8
<1> DEFINE step(n) == IF n \in Asked(t) /\ NextNodes(t, n, w[n]) # {}
                      THEN NextNodes(t, n, w[n]) ELSE {n}
           stand[k \in Nat] ==
             IF k = 0 THEN EntryNodes(t) ELSE UNION {step(n) : n \in stand[k - 1]}
<1>2. WalkEnds(t, w) = stand[Cardinality(Nodes(t))]
  BY DEF WalkEnds
<1>3. stand = [k \in Nat |->
                IF k = 0 THEN EntryNodes(t) ELSE UNION {step(n) : n \in stand[k - 1]}]
  BY <1>1 DEF stand, IsWalk, OneStep, StepFrom
<1> HIDE DEF stand
<1>4. IsWalk(t, w, stand)
  BY <1>3 DEF IsWalk, OneStep, StepFrom
<1> QED BY <1>2, <1>4

\* Walks, one step at a time.
LEMMA WalkSteps ==
  ASSUME NEW t, NEW w, NEW f, IsWalk(t, w, f)
  PROVE  f[0] = EntryNodes(t) /\ \A n \in Nat : f[n + 1] = OneStep(t, w, f[n])
<1>1. \A n \in Nat : f[n] = IF n = 0 THEN EntryNodes(t) ELSE OneStep(t, w, f[n - 1])
  BY DEF IsWalk
<1>2. \A n \in Nat : n + 1 \in Nat /\ n + 1 # 0 /\ (n + 1) - 1 = n
  OBVIOUS
<1> QED BY <1>1, <1>2

\* The nodes before the target of an edge are those before its source, and
\* the source itself.
LEMMA OneMoreBefore ==
  ASSUME NEW t, WellFormed(t), Publishable(t), NEW e \in Edges(t)
  PROVE  /\ Cardinality(Before(t, e.source)) \in Nat /\ Cardinality(Before(t, e.target)) \in Nat
         /\ Cardinality(Before(t, e.target)) > Cardinality(Before(t, e.source))
<1> DEFINE q == e.source
           B == Before(t, q)
<1>1. q \in Nodes(t) /\ IsFiniteSet(Nodes(t))
  BY DEF WellFormed
<1>2. B \subseteq Nodes(t) /\ q \notin B /\ Before(t, e.target) \subseteq Nodes(t)
  BY <1>1 DEF Before, Publishable
<1>3. B \cup {q} \subseteq Before(t, e.target)
  <2>1. e.target \in After(t, q)
    BY EdgesLeadOn
  <2>2. ASSUME NEW m \in B
        PROVE  e.target \in After(t, m)
    <3>1. q \in ReachableFrom(t, Targets(Out(t, m)))
      BY DEF Before, After
    <3>2. e.target \in ReachableFrom(t, Targets(Out(t, m)))
      BY <3>1, ReachableIsClosed
    <3> QED BY <3>2 DEF After
  <2> QED BY <1>1, <1>2, <2>1, <2>2 DEF Before
<1> HIDE DEF B, q
<1>4. IsFiniteSet(B) /\ IsFiniteSet(Before(t, e.target))
  BY <1>1, <1>2, FS_Subset
<1>5. Cardinality(B \cup {q}) = Cardinality(B) + 1 /\ IsFiniteSet(B \cup {q})
  BY <1>2, <1>4, FS_AddElement
<1>6. Cardinality(B \cup {q}) <= Cardinality(Before(t, e.target))
  BY <1>3, <1>4, FS_Subset
<1>7. Cardinality(B) \in Nat /\ Cardinality(Before(t, e.target)) \in Nat
  BY <1>4, FS_CardinalityType
<1> QED BY <1>5, <1>6, <1>7 DEF B, q

\* What a walk that answers every question does: it stands somewhere, and at
\* a question only if it has come past as many as it took steps.
LEMMA WalksMoveOn ==
  ASSUME NEW t, WellFormed(t), Publishable(t), NEW w \in Worlds(CompiledIR(t)),
         NEW f, IsWalk(t, w, f), NEW k \in Nat
  PROVE  /\ f[k] # {} /\ f[k] \subseteq Nodes(t)
         /\ \A n \in f[k] \cap Asked(t) : Cardinality(Before(t, n)) \in Nat
                                          /\ Cardinality(Before(t, n)) >= k
<1> DEFINE Fine(i) == /\ f[i] # {} /\ f[i] \subseteq Nodes(t)
                      /\ \A n \in f[i] \cap Asked(t) : Cardinality(Before(t, n)) \in Nat
                                                       /\ Cardinality(Before(t, n)) >= i
           N == {i \in Nat : Fine(i)}
<1>1. f[0] = EntryNodes(t) /\ \A n \in Nat : f[n + 1] = OneStep(t, w, f[n])
  BY WalkSteps
<1>2. \A q \in Asked(t) : w[q] \in t.questions[q].options
  BY DEF Worlds, CompiledIR
<1>3. \A n : Cardinality(Before(t, n)) \in Nat
  <2> SUFFICES ASSUME NEW n
               PROVE  Cardinality(Before(t, n)) \in Nat
    OBVIOUS
  <2>1. Before(t, n) \subseteq Nodes(t) /\ IsFiniteSet(Nodes(t))
    BY DEF Before, WellFormed
  <2> QED BY <2>1, FS_Subset, FS_CardinalityType
<1>4. Fine(0)
  <2>1. EntryNodes(t) # {} /\ EntryNodes(t) \subseteq Nodes(t)
    BY DEF Publishable, EntryNodes
  <2> QED BY <1>1, <1>3, <2>1
<1>5. ASSUME NEW i \in Nat, Fine(i)
      PROVE  Fine(i + 1)
  <2>1. f[i + 1] \subseteq Nodes(t)
    BY <1>1, <1>5, StepsStay
  <2>2. f[i + 1] # {}
    <3>1. \A n : StepFrom(t, w, n) # {}
      BY DEF StepFrom
    <3> QED BY <1>1, <1>5, <3>1 DEF OneStep
  <2>3. ASSUME NEW n \in f[i + 1], n \in Asked(t)
        PROVE  Cardinality(Before(t, n)) >= i + 1
    <3>1. PICK m \in f[i] : n \in StepFrom(t, w, m)
      BY <1>1 DEF OneStep
    <3>2. m \in Asked(t)
      BY <2>3, <3>1 DEF StepFrom
    <3>3. StepFrom(t, w, m) \subseteq Targets(Out(t, m))
      BY <1>2, <3>2, AnswersLeadOn DEF StepFrom
    <3>4. PICK e \in Edges(t) : e.source = m /\ e.target = n
      BY <3>1, <3>3 DEF Targets, Out
    <3>5. Cardinality(Before(t, m)) >= i /\ Cardinality(Before(t, m)) \in Nat
      BY <1>5, <3>2
    <3>6. Cardinality(Before(t, n)) > Cardinality(Before(t, m)) /\ Cardinality(Before(t, n)) \in Nat
      BY <3>4, OneMoreBefore
    <3> QED BY <3>5, <3>6
  <2> QED BY <1>3, <2>1, <2>2, <2>3
<1> HIDE DEF Fine
<1>6. N = Nat
  <2>1. N \subseteq Nat /\ 0 \in N /\ \A i \in N : i + 1 \in N
    BY <1>4, <1>5
  <2> HIDE DEF N
  <2> QED BY <2>1, SetInduction
<1>7. Fine(k)
  BY <1>6
<1> QED BY <1>7 DEF Fine

\* So after as many steps as there are nodes it stands at conclusions.
LEMMA WalksConclude ==
  ASSUME NEW t, WellFormed(t), Publishable(t), NEW w \in Worlds(CompiledIR(t))
  PROVE  WalkEnds(t, w) # {} /\ WalkEnds(t, w) \subseteq t.conclusions \ Asked(t)
<1> DEFINE K == Cardinality(Nodes(t))
<1>1. PICK f : IsWalk(t, w, f) /\ WalkEnds(t, w) = f[K]
  BY WalkEndsIsAWalk
<1>2. IsFiniteSet(Nodes(t)) /\ K \in Nat
  BY FS_CardinalityType DEF WellFormed
<1> HIDE DEF K
<1>3. /\ f[K] # {} /\ f[K] \subseteq Nodes(t)
      /\ \A n \in f[K] \cap Asked(t) : Cardinality(Before(t, n)) \in Nat
                                       /\ Cardinality(Before(t, n)) >= K
  BY <1>1, <1>2, WalksMoveOn
<1>4. ASSUME NEW n \in f[K], n \in Asked(t)
      PROVE  FALSE
  <2>1. n \in Nodes(t) /\ Before(t, n) \subseteq Nodes(t) /\ n \notin Before(t, n)
    BY <1>4 DEF Before, Publishable, Nodes
  <2>2. /\ Cardinality(Before(t, n)) <= Cardinality(Nodes(t))
        /\ (Cardinality(Before(t, n)) = Cardinality(Nodes(t)) => Before(t, n) = Nodes(t))
    BY <1>2, <2>1, FS_Subset
  <2>3. Cardinality(Before(t, n)) \in Nat /\ Cardinality(Before(t, n)) >= K
    BY <1>3, <1>4
  <2>4. Cardinality(Before(t, n)) # K
    BY <2>1, <2>2 DEF K
  <2>5. Cardinality(Before(t, n)) <= K
    BY <2>2 DEF K
  <2> QED BY <1>2, <2>3, <2>4, <2>5
<1> QED BY <1>1, <1>3, <1>4 DEF Nodes

-----------------------------------------------------------------------------
(* The theory.                                                             *)

\* The compiled tree has the questions, the entry and the edges of the draft.
LEMMA CompiledFacts ==
  ASSUME NEW t, WellFormed(t), Publishable(t)
  PROVE  LET ir == CompiledIR(t)
         IN  /\ ir.questions = Asked(t) /\ IsFiniteSet(ir.questions)
             /\ ir.conclusions = t.conclusions
             /\ \A q \in Asked(t) : ir.options[q] = t.questions[q].options
             /\ EntryNodes(t) = {ir.entry} /\ ir.entry \in Asked(t)
             /\ \A x \in ir.edges : \E e \in Edges(t) :
                  x.src = e.source /\ x.on = e.condition /\ x.dst = e.target
             /\ \A e \in Edges(t) : \E x \in ir.edges :
                  x.src = e.source /\ x.on = e.condition /\ x.dst = e.target
             /\ \A x \in ir.edges : x.src \in ir.questions
<1> DEFINE ir == CompiledIR(t)
<1>1. /\ ir.questions = Asked(t) /\ ir.conclusions = t.conclusions
      /\ ir.options = [q \in Asked(t) |-> t.questions[q].options]
      /\ ir.entry = CHOOSE n \in EntryNodes(t) : TRUE
      /\ ir.edges = {[src |-> e.source, on |-> e.condition, dst |-> e.target] : e \in Edges(t)}
  BY DEF CompiledIR
<1> HIDE DEF ir
<1>2. Asked(t) \subseteq Nodes(t) /\ IsFiniteSet(Nodes(t))
  BY DEF Nodes, WellFormed
<1>3. IsFiniteSet(ir.questions)
  BY <1>1, <1>2, FS_Subset
<1>4. EntryNodes(t) = {ir.entry} /\ ir.entry \in Asked(t)
  BY <1>1 DEF Publishable
<1>5. \A x \in ir.edges : \E e \in Edges(t) :
        x.src = e.source /\ x.on = e.condition /\ x.dst = e.target
  BY <1>1
<1>6. \A e \in Edges(t) : \E x \in ir.edges :
        x.src = e.source /\ x.on = e.condition /\ x.dst = e.target
  <2> SUFFICES ASSUME NEW e \in Edges(t)
               PROVE  \E x \in ir.edges :
                        x.src = e.source /\ x.on = e.condition /\ x.dst = e.target
    OBVIOUS
  <2> DEFINE x == [src |-> e.source, on |-> e.condition, dst |-> e.target]
  <2>1. x \in ir.edges
    BY <1>1
  <2>2. x.src = e.source /\ x.on = e.condition /\ x.dst = e.target
    OBVIOUS
  <2> HIDE DEF x
  <2> QED BY <2>1, <2>2
<1>7. \A x \in ir.edges : x.src \in ir.questions
  BY <1>1, <1>5 DEF Publishable
<1>8. \A q \in Asked(t) : ir.options[q] = t.questions[q].options
  BY <1>1
<1> QED BY <1>1, <1>3, <1>4, <1>5, <1>6, <1>7, <1>8 DEF ir

\* What the compiled theory reaches, in terms of the draft: ...
LEMMA ReachedAlongEdges ==
  ASSUME NEW t, WellFormed(t), Publishable(t), NEW w
  PROVE  LET R == Reached(CompiledIR(t), w)
         IN  /\ EntryNodes(t) \subseteq R
             /\ \A e \in Edges(t) :
                  e.source \in R /\ (e.condition = DefaultGuard \/ w[e.source] = e.condition)
                    => e.target \in R
<1> DEFINE ir == CompiledIR(t)
<1>1. /\ IsFiniteSet(ir.questions) /\ EntryNodes(t) = {ir.entry}
      /\ \A e \in Edges(t) : \E x \in ir.edges :
           x.src = e.source /\ x.on = e.condition /\ x.dst = e.target
      /\ \A x \in ir.edges : x.src \in ir.questions
  BY CompiledFacts
<1> HIDE DEF ir
<1>2. /\ ir.entry \in Reached(ir, w)
      /\ \A e \in OpenEdges(ir, w) : e.src \in Reached(ir, w) => e.dst \in Reached(ir, w)
  BY <1>1, ReachedIsClosed
<1>3. ASSUME NEW e \in Edges(t), e.source \in Reached(ir, w),
             e.condition = DefaultGuard \/ w[e.source] = e.condition
      PROVE  e.target \in Reached(ir, w)
  <2>1. PICK x \in ir.edges : x.src = e.source /\ x.on = e.condition /\ x.dst = e.target
    BY <1>1
  <2>2. x \in OpenEdges(ir, w)
    BY <1>3, <2>1 DEF OpenEdges
  <2> QED BY <1>2, <1>3, <2>1, <2>2
<1> QED BY <1>1, <1>2, <1>3 DEF ir

\* ... all that open edges lead to, and no more.
LEMMA NoMoreIsReached ==
  ASSUME NEW t, WellFormed(t), Publishable(t), NEW w, NEW D, EntryNodes(t) \subseteq D,
         \A e \in Edges(t) :
           e.source \in D /\ (e.condition = DefaultGuard \/ w[e.source] = e.condition)
             => e.target \in D
  PROVE  Reached(CompiledIR(t), w) \subseteq D
<1> DEFINE ir == CompiledIR(t)
<1>1. /\ IsFiniteSet(ir.questions) /\ EntryNodes(t) = {ir.entry}
      /\ \A x \in ir.edges : \E e \in Edges(t) :
           x.src = e.source /\ x.on = e.condition /\ x.dst = e.target
  BY CompiledFacts
<1> HIDE DEF ir
<1>2. ASSUME NEW x \in OpenEdges(ir, w), x.src \in D
      PROVE  x.dst \in D
  <2>1. x \in ir.edges /\ (x.on = DefaultGuard \/ w[x.src] = x.on)
    BY DEF OpenEdges
  <2>2. PICK e \in Edges(t) : x.src = e.source /\ x.on = e.condition /\ x.dst = e.target
    BY <1>1, <2>1
  <2> QED BY <1>2, <2>1, <2>2
<1>3. ir.entry \in D
  BY <1>1
<1>4. Reached(ir, w) \subseteq D
  BY <1>1, <1>2, <1>3, ReachedIsLeast
<1> QED BY <1>4 DEF ir

\* What some answers reach they still reach when the answer to a question
\* they reach is another: the way to it does not depend on it.
LEMMA WayToAQuestion ==
  ASSUME NEW t, WellFormed(t), Publishable(t), NEW v, NEW w, NEW q \in Asked(t),
         \A p \in Asked(t) \ {q} : v[p] = w[p], q \in Reached(CompiledIR(t), w)
  PROVE  q \in Reached(CompiledIR(t), v)
<1> DEFINE R == Reached(CompiledIR(t), v)
           D == {m \in Nodes(t) : (m = q \/ q \in After(t, m)) => m \in R}
<1>1. EntryNodes(t) \subseteq D
  BY ReachedAlongEdges DEF EntryNodes
<1>2. ASSUME NEW e \in Edges(t), e.source \in D,
             e.condition = DefaultGuard \/ w[e.source] = e.condition
      PROVE  e.target \in D
  <2>1. e.target \in Nodes(t) /\ e.source \in Asked(t)
    BY DEF WellFormed, Publishable
  <2> SUFFICES ASSUME e.target = q \/ q \in After(t, e.target)
               PROVE  e.target \in R
    BY <2>1
  <2>2. q \in After(t, e.source)
    BY EdgesLeadOn
  <2>3. e.source \in R
    BY <1>2, <2>2
  <2>4. e.source # q
    BY <2>1, <2>2 DEF Publishable, Nodes
  <2>5. v[e.source] = w[e.source]
    BY <2>1, <2>4
  <2> QED BY <1>2, <2>3, <2>5, ReachedAlongEdges
<1>3. Reached(CompiledIR(t), w) \subseteq D
  <2> HIDE DEF D
  <2> QED BY <1>1, <1>2, NoMoreIsReached
<1> QED BY <1>3

\* So every node is reached by some answers.
LEMMA EveryNodeIsReached ==
  ASSUME NEW t, WellFormed(t), Publishable(t), NEW n \in Nodes(t)
  PROVE  \E w \in Worlds(CompiledIR(t)) : n \in Reached(CompiledIR(t), w)
<1> DEFINE ir == CompiledIR(t)
           Good == {m \in Nodes(t) : \E w \in Worlds(ir) : m \in Reached(ir, w)}
<1>1. /\ ir.questions = Asked(t) /\ \A q \in Asked(t) : ir.options[q] = t.questions[q].options
  BY CompiledFacts
<1>2. \A q \in Asked(t) : t.questions[q].options # {}
  BY DEF WellFormed, Question
<1> HIDE DEF ir
<1>3. PICK w \in Worlds(ir) : TRUE
  <2> DEFINE w0 == [q \in Asked(t) |-> CHOOSE o \in ir.options[q] : TRUE]
  <2>1. \A q \in Asked(t) : w0[q] \in ir.options[q]
    BY <1>1, <1>2
  <2>2. w0 \in [Asked(t) -> UNION {ir.options[q] : q \in Asked(t)}]
    BY <2>1
  <2> HIDE DEF w0
  <2>3. w0 \in Worlds(ir)
    BY <1>1, <2>1, <2>2 DEF Worlds
  <2> QED BY <2>3
<1>4. EntryNodes(t) \subseteq Good
  BY <1>3, ReachedAlongEdges DEF EntryNodes, ir
<1>5. ASSUME NEW e \in Edges(t), e.source \in Good
      PROVE  e.target \in Good
  <2>1. /\ e.source \in Asked(t) /\ e.target \in Nodes(t)
        /\ (e.condition = DefaultGuard \/ e.condition \in t.questions[e.source].options)
    BY DEF WellFormed, Publishable, ConditionsOf, Out
  <2>2. PICK u \in Worlds(ir) : e.source \in Reached(ir, u)
    BY <1>5
  <2> DEFINE o == IF e.condition = DefaultGuard THEN u[e.source] ELSE e.condition
             v == [q \in Asked(t) |-> IF q = e.source THEN o ELSE u[q]]
  <2>3. \A q \in Asked(t) : u[q] \in ir.options[q]
    BY <1>1, <2>2 DEF Worlds
  <2>4. \A q \in Asked(t) : v[q] \in ir.options[q]
    BY <1>1, <2>1, <2>3
  <2>5. v \in [Asked(t) -> UNION {ir.options[q] : q \in Asked(t)}]
    BY <2>4
  <2>6. (\A q \in Asked(t) \ {e.source} : v[q] = u[q]) /\ v[e.source] = o
    BY <2>1
  <2> HIDE DEF v, o
  <2>7. v \in Worlds(ir)
    BY <1>1, <2>4, <2>5 DEF Worlds
  <2>8. e.source \in Reached(ir, v)
    BY <2>1, <2>2, <2>6, WayToAQuestion DEF ir
  <2>9. e.condition = DefaultGuard \/ v[e.source] = e.condition
    BY <2>6 DEF o
  <2>10. e.target \in Reached(ir, v)
    BY <2>8, <2>9, ReachedAlongEdges DEF ir
  <2> QED BY <2>1, <2>7, <2>10
<1> HIDE DEF Good
<1>6. ReachableFrom(t, EntryNodes(t)) \subseteq Good
  BY <1>4, <1>5, ReachableIsLeast
<1>7. n \in Good
  BY <1>6 DEF Publishable
<1> QED BY <1>7 DEF Good, ir

-----------------------------------------------------------------------------
(* The walk against the theory.                                            *)

\* Where no two options differ in case alone a walk follows edges the theory
\* has open; where each answer has one route it follows all of them.
LEMMA WalksFollowOpenEdges ==
  ASSUME NEW t, WellFormed(t), Publishable(t), DistinctWhenFolded(t),
         NEW w, NEW q \in Asked(t), w[q] \in t.questions[q].options
  PROVE  /\ \A n \in StepFrom(t, w, q) : \E e \in Out(t, q) :
              e.target = n /\ (e.condition = DefaultGuard \/ w[q] = e.condition)
         /\ DefaultsOf(Edges(t)) = {} => \A e \in Out(t, q) :
              /\ e.condition # DefaultGuard
              /\ w[q] = e.condition => e.target \in StepFrom(t, w, q)
<1> DEFINE defaults == DefaultsOf(Out(t, q))
           matching == {e \in Out(t, q) \ defaults : Fold[e.condition] = Fold[w[q]]}
           taken    == IF matching # {} THEN matching ELSE defaults
<1>1. StepFrom(t, w, q) = Targets(taken)
  BY AnswersLeadOn DEF StepFrom, NextNodes
<1>2. \A e \in matching : w[q] = e.condition
  <2> SUFFICES ASSUME NEW e \in matching
               PROVE  w[q] = e.condition
    OBVIOUS
  <2>1. e \in Out(t, q) /\ e.condition # DefaultGuard /\ Fold[e.condition] = Fold[w[q]]
    BY DEF DefaultsOf
  <2>2. e.condition \in t.questions[q].options
    BY <2>1 DEF Publishable, ConditionsOf
  <2> QED BY <2>1, <2>2 DEF DistinctWhenFolded
<1>3. \A e \in taken : e \in Out(t, q) /\ (e.condition = DefaultGuard \/ w[q] = e.condition)
  BY <1>2 DEF DefaultsOf
<1>4. ASSUME DefaultsOf(Edges(t)) = {}, NEW e \in Out(t, q)
      PROVE  /\ e.condition # DefaultGuard
             /\ w[q] = e.condition => e \in taken
  BY <1>4 DEF DefaultsOf, Out
<1> HIDE DEF taken
<1> QED BY <1>1, <1>3, <1>4 DEF Targets

\* A walk stands where the theory reaches.
LEMMA WalksStayInReach ==
  ASSUME NEW t, WellFormed(t), Publishable(t), DistinctWhenFolded(t),
         NEW w \in Worlds(CompiledIR(t)), NEW f, IsWalk(t, w, f), NEW k \in Nat
  PROVE  f[k] \subseteq Reached(CompiledIR(t), w)
<1> DEFINE R == Reached(CompiledIR(t), w)
           N == {i \in Nat : f[i] \subseteq R}
<1>1. f[0] = EntryNodes(t) /\ \A n \in Nat : f[n + 1] = OneStep(t, w, f[n])
  BY WalkSteps
<1>2. \A q \in Asked(t) : w[q] \in t.questions[q].options
  BY DEF Worlds, CompiledIR
<1>3. /\ EntryNodes(t) \subseteq R
      /\ \A e \in Edges(t) :
           e.source \in R /\ (e.condition = DefaultGuard \/ w[e.source] = e.condition)
             => e.target \in R
  BY ReachedAlongEdges
<1> HIDE DEF R
<1>4. 0 \in N
  BY <1>1, <1>3
<1>5. ASSUME NEW i \in N
      PROVE  i + 1 \in N
  <2>1. ASSUME NEW n \in f[i + 1]
        PROVE  n \in R
    <3>1. PICK m \in f[i] : n \in StepFrom(t, w, m)
      BY <1>1 DEF OneStep
    <3>2. CASE m \in Asked(t)
      <4>1. PICK e \in Out(t, m) : e.target = n /\ (e.condition = DefaultGuard \/ w[m] = e.condition)
        BY <1>2, <3>1, <3>2, WalksFollowOpenEdges
      <4>2. e \in Edges(t) /\ e.source = m
        BY DEF Out
      <4> QED BY <1>3, <4>1, <4>2
    <3>3. CASE m \notin Asked(t)
      BY <3>1, <3>3 DEF StepFrom
    <3> QED BY <3>2, <3>3
  <2> QED BY <2>1
<1>6. N = Nat
  <2> HIDE DEF N
  <2>1. N \subseteq Nat
    BY DEF N
  <2> QED BY <1>4, <1>5, <2>1, SetInduction
<1> QED BY <1>6 DEF R

\* Where each answer has one route a walk stands at one node ...
LEMMA OneRouteOneNode ==
  ASSUME NEW t, WellFormed(t), Publishable(t), DistinctWhenFolded(t), OneRoutePerAnswer(t),
         NEW w \in Worlds(CompiledIR(t)), NEW f, IsWalk(t, w, f), NEW k \in Nat
  PROVE  \A m, n \in f[k] : m = n
<1> DEFINE N == {i \in Nat : \A m, n \in f[i] : m = n}
<1>1. f[0] = EntryNodes(t) /\ \A n \in Nat : f[n + 1] = OneStep(t, w, f[n])
  BY WalkSteps
<1>2. \A q \in Asked(t) : w[q] \in t.questions[q].options
  BY DEF Worlds, CompiledIR
<1>3. 0 \in N
  BY <1>1 DEF Publishable
<1>4. ASSUME NEW i \in N
      PROVE  i + 1 \in N
  <2>1. ASSUME NEW m \in f[i + 1], NEW n \in f[i + 1]
        PROVE  m = n
    <3>1. PICK p \in f[i] : m \in StepFrom(t, w, p) /\ n \in StepFrom(t, w, p)
      BY <1>1 DEF OneStep
    <3>2. CASE p \in Asked(t)
      <4>1. PICK e \in Out(t, p) : e.target = m /\ (e.condition = DefaultGuard \/ w[p] = e.condition)
        BY <1>2, <3>1, <3>2, WalksFollowOpenEdges
      <4>2. PICK d \in Out(t, p) : d.target = n /\ (d.condition = DefaultGuard \/ w[p] = d.condition)
        BY <1>2, <3>1, <3>2, WalksFollowOpenEdges
      <4>3. e.condition # DefaultGuard /\ d.condition # DefaultGuard
        BY DEF OneRoutePerAnswer, DefaultsOf, Out
      <4>4. e = d
        BY <4>1, <4>2, <4>3 DEF OneRoutePerAnswer, Out
      <4> QED BY <4>1, <4>2, <4>4
    <3>3. CASE p \notin Asked(t)
      BY <3>1, <3>3 DEF StepFrom
    <3> QED BY <3>2, <3>3
  <2> QED BY <2>1
<1>5. N = Nat
  <2>1. N \subseteq Nat
    OBVIOUS
  <2> HIDE DEF N
  <2> QED BY <1>3, <1>4, <2>1, SetInduction
<1> QED BY <1>5

\* ... and a walk at a conclusion stays there.
LEMMA WalksStayAtConclusions ==
  ASSUME NEW t, NEW w, NEW f, IsWalk(t, w, f), NEW k \in Nat, NEW n \in f[k], n \notin Asked(t),
         NEW j \in Nat
  PROVE  n \in f[k + j]
<1> DEFINE N == {i \in Nat : n \in f[k + i]}
<1>1. \A i \in Nat : f[i + 1] = OneStep(t, w, f[i])
  BY WalkSteps
<1>2. 0 \in N
  OBVIOUS
<1>3. ASSUME NEW i \in N
      PROVE  i + 1 \in N
  <2>1. f[(k + i) + 1] = OneStep(t, w, f[k + i])
    BY <1>1
  <2>2. n \in StepFrom(t, w, n)
    BY DEF StepFrom
  <2>3. n \in f[(k + i) + 1]
    BY <2>1, <2>2 DEF OneStep
  <2>4. (k + i) + 1 = k + (i + 1)
    OBVIOUS
  <2> QED BY <2>3, <2>4
<1>4. N = Nat
  <2>1. N \subseteq Nat
    OBVIOUS
  <2> HIDE DEF N
  <2> QED BY <1>2, <1>3, <2>1, SetInduction
<1> QED BY <1>4

\* With one route for each answer the theory reaches only where the walk
\* comes.
LEMMA TheoryFollowsTheWalk ==
  ASSUME NEW t, WellFormed(t), Publishable(t), DistinctWhenFolded(t), OneRoutePerAnswer(t),
         NEW w \in Worlds(CompiledIR(t)), NEW f, IsWalk(t, w, f)
  PROVE  Reached(CompiledIR(t), w) \subseteq UNION {f[k] : k \in Nat}
<1> DEFINE D == UNION {f[k] : k \in Nat}
<1>1. f[0] = EntryNodes(t) /\ \A n \in Nat : f[n + 1] = OneStep(t, w, f[n])
  BY WalkSteps
<1>2. \A q \in Asked(t) : w[q] \in t.questions[q].options
  BY DEF Worlds, CompiledIR
<1>3. EntryNodes(t) \subseteq D
  BY <1>1
<1>4. ASSUME NEW e \in Edges(t), e.source \in D,
             e.condition = DefaultGuard \/ w[e.source] = e.condition
      PROVE  e.target \in D
  <2>1. e.source \in Asked(t) /\ e \in Out(t, e.source)
    BY DEF Publishable, Out
  <2>2. PICK k \in Nat : e.source \in f[k]
    BY <1>4
  <2>3. DefaultsOf(Edges(t)) = {}
    BY DEF OneRoutePerAnswer
  <2>4. e.target \in StepFrom(t, w, e.source)
    BY <1>2, <1>4, <2>1, <2>3, WalksFollowOpenEdges
  <2>5. e.target \in f[k + 1] /\ k + 1 \in Nat
    BY <1>1, <2>2, <2>4 DEF OneStep
  <2> QED BY <2>5
<1> HIDE DEF D
<1>5. Reached(CompiledIR(t), w) \subseteq D
  BY <1>3, <1>4, NoMoreIsReached
<1> QED BY <1>5 DEF D

-----------------------------------------------------------------------------
(* The theorems about drafts that can be published.                        *)

\* Whatever is edited, a walk through a draft that passes publication
\* validation comes to a conclusion, whatever the answers and whichever of
\* several equally conditioned edges is taken.
THEOREM PublishedTreesConclude == Spec => []PublishableWalksConclude
<1>1. TypeOK => PublishableWalksConclude
  BY ValidMeansPublishable, WalksConclude DEF TypeOK, PublishableWalksConclude
<1> QED BY <1>1, DraftsAreWellFormed, PTL

\* The solver's gate refuses no draft that passes publication validation: its
\* IR is valid, its theory has a model, and every conclusion has one.
THEOREM GateNeverSurprises == Spec => []SolverGateAgreesWithValidation
<1>1. ASSUME TypeOK, PublicationValid(tree)
      PROVE  ReadyToDeploy(tree)
  <2> DEFINE ir == CompiledIR(tree)
             T == Theory(ir, NoAssumptions)
  <2>1. WellFormed(tree) /\ Publishable(tree)
    BY <1>1, ValidMeansPublishable DEF TypeOK
  <2>2. ValidIR(tree)
    <3>1. \A e \in Edges(tree) :
            /\ {e.source, e.target} \subseteq Nodes(tree)
            /\ e.source \in Asked(tree) =>
                 e.condition \in tree.questions[e.source].options \cup {DefaultGuard}
      BY <2>1 DEF WellFormed, Publishable, ConditionsOf, Out
    <3>2. ~ HasCycle(tree)
      BY <1>1 DEF PublicationValid, ContractHolds
    <3>3. Cardinality(EntryNodes(tree)) = 1
      BY <2>1, FS_Singleton DEF Publishable
    <3> QED BY <3>1, <3>2, <3>3 DEF ValidIR
  <2>3. \A w \in Worlds(ir) :
          [choice |-> w, concludes |-> Reached(ir, w) \cap ir.conclusions] \in T
    BY DEF Theory, NoAssumptions
  <2>4. ir.conclusions = tree.conclusions
    BY <2>1, CompiledFacts
  <2>5. \A n \in Nodes(tree) : \E w \in Worlds(ir) : n \in Reached(ir, w)
    BY <2>1, EveryNodeIsReached
  <2> HIDE DEF ir, T
  <2>6. T # {}
    <3>1. PICK n \in Nodes(tree) : TRUE
      BY <2>1 DEF Publishable, Nodes
    <3> QED BY <2>3, <2>5, <3>1
  <2>7. ASSUME NEW c \in tree.conclusions
        PROVE  \E m \in T : c \in m.concludes
    <3>1. PICK w \in Worlds(ir) : c \in Reached(ir, w)
      BY <2>5 DEF Nodes
    <3> QED BY <2>3, <2>4, <3>1
  <2>8. tree.conclusions \subseteq LiveConclusions(tree)
    BY <2>7 DEF LiveConclusions, T, ir
  <2> QED BY <1>1, <2>2, <2>6, <2>8 DEF ReadyToDeploy, T, ir
<1>2. TypeOK => SolverGateAgreesWithValidation
  BY <1>1 DEF SolverGateAgreesWithValidation
<1> QED BY <1>2, DraftsAreWellFormed, PTL

\* Where no two options differ in case alone, what a walk concludes the
\* theory concludes too; where moreover each answer has one route it concludes
\* nothing else.
THEOREM NavigationAgreesWithTheory == Spec => []WalkAgreesWithTheory
<1>1. ASSUME TypeOK, PublicationValid(tree), DistinctWhenFolded(tree),
             NEW w \in Worlds(CompiledIR(tree))
      PROVE  LET concluded == WalkEnds(tree, w) \cap tree.conclusions
                 entailed  == Reached(CompiledIR(tree), w) \cap tree.conclusions
             IN  /\ concluded \subseteq entailed
                 /\ OneRoutePerAnswer(tree) =>
                      concluded = entailed /\ Cardinality(entailed) = 1
  <2> DEFINE K == Cardinality(Nodes(tree))
             R == Reached(CompiledIR(tree), w)
             ends == WalkEnds(tree, w)
  <2>1. WellFormed(tree) /\ Publishable(tree)
    BY <1>1, ValidMeansPublishable DEF TypeOK
  <2>2. PICK f : IsWalk(tree, w, f) /\ ends = f[K]
    BY <2>1, WalkEndsIsAWalk
  <2>3. K \in Nat
    BY <2>1, FS_CardinalityType DEF WellFormed
  <2>4. ends # {} /\ ends \subseteq tree.conclusions \ Asked(tree)
    BY <2>1, WalksConclude
  <2> HIDE DEF K, R, ends
  <2>5. ends \subseteq R
    BY <1>1, <2>1, <2>2, <2>3, WalksStayInReach DEF R
  <2>6. ASSUME OneRoutePerAnswer(tree)
        PROVE  ends \cap tree.conclusions = R \cap tree.conclusions
               /\ Cardinality(R \cap tree.conclusions) = 1
    <3>1. \A k \in Nat : \A m, n \in f[k] : m = n
      BY <1>1, <2>1, <2>2, <2>6, OneRouteOneNode
    <3>2. PICK c \in ends : ends = {c}
      BY <2>2, <2>3, <2>4, <3>1
    <3>3. R \subseteq UNION {f[k] : k \in Nat}
      BY <1>1, <2>1, <2>2, <2>6, TheoryFollowsTheWalk DEF R
    <3>4. ASSUME NEW d \in R \cap tree.conclusions
          PROVE  d = c
      <4>1. PICK k \in Nat : d \in f[k]
        BY <3>3
      <4>2. d \notin Asked(tree) /\ c \notin Asked(tree) /\ c \in f[K]
        BY <1>1, <2>2, <2>4, <3>2, NodeIdsAssumption DEF TypeOK, WellFormed
      <4>3. CASE k <= K
        <5>1. K - k \in Nat /\ k + (K - k) = K
          BY <2>3, <4>3
        <5>2. d \in f[k + (K - k)]
          BY <2>2, <4>1, <4>2, <5>1, WalksStayAtConclusions
        <5> QED BY <2>3, <3>1, <4>2, <5>1, <5>2
      <4>4. CASE K < k
        <5>1. k - K \in Nat /\ K + (k - K) = k
          BY <2>3, <4>4
        <5>2. c \in f[K + (k - K)]
          BY <2>2, <2>3, <4>2, <5>1, WalksStayAtConclusions
        <5> QED BY <3>1, <4>1, <5>1, <5>2
      <4> QED BY <2>3, <4>3, <4>4
    <3>5. R \cap tree.conclusions = {c}
      BY <2>4, <2>5, <3>2, <3>4
    <3> QED BY <2>4, <3>2, <3>5, FS_Singleton
  <2> QED BY <2>5, <2>6 DEF R, ends
<1>2. TypeOK => WalkAgreesWithTheory
  BY <1>1 DEF WalkAgreesWithTheory
<1> QED BY <1>2, DraftsAreWellFormed, PTL

-----------------------------------------------------------------------------
(* The storage.                                                            *)

OwedIsSaved == owed \subseteq IF saved = None THEN {} ELSE saved

EditorsMissOnlyLateEdits ==
  \A r \in Requests : At(r, "editing") => owed \subseteq request[r].graph \cup request[r].late

CompilersPassedTheGate ==
  \A r \in Requests :
    request[r].pc \in {"compiling", "compiled"} => request[r].graph \in Deployable

\* A copy a request may save is a graph.
CopiesAreGraphs ==
  \A r \in Requests : request[r].pc \in {"editing", "fetched", "updated"}
                      => request[r].graph \in Graphs

DraftInv == /\ StorageTypeOK /\ CopiesAreGraphs /\ OwedIsSaved /\ EditorsMissOnlyLateEdits /\ CompilersPassedTheGate
            /\ DeploysAreIdempotent

Work == [pc : Pcs, graph : MaybeGraph, text : MaybeText, late : SUBSET Edits]

USE DeployableAssumption, NoneAssumption, BoundAssumption
-----------------------------------------------------------------------------
\* What a request carries is typed.
LEMMA WorkTyped ==
  ASSUME NEW pc \in Pcs, NEW g \in MaybeGraph, NEW t \in MaybeText, NEW l \in SUBSET Edits
  PROVE  Doing(pc, g, t, l) \in Work
BY DEF Doing, Work

\* A request that has not begun carries nothing.
LEMMA IdleTyped == Idle \in Work
BY WorkTyped DEF Idle, Doing, Work, Pcs, MaybeGraph, MaybeText

\* The initial states satisfy the invariant.
LEMMA InitInv == StorageInit => DraftInv
<1> SUFFICES ASSUME StorageInit PROVE DraftInv
    OBVIOUS
<1> USE DEF StorageInit
<1>1. StorageTypeOK
  <2>1. request \in [Requests -> Work]
    BY IdleTyped
  <2> QED BY <2>1 DEF StorageTypeOK, Work, MaybeGraph, MaybeText
<1>2. OwedIsSaved
  BY DEF OwedIsSaved, Graphs
<1>3. EditorsMissOnlyLateEdits /\ CompilersPassedTheGate /\ CopiesAreGraphs
  BY DEF EditorsMissOnlyLateEdits, CompilersPassedTheGate, CopiesAreGraphs, At, Idle, Doing
<1>4. DeploysAreIdempotent
  BY DEF DeploysAreIdempotent
<1> QED BY <1>1, <1>2, <1>3, <1>4 DEF DraftInv
-----------------------------------------------------------------------------
(* What is shared by the steps that only change request r: nothing of the  *)
(* graph, the artifacts or the debts moves.                                *)

\* A request that moves on without saving or deploying keeps the invariant.
LEMMA QuietStep ==
  ASSUME DraftInv, NEW r \in Requests, NEW w \in Work,
         Becomes(r, w), UNCHANGED corpus, Unsaved, Undeployed,
         cache' \in MaybeGraph,
         w.pc = "editing" => owed \subseteq w.graph \cup w.late,
         w.pc \in {"compiling", "compiled"} => w.graph \in Deployable,
         w.pc \in {"editing", "fetched", "updated"} => w.graph \in Graphs
  PROVE  DraftInv'
<1> USE DEF DraftInv, Becomes, Unsaved, Undeployed
<1>1. request' \in [Requests -> Work]
  BY DEF StorageTypeOK, Work
<1>2. StorageTypeOK'
  BY <1>1 DEF StorageTypeOK, Work
<1>3. \A q \in Requests : request'[q] = IF q = r THEN w ELSE request[q]
  BY DEF StorageTypeOK
<1>4. EditorsMissOnlyLateEdits'
  BY <1>3 DEF EditorsMissOnlyLateEdits, At
<1>5. CompilersPassedTheGate' /\ CopiesAreGraphs'
  BY <1>3 DEF CompilersPassedTheGate, CopiesAreGraphs
<1>6. OwedIsSaved' /\ DeploysAreIdempotent'
  BY DEF OwedIsSaved, DeploysAreIdempotent
<1> QED BY <1>2, <1>4, <1>5, <1>6

\* A commit keeps the invariant when the new graph has every edit still owed.
LEMMA CommitStep ==
  ASSUME DraftInv, NEW r \in Requests, NEW w \in Work, NEW graph \in Graphs,
         NEW added \in SUBSET Edits, NEW removed \in SUBSET Edits,
         Commits(r, w, graph, added, removed), UNCHANGED <<corpus, cache>>, Undeployed,
         (owed \cup added) \ removed \subseteq graph,
         w.pc \notin {"editing", "compiling", "compiled"}, w.graph = graph
  PROVE  DraftInv'
<1> USE DEF DraftInv, Commits, Undeployed
<1>1. \A q \in Requests :
        request'[q] = IF q = r THEN w
                      ELSE IF At(q, "editing")
                           THEN [request[q] EXCEPT !.late = request[q].late \cup added]
                           ELSE request[q]
  OBVIOUS
<1>2. request \in [Requests -> Work]
  BY DEF StorageTypeOK, Work
<1>3. ASSUME NEW q \in Requests PROVE request'[q] \in Work
  <2>1. request[q] \in Work BY <1>2
  <2>2. [request[q] EXCEPT !.late = request[q].late \cup added] \in Work
    BY <2>1 DEF Work
  <2> QED BY <1>1, <2>1, <2>2
<1>4. StorageTypeOK'
  <2>1. request' \in [Requests -> Work]
    BY <1>3
  <2>2. saved' \in MaybeGraph /\ owed' \in Graphs
    BY DEF StorageTypeOK, MaybeGraph, Graphs
  <2> QED BY <2>1, <2>2 DEF StorageTypeOK, Work
<1>5. OwedIsSaved'
  <2>1. graph # None OBVIOUS
  <2> QED BY <2>1 DEF OwedIsSaved
<1>6. EditorsMissOnlyLateEdits'
  <2> SUFFICES ASSUME NEW q \in Requests, At(q, "editing")'
               PROVE  owed' \subseteq request'[q].graph \cup request'[q].late
      BY DEF EditorsMissOnlyLateEdits
  <2>1. q # r BY <1>1 DEF At
  <2>2. request[q] \in Work BY <1>2
  <2>3. At(q, "editing") BY <1>1, <2>1, <2>2 DEF At, Work
  <2>4. /\ request'[q].graph = request[q].graph
        /\ request'[q].late = request[q].late \cup added
    BY <1>1, <2>1, <2>2, <2>3 DEF Work
  <2>5. owed \subseteq request[q].graph \cup request[q].late
    BY <2>3 DEF EditorsMissOnlyLateEdits
  <2> QED BY <2>4, <2>5
<1>7. CompilersPassedTheGate'
  <2> SUFFICES ASSUME NEW q \in Requests, request'[q].pc \in {"compiling", "compiled"}
               PROVE  request'[q].graph \in Deployable
      BY DEF CompilersPassedTheGate
  <2>1. q # r BY <1>1
  <2>2. request[q] \in Work BY <1>2
  <2>3. /\ request'[q].graph = request[q].graph
        /\ request'[q].pc = request[q].pc
    BY <1>1, <2>1, <2>2 DEF Work, At
  <2> QED BY <2>3 DEF CompilersPassedTheGate
<1>8. CopiesAreGraphs'
  <2> SUFFICES ASSUME NEW q \in Requests, q # r,
                      request'[q].pc \in {"editing", "fetched", "updated"}
               PROVE  request'[q].graph \in Graphs
      BY <1>1 DEF CopiesAreGraphs
  <2>1. request[q] \in Work BY <1>2
  <2>2. request'[q].graph = request[q].graph /\ request'[q].pc = request[q].pc
    BY <1>1, <2>1 DEF Work, At
  <2> QED BY <2>2 DEF CopiesAreGraphs
<1>9. DeploysAreIdempotent'
  BY DEF DeploysAreIdempotent
<1> QED BY <1>4, <1>5, <1>6, <1>7, <1>8, <1>9
(***************************************************************************)
(* The steps.                                                              *)
(***************************************************************************)

\* What a request begins with is a typed copy of the saved graph.
LEMMA BeginStep ==
  ASSUME DraftInv, NEW r \in Requests, NEW pc \in Pcs,
         Begin(r, pc), UNCHANGED <<corpus, cache>>, Unsaved, Undeployed,
         pc = "compiling" => saved \in Deployable, pc # "compiled"
  PROVE  DraftInv'
<1> DEFINE w == Doing(pc, saved, None, {})
<1>1. w \in Work
  BY WorkTyped DEF DraftInv, StorageTypeOK, MaybeGraph, MaybeText
<1>2. w.pc = pc /\ w.graph = saved /\ w.late = {}
  BY DEF Doing
<1>3. owed \subseteq saved
  BY DEF DraftInv, OwedIsSaved, Begin
<1>4. Becomes(r, w)
  BY DEF Begin, Becomes
<1>5. cache' \in MaybeGraph /\ saved \in Graphs
  BY DEF DraftInv, StorageTypeOK, Begin, MaybeGraph
<1> HIDE DEF w
<1> QED BY <1>1, <1>2, <1>3, <1>4, <1>5, QuietStep

\* A request that stops where it is.
LEMMA EndStep ==
  ASSUME DraftInv, NEW r \in Requests, Ends(r), UNCHANGED corpus, Unsaved, Undeployed,
         cache' \in MaybeGraph
  PROVE  DraftInv'
<1>1. Idle.pc = "idle"
  BY DEF Idle, Doing
<1> QED BY <1>1, IdleTyped, QuietStep DEF Ends

\* A request that goes on with its copy; to the compiler only with one that
\* passed the gate.
LEMMA MoveStep ==
  ASSUME DraftInv, NEW r \in Requests, NEW pc \in Pcs \ {"editing", "compiling"},
         NEW g \in MaybeGraph, NEW t \in MaybeText,
         Becomes(r, Doing(pc, g, t, {})),
         UNCHANGED corpus, Unsaved, Undeployed, cache' \in MaybeGraph,
         pc \in {"fetched", "updated"} => g \in Graphs,
         pc = "compiled" => g \in Deployable
  PROVE  DraftInv'
<1> DEFINE w == Doing(pc, g, t, {})
<1>1. w \in Work
  BY WorkTyped
<1>2. w.pc = pc /\ w.graph = g
  BY DEF Doing
<1>3. Becomes(r, w)
  OBVIOUS
<1> HIDE DEF w
<1> QED BY <1>1, <1>2, <1>3, QuietStep

\* The fields of what a request carries.
LEMMA WorkFields ==
  ASSUME DraftInv, NEW r \in Requests
  PROVE  /\ request[r] \in Work
         /\ request[r].graph \in MaybeGraph
         /\ request[r].text \in MaybeText
         /\ request[r].late \in SUBSET Edits
<1>1. request[r] \in Work
  BY DEF DraftInv, StorageTypeOK, Work
<1> QED BY <1>1 DEF Work

\* A request may carry no graph and no text.
LEMMA NoneIsMaybe == None \in MaybeGraph /\ None \in MaybeText
BY DEF MaybeGraph, MaybeText

\* Saving over the row: whatever the editor missed is late, and forgiven.
LEMMA EditorSaveStep ==
  ASSUME DraftInv, NEW r \in Requests, EditorSave(r)
  PROVE  DraftInv'
<1>1. CASE saved = None
  <2>1. Ends(r) /\ Unsaved /\ Undeployed /\ UNCHANGED <<corpus, cache>>
    BY <1>1 DEF EditorSave
  <2> QED BY <2>1, EndStep DEF DraftInv, StorageTypeOK
<1>2. CASE saved # None
  <2>1. PICK e \in OneEdit :
          LET graph == Changed(request[r].graph, e[1], e[2]) IN
          Commits(r, Doing("committed", graph, None, {}), graph, e[1],
                  e[2] \cup (request[r].late \ graph))
    BY <1>2 DEF EditorSave
  <2>2. e[1] \in SUBSET Edits /\ e[2] \in SUBSET Edits
    BY DEF OneEdit
  <2> DEFINE graph == Changed(request[r].graph, e[1], e[2])
             w == Doing("committed", graph, None, {})
             removed == e[2] \cup (request[r].late \ graph)
  <2>3. At(r, "editing") /\ UNCHANGED <<corpus, cache>> /\ Undeployed
    BY DEF EditorSave
  <2>4. request[r].late \in SUBSET Edits /\ request[r].graph \in MaybeGraph
    BY WorkFields
  <2>5. owed \subseteq request[r].graph \cup request[r].late
    BY <2>3 DEF DraftInv, EditorsMissOnlyLateEdits
  <2>6. removed \in SUBSET Edits
    BY <2>2, <2>4
  <2>7. request[r].graph \in Graphs
    BY <2>3 DEF DraftInv, CopiesAreGraphs, At
  <2>8. graph \in Graphs
    BY <2>2, <2>7 DEF Changed, Graphs
  <2>9. (owed \cup e[1]) \ removed \subseteq graph
    BY <2>5 DEF Changed
  <2>10. w \in Work /\ w.pc = "committed" /\ w.graph = graph
    BY <2>8, WorkTyped, NoneIsMaybe DEF Doing, Pcs, MaybeGraph
  <2>11. Commits(r, w, graph, e[1], removed)
    BY <2>1
  <2> HIDE DEF graph, w, removed
  <2> QED BY <2>2, <2>3, <2>6, <2>8, <2>9, <2>10, <2>11, CommitStep
<1> QED BY <1>1, <1>2

\* An authoring client replaces exactly the graph it holds.
LEMMA AgentUpdateStep ==
  ASSUME DraftInv, NEW r \in Requests, AgentUpdate(r)
  PROVE  DraftInv'
<1>1. CASE saved # request[r].graph
  <2>1. Ends(r) /\ Unsaved /\ Undeployed /\ UNCHANGED <<corpus, cache>>
    BY <1>1 DEF AgentUpdate
  <2> QED BY <2>1, EndStep DEF DraftInv, StorageTypeOK
<1>2. CASE saved = request[r].graph
  <2>1. PICK e \in OneEdit :
          LET graph == Changed(request[r].graph, e[1], e[2]) IN
          Commits(r, Doing("updated", graph, None, {}), graph, e[1], e[2])
    BY <1>2 DEF AgentUpdate
  <2>2. e[1] \in SUBSET Edits /\ e[2] \in SUBSET Edits
    BY DEF OneEdit
  <2> DEFINE graph == Changed(request[r].graph, e[1], e[2])
             w == Doing("updated", graph, None, {})
  <2>3. At(r, "fetched") /\ UNCHANGED <<corpus, cache>> /\ Undeployed
    BY DEF AgentUpdate
  <2>4. request[r].graph \in Graphs
    BY <2>3 DEF DraftInv, CopiesAreGraphs, At
  <2>5. owed \subseteq request[r].graph
    BY <1>2 DEF DraftInv, OwedIsSaved
  <2>6. graph \in Graphs
    BY <2>2, <2>4 DEF Changed, Graphs
  <2>7. (owed \cup e[1]) \ e[2] \subseteq graph
    BY <2>5 DEF Changed
  <2>8. w \in Work /\ w.pc = "updated" /\ w.graph = graph
    BY <2>6, WorkTyped, NoneIsMaybe DEF Doing, Pcs, MaybeGraph
  <2>9. Commits(r, w, graph, e[1], e[2])
    BY <2>1
  <2> HIDE DEF graph, w
  <2> QED BY <2>2, <2>3, <2>6, <2>7, <2>8, <2>9, CommitStep
<1> QED BY <1>1, <1>2
\* Deploy's critical section.
LEMMA DeployPersistStep ==
  ASSUME DraftInv, NEW r \in Requests, DeployPersist(r)
  PROVE  DraftInv'
<1> DEFINE w == Doing("deployed", None, None, {})
<1>1. w \in Work /\ w.pc = "deployed"
  BY WorkTyped, NoneIsMaybe DEF Doing, Pcs
<1>2. UNCHANGED <<corpus, cache>> /\ Unsaved
  BY DEF DeployPersist
<1>3. cache' \in MaybeGraph
  BY <1>2 DEF DraftInv, StorageTypeOK
<1>4. CASE Ends(r) /\ Undeployed
  BY <1>2, <1>3, <1>4, EndStep
<1>5. CASE Becomes(r, w) /\ Undeployed
  <2> HIDE DEF w
  <2> QED BY <1>1, <1>2, <1>3, <1>5, QuietStep
<1>6. CASE /\ saved = request[r].graph
           /\ ~(current # 0 /\ artifacts[current] = Artifact(r))
           /\ Becomes(r, w)
           /\ artifacts' = Append(artifacts, Artifact(r))
           /\ current' = Len(artifacts) + 1
  <2> HIDE DEF w
  <2>1. request \in [Requests -> Work]
    BY DEF DraftInv, StorageTypeOK, Work
  <2>2. \A q \in Requests : request'[q] = IF q = r THEN w ELSE request[q]
    BY <1>6, <2>1 DEF Becomes
  <2>3. Artifact(r) \in [graph : Graphs, text : MaybeText]
    <3>1. request[r].graph \in Deployable
      BY DEF DeployPersist, At, DraftInv, CompilersPassedTheGate
    <3> QED BY <3>1, WorkFields DEF Artifact
  <2>4. /\ artifacts' \in Seq([graph : Graphs, text : MaybeText])
        /\ Len(artifacts') = Len(artifacts) + 1
        /\ Len(artifacts) \in Nat
        /\ \A v \in 1 .. Len(artifacts) : artifacts'[v] = artifacts[v]
        /\ artifacts'[Len(artifacts) + 1] = Artifact(r)
    BY <1>6, <2>3 DEF DraftInv, StorageTypeOK
  <2>5. StorageTypeOK'
    <3>1. request' \in [Requests -> Work]
      BY <1>1, <1>6, <2>1, <2>2 DEF Becomes
    <3>2. current' \in 0 .. Len(artifacts')
      BY <1>6, <2>4
    <3> QED BY <1>2, <1>3, <2>4, <3>1, <3>2 DEF DraftInv, StorageTypeOK, Work, Unsaved
  <2>6. OwedIsSaved'
    BY <1>2 DEF DraftInv, OwedIsSaved, Unsaved
  <2>7. EditorsMissOnlyLateEdits' /\ CompilersPassedTheGate' /\ CopiesAreGraphs'
    BY <1>1, <1>2, <2>2 DEF DraftInv, EditorsMissOnlyLateEdits, CompilersPassedTheGate,
       CopiesAreGraphs, At, Unsaved
  <2>8. DeploysAreIdempotent'
    <3> SUFFICES ASSUME NEW v \in 1 .. Len(artifacts') - 1
                 PROVE  artifacts'[v] # artifacts'[v + 1]
        BY <1>6, <2>4 DEF DeploysAreIdempotent
    <3>1. current = Len(artifacts)
      BY DEF DraftInv, DeploysAreIdempotent
    <3>2. CASE v = Len(artifacts)
      BY <1>6, <2>4, <3>1, <3>2
    <3>3. CASE v < Len(artifacts)
      <4>1. v \in 1 .. Len(artifacts) - 1
        BY <2>4, <3>3
      <4>2. artifacts[v] # artifacts[v + 1]
        BY <4>1 DEF DraftInv, DeploysAreIdempotent
      <4> QED BY <2>4, <4>1, <4>2
    <3> QED BY <2>4, <3>2, <3>3
  <2> QED BY <2>5, <2>6, <2>7, <2>8 DEF DraftInv
<1>7. At(r, "compiled")
  BY DEF DeployPersist
<1> QED BY <1>4, <1>5, <1>6 DEF DeployPersist

\* Every step keeps the invariant.
LEMMA NextKeeps == DraftInv /\ [StorageNext]_storageVars => DraftInv'
<1> SUFFICES ASSUME DraftInv, [StorageNext]_storageVars PROVE DraftInv'
    OBVIOUS
<1> USE NoneIsMaybe
<1>0. /\ saved \in MaybeGraph /\ corpus \in MaybeText /\ cache \in MaybeGraph
      /\ request \in [Requests -> Work]
  BY DEF DraftInv, StorageTypeOK, Work
<1>1. ASSUME NEW r \in Requests, EditorLoad(r) PROVE DraftInv'
  BY <1>1, BeginStep DEF EditorLoad, Pcs
<1>2. ASSUME NEW r \in Requests, EditorRefused(r) PROVE DraftInv'
  BY <1>0, <1>2, MoveStep, WorkFields DEF EditorRefused, Pcs
<1>3. ASSUME NEW r \in Requests, EditorSave(r) PROVE DraftInv'
  BY <1>3, EditorSaveStep
<1>4. ASSUME NEW r \in Requests, EditorRefresh(r) PROVE DraftInv'
  <2>1. CASE saved = None
    BY <1>0, <1>4, <2>1, EndStep DEF EditorRefresh
  <2>2. CASE saved # None
    BY <1>0, <1>4, <2>2, MoveStep DEF EditorRefresh, Pcs
  <2> QED BY <2>1, <2>2
<1>5. ASSUME NEW r \in Requests, EditorInvalidate(r) PROVE DraftInv'
  BY <1>5, MoveStep, WorkFields DEF EditorInvalidate, Pcs
<1>6. ASSUME NEW r \in Requests, EditorRender(r) PROVE DraftInv'
  <2>1. CASE cache = None /\ saved # None
    BY <1>0, <1>6, <2>1, MoveStep, WorkFields DEF EditorRender, Pcs
  <2>2. CASE ~(cache = None /\ saved # None)
    BY <1>0, <1>6, <2>2, EndStep DEF EditorRender
  <2> QED BY <2>1, <2>2
<1>7. ASSUME NEW r \in Requests, AgentGet(r) PROVE DraftInv'
  BY <1>7, BeginStep DEF AgentGet, Pcs
<1>8. ASSUME NEW r \in Requests, AgentUpdate(r) PROVE DraftInv'
  BY <1>8, AgentUpdateStep
<1>9. ASSUME NEW r \in Requests, AgentInvalidate(r) PROVE DraftInv'
  <2>1. request[r].graph \in Graphs
    BY <1>9 DEF AgentInvalidate, At, DraftInv, CopiesAreGraphs
  <2>2. CASE Ends(r)
    BY <1>9, <2>2, EndStep DEF AgentInvalidate
  <2>3. CASE Becomes(r, Doing("fetched", request[r].graph, None, {}))
    BY <1>9, <2>1, <2>3, MoveStep, WorkFields DEF AgentInvalidate, Pcs
  <2> QED BY <1>9, <2>2, <2>3 DEF AgentInvalidate
<1>10. ASSUME NEW r \in Requests, DeployLoad(r) PROVE DraftInv'
  BY <1>10, BeginStep DEF DeployLoad, Pcs
<1>11. ASSUME NEW r \in Requests, DeployReadCorpus(r) PROVE DraftInv'
  <2>1. request[r].graph \in Deployable
    BY <1>11 DEF DeployReadCorpus, At, DraftInv, CompilersPassedTheGate
  <2> QED BY <1>0, <1>11, <2>1, MoveStep, WorkFields DEF DeployReadCorpus, Pcs
<1>12. ASSUME NEW r \in Requests, DeployPersist(r) PROVE DraftInv'
  BY <1>12, DeployPersistStep
<1>13. ASSUME NEW r \in Requests, DeployAnswer(r) PROVE DraftInv'
  BY <1>0, <1>13, EndStep DEF DeployAnswer
<1>14. ASSUME NEW r \in Requests, ReadMiss(r) PROVE DraftInv'
  BY <1>14, BeginStep DEF ReadMiss, Pcs
<1>15. ASSUME NEW r \in Requests, StoreRead(r) PROVE DraftInv'
  BY <1>15, EndStep, WorkFields DEF StoreRead
<1>16. CASE SaveCorpus
  BY <1>16 DEF SaveCorpus, Unsaved, Undeployed, DraftInv, StorageTypeOK, OwedIsSaved, CopiesAreGraphs,
     EditorsMissOnlyLateEdits, CompilersPassedTheGate, DeploysAreIdempotent, At
<1>17. CASE Expire
  BY <1>17 DEF Expire, Unsaved, Undeployed, DraftInv, StorageTypeOK, OwedIsSaved, CopiesAreGraphs,
     EditorsMissOnlyLateEdits, CompilersPassedTheGate, DeploysAreIdempotent, At
<1>18. CASE DeleteTree
  <2>1. StorageTypeOK'
    BY <1>18 DEF DeleteTree, DraftInv, StorageTypeOK, MaybeGraph, Graphs
  <2>2. OwedIsSaved' /\ EditorsMissOnlyLateEdits' /\ CopiesAreGraphs' /\ CompilersPassedTheGate'
    BY <1>18 DEF DeleteTree, DraftInv, OwedIsSaved, EditorsMissOnlyLateEdits, CopiesAreGraphs,
       CompilersPassedTheGate, At
  <2>3. DeploysAreIdempotent'
    BY <1>18 DEF DeleteTree, DeploysAreIdempotent
  <2> QED BY <2>1, <2>2, <2>3 DEF DraftInv
<1>19. CASE Restart
  <2>1. request' \in [Requests -> Work]
    BY <1>19, IdleTyped DEF Restart
  <2>2. StorageTypeOK'
    BY <1>19, <2>1 DEF Restart, DraftInv, StorageTypeOK, Work, Unsaved, Undeployed
  <2>3. EditorsMissOnlyLateEdits' /\ CopiesAreGraphs' /\ CompilersPassedTheGate'
    BY <1>19 DEF Restart, EditorsMissOnlyLateEdits, CopiesAreGraphs, CompilersPassedTheGate,
       At, Idle, Doing
  <2>4. OwedIsSaved' /\ DeploysAreIdempotent'
    BY <1>19 DEF Restart, DraftInv, OwedIsSaved, DeploysAreIdempotent, Unsaved, Undeployed
  <2> QED BY <2>2, <2>3, <2>4 DEF DraftInv
<1>20. CASE UNCHANGED storageVars
  BY <1>20 DEF storageVars, DraftInv, StorageTypeOK, OwedIsSaved, CopiesAreGraphs,
     EditorsMissOnlyLateEdits, CompilersPassedTheGate, DeploysAreIdempotent, At
<1>21. ASSUME NEW r \in Requests, Editor(r) \/ Agent(r) \/ Deploy(r) \/ Reader(r)
       PROVE  DraftInv'
  BY <1>21, <1>1, <1>2, <1>3, <1>4, <1>5, <1>6, <1>7, <1>8, <1>9, <1>10, <1>11, <1>12, <1>13,
     <1>14, <1>15 DEF Editor, Agent, Deploy, Reader
<1> QED BY <1>16, <1>17, <1>18, <1>19, <1>20, <1>21 DEF StorageNext

\* So the invariant always holds.
LEMMA DraftInvariant == StorageSpec => []DraftInv
<1> QED BY InitInv, NextKeeps, PTL DEF StorageSpec

\* The state of a tree and of its requests stays well formed.
THEOREM DraftIsWellFormed == StorageSpec => []StorageTypeOK
<1>1. DraftInv => StorageTypeOK
  BY DEF DraftInv
<1> QED BY <1>1, DraftInvariant, PTL

\* No number of overlapping editors and authoring clients loses an acknowledged
\* edit except where an editor's copy is older than the edit.
THEOREM EditsSurvive == StorageSpec => []AcknowledgedEditsSurvive
<1>1. DraftInv => AcknowledgedEditsSurvive
  BY DEF DraftInv, OwedIsSaved, AcknowledgedEditsSurvive
<1> QED BY <1>1, DraftInvariant, PTL

\* No two consecutive versions are the same artifact, and the pointer is on the
\* newest, however many deploys of one tree overlap.
THEOREM DeployIsIdempotent == StorageSpec => []DeploysAreIdempotent
<1>1. DraftInv => DeploysAreIdempotent
  BY DEF DraftInv
<1> QED BY <1>1, DraftInvariant, PTL

\* A deploy that answers with success has published the graph that is saved
\* then, and that graph passed the gate.
THEOREM DeployedDraftIsLive == StorageSpec => SuccessfulDeployIsLive
<1> DEFINE Succeeds == \A r \in Requests :
             request[r].pc # "deployed" /\ request'[r].pc = "deployed"
               => Live' /\ saved' \in Deployable
<1>1. DraftInv /\ [StorageNext]_storageVars => [Succeeds]_storageVars
  <2> SUFFICES ASSUME DraftInv, StorageNext, NEW r \in Requests,
                      request[r].pc # "deployed", request'[r].pc = "deployed"
               PROVE  Live' /\ saved' \in Deployable
      OBVIOUS
  <2>1. request \in [Requests -> Work]
    BY DEF DraftInv, StorageTypeOK, Work
  <2>2. DeployPersist(r)
    <3> USE DEF At, Doing, Idle
    <3>1. PICK q \in Requests : Editor(q) \/ Agent(q) \/ Deploy(q) \/ Reader(q)
      BY DEF StorageNext, SaveCorpus, Expire, DeleteTree, Restart
    <3>2. ASSUME NEW w, Becomes(q, w), w.pc # "deployed" PROVE FALSE
      BY <2>1, <3>2 DEF Becomes
    <3>3. ASSUME NEW w, NEW g, NEW a, NEW b, Commits(q, w, g, a, b), w.pc # "deployed"
          PROVE  FALSE
      <4>1. request[r] \in Work BY <2>1
      <4> QED BY <3>3, <4>1 DEF Commits, Work
    <3>4. ~EditorSave(q) /\ ~AgentUpdate(q)
      <4>1. ~Ends(q)
        BY <3>2 DEF Ends
      <4>2. ASSUME NEW e \in OneEdit, NEW g, NEW b, NEW pc \in {"committed", "updated"},
                   Commits(q, Doing(pc, g, None, {}), g, e[1], b)
            PROVE  FALSE
        <5> DEFINE w == Doing(pc, g, None, {})
        <5>1. w.pc # "deployed" OBVIOUS
        <5> HIDE DEF w
        <5> QED BY <3>3, <4>2, <5>1 DEF w
      <4>3. ~EditorSave(q)
        BY <4>1, <4>2 DEF EditorSave
      <4>4. ~AgentUpdate(q)
        BY <4>1, <4>2 DEF AgentUpdate
      <4> QED BY <4>3, <4>4
    <3>5. ~Editor(q) /\ ~Agent(q)
      BY <3>2, <3>4 DEF Editor, EditorLoad, EditorRefused, EditorRefresh, EditorInvalidate,
         EditorRender, Agent, AgentGet, AgentInvalidate, Begin, Becomes, Ends
    <3>6. ~Reader(q)
      BY <3>2 DEF Reader, ReadMiss, StoreRead, Begin, Becomes, Ends
    <3>7. DeployPersist(q)
      BY <3>1, <3>2, <3>5, <3>6 DEF Deploy, DeployLoad, DeployReadCorpus, DeployAnswer,
         Begin, Becomes, Ends
    <3>8. q = r
      BY <2>1, <3>7 DEF DeployPersist, Becomes, Ends
    <3> QED BY <3>7, <3>8
  <2>3. saved = request[r].graph /\ saved' = saved
    BY <2>1, <2>2 DEF DeployPersist, Ends, Becomes, Idle, Doing, Unsaved
  <2>4. saved \in Deployable
    BY <2>2, <2>3 DEF DeployPersist, At, DraftInv, CompilersPassedTheGate
  <2>5. Live'
    <3>1. saved # None
      BY <2>4 DEF Graphs
    <3>2. CASE current # 0 /\ artifacts[current] = Artifact(r)
      BY <2>2, <2>3, <3>1, <3>2 DEF DeployPersist, Undeployed, Artifact, Live
    <3>3. CASE ~(current # 0 /\ artifacts[current] = Artifact(r))
      <4>1. artifacts' = Append(artifacts, Artifact(r)) /\ current' = Len(artifacts) + 1
        BY <2>2, <2>3, <3>3 DEF DeployPersist
      <4>2. artifacts \in Seq([graph : Graphs, text : MaybeText])
        BY DEF DraftInv, StorageTypeOK
      <4>3. Artifact(r) \in [graph : Graphs, text : MaybeText]
        BY <2>3, <2>4, WorkFields DEF Artifact
      <4>4. Artifact(r).graph = saved
        BY <2>3 DEF Artifact
      <4>5. artifacts'[current'] = Artifact(r) /\ current' # 0
        BY <4>1, <4>2, <4>3
      <4> QED BY <2>3, <3>1, <4>4, <4>5 DEF Live
    <3> QED BY <3>2, <3>3
  <2> QED BY <2>3, <2>4, <2>5
<1> QED BY <1>1, DraftInvariant, PTL DEF StorageSpec, SuccessfulDeployIsLive
=============================================================================
