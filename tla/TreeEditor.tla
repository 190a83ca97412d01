----------------------------- MODULE TreeEditor -----------------------------
(***************************************************************************)
(* The operations of the decision tree editor on one private draft. A      *)
(* request is one step here: the handler loads the stored graph, applies   *)
(* one operation and stores the result whatever validation says of it,     *)
(* since validation only reports. (What happens between that load and that *)
(* save is the subject of DraftLifecycle.) A request the code refuses      *)
(* changes nothing and is not a step.                                      *)
(***************************************************************************)
EXTENDS TreeGraph

CONSTANTS QuestionData,  \* the options and required flags authors enter
          StartTrees,    \* stored drafts to start from
          MaxEdges,      \* bound on the edges of a small draft, copies included, and
                         \* on the edges to a new conclusion
          FewConditions, \* bound on their conditions
          MaxChanges     \* bound on the edges a larger draft gains and loses and
                         \* the questions that change

ASSUME QuestionDataAssumption == QuestionData \subseteq Question
ASSUME StartTreesAssumption   == \A t \in StartTrees : WellFormed(t)

VARIABLE tree

NewEdge(s, d, c) == [source |-> s, target |-> d, condition |-> c]

\* delete_node: the node and every edge connected to it.
WithoutNode(t, n) ==
  [questions   |-> [q \in Asked(t) \ {n} |-> t.questions[q]],
   conclusions |-> t.conclusions \ {n},
   edges       |-> [e \in {x \in Edges(t) : n \notin {x.source, x.target}} |-> t.edges[e]]]

WithQuestion(t, q, data) ==
  [t EXCEPT !.questions = [x \in Asked(t) \cup {q} |-> IF x = q THEN data ELSE t.questions[x]]]

WithConclusion(t, c) == [t EXCEPT !.conclusions = @ \cup {c}]

\* delete_edge: every copy of the edge.
WithoutEdge(t, e) == [t EXCEPT !.edges = BagRemoveAll(@, e)]

\* update_edge: one copy.
Redirected(t, e, d, c) ==
  [t EXCEPT !.edges = BagAdd(BagRemove(@, e), NewEdge(e.source, d, c))]

\* Edges from every predecessor to node d. d is new, so none is a duplicate.
Wired(t, wires, d) ==
  [t EXCEPT !.edges = @ (+) SetToBag({NewEdge(w[1], d, w[2]) : w \in wires})]

-----------------------------------------------------------------------------
Init == tree \in StartTrees

\* POST /create_node: refused once the draft has a node.
CreateNode(q, data) ==
  /\ Nodes(tree) = {}
  /\ tree' = WithQuestion(tree, q, data)

\* Mutant: an empty list of predecessors is accepted.
CreateQuestionUnchecked(q, data, preds, c) ==
  /\ q \notin Nodes(tree) /\ Nodes(tree) # {}
  /\ preds \subseteq Asked(tree)
  /\ tree' = Wired(WithQuestion(tree, q, data), {<<p, c>> : p \in preds}, q)

\* POST /create_node_wired, question_wiring "incoming": one edge with the
\* same condition from each chosen question of the draft as it was.
CreateQuestionIncoming(q, data, preds, c) ==
  /\ q \notin Nodes(tree) /\ Nodes(tree) # {}
  /\ preds # {} /\ preds \subseteq Asked(tree)
  /\ tree' = Wired(WithQuestion(tree, q, data), {<<p, c>> : p \in preds}, q)

\* question_wiring "new_start": a default edge to the only entry there was.
CreateQuestionNewStart(q, data) ==
  /\ q \notin Nodes(tree)
  /\ \E entry \in Asked(tree) :
       /\ EntryNodes(tree) = {entry}
       /\ tree' = Wired(WithQuestion(tree, q, data), {<<q, DefaultGuard>>}, entry)

\* POST /create_node_wired for a conclusion: at least one conditional edge,
\* each from a question.
CreateConclusion(c, wires) ==
  /\ c \notin Nodes(tree)
  /\ wires # {} /\ wires \subseteq Asked(tree) \X Options
  /\ tree' = Wired(WithConclusion(tree, c), wires, c)

\* POST /update_node: new options and a new required flag. The edges keep
\* conditions that may no longer be options.
UpdateNode(q, data) ==
  /\ q \in Asked(tree)
  /\ tree' = WithQuestion(tree, q, data)

DeleteNode(n) ==
  /\ n \in Nodes(tree)
  /\ tree' = WithoutNode(tree, n)

\* POST /create_edge: the ends exist and no equal edge does. The source may
\* be a conclusion and the ends may be the same: validation reports both.
CreateEdge(s, d, c) ==
  /\ {s, d} \subseteq Nodes(tree)
  /\ NewEdge(s, d, c) \notin Edges(tree)
  /\ tree' = Wired(tree, {<<s, c>>}, d)

\* POST /update_edge: one copy of the edge gets a new target and condition,
\* which may make it a copy of another edge.
UpdateEdge(e, d, c) ==
  /\ e \in Edges(tree) /\ d \in Nodes(tree)
  /\ tree' = Redirected(tree, e, d, c)

\* POST /delete_edge.
DeleteEdge(e) ==
  /\ e \in Edges(tree)
  /\ tree' = WithoutEdge(tree, e)

\* Bounds of the model alone: drafts with few edges, and the neighbourhood of
\* the larger starting drafts. An edge redirected is one lost and one gained.
SmallDraft(t) ==
  /\ Cardinality(Nodes(t)) <= 3 /\ BagCardinality(t.edges) <= MaxEdges
  /\ \A e \in Edges(t) : e.condition \in FewConditions

NearStart(t) ==
  \E s \in StartTrees :
    /\ Nodes(t) = Nodes(s)
    /\ ConditionsOf(Edges(t)) \subseteq UNION {s.questions[q].options : q \in Asked(s)}
    /\ BagCardinality(t.edges (-) s.edges) + BagCardinality(s.edges (-) t.edges)
         + Cardinality({q \in Asked(t) : t.questions[q] # s.questions[q]}) <= MaxChanges

Bounded == SmallDraft(tree') \/ NearStart(tree')

CreatesNode ==
  \/ \E q \in QuestionIds \ Nodes(tree), data \in QuestionData :
       \/ CreateNode(q, data)
       \/ \E preds \in SUBSET Asked(tree), c \in Conditions :
            CreateQuestionIncoming(q, data, preds, c)
       \/ CreateQuestionNewStart(q, data)
  \/ \E c \in ConclusionIds \ Nodes(tree),
        wires \in {W \in SUBSET (Asked(tree) \X Options) : Cardinality(W) <= MaxEdges} :
       CreateConclusion(c, wires)

Edit ==
  \/ CreatesNode
  \/ \E q \in QuestionIds, data \in QuestionData : UpdateNode(q, data)
  \/ \E n \in NodeIds : DeleteNode(n)
  \/ \E s, d \in NodeIds, c \in Conditions : CreateEdge(s, d, c)
  \/ \E e \in Edges(tree), d \in NodeIds, c \in Conditions : UpdateEdge(e, d, c)
  \/ \E e \in Edges(tree) : DeleteEdge(e)

Next == Edit /\ Bounded

Spec == Init /\ [][Next]_tree

-----------------------------------------------------------------------------
(* Properties.                                                             *)

\* Every edge joins nodes of the draft and is stored at least once: deleting
\* a node takes its edges with it, and no request names a missing end.
TypeOK == WellFormed(tree)

AtMostOneEntry(t) == \A m, n \in EntryNodes(t) : m = n

\* The requests that create nodes never leave a draft with two entry nodes
\* that had at most one (create_node's docstring: "that would violate the
\* single-entry invariant"), however its edges were rearranged before.
CreationKeepsOneEntry ==
  [][AtMostOneEntry(tree) /\ ~AtMostOneEntry(tree') => ~CreatesNode]_tree

\* With a draft that passes publication validation an interactive walk never
\* gets stuck and never goes round: whatever the answers, and whichever of
\* several equally conditioned edges it takes, it ends at a conclusion.
PublishableWalksConclude ==
  PublicationValid(tree) =>
    \A w \in Worlds(CompiledIR(tree)) :
      WalkEnds(tree, w) # {} /\ WalkEnds(tree, w) \subseteq tree.conclusions

\* The solver never refuses what validation accepted: a draft that passes
\* publication validation compiles to a valid IR whose theory is satisfiable
\* and has no dead conclusion. Only regression fixtures can still block.
SolverGateAgreesWithValidation == PublicationValid(tree) => ReadyToDeploy(tree)

\* No question has two options that differ in case alone.
DistinctWhenFolded(t) ==
  \A q \in Asked(t) : \A o, p \in t.questions[q].options : Fold[o] = Fold[p] => o = p

\* One edge for each answer and none that answers fall back to.
OneRoutePerAnswer(t) ==
  /\ DefaultsOf(Edges(t)) = {}
  /\ \A e, f \in Edges(t) : e.source = f.source /\ e.condition = f.condition => e = f

\* On deployable drafts the questionnaire and the symbolic theory agree
\* ("so symbolic reasoning and interactive navigation stay aligned",
\* contract.py) as far as they do. Where no two options differ in case alone,
\* what a walk concludes the theory concludes as well; where moreover each
\* answer has one route the theory concludes nothing else.
WalkAgreesWithTheory ==
  PublicationValid(tree) /\ DistinctWhenFolded(tree) =>
    \A w \in Worlds(CompiledIR(tree)) :
      LET concluded == WalkEnds(tree, w) \cap tree.conclusions
          entailed  == Reached(CompiledIR(tree), w) \cap tree.conclusions
      IN  /\ concluded \subseteq entailed
          /\ OneRoutePerAnswer(tree) =>
               concluded = entailed /\ Cardinality(entailed) = 1
=============================================================================
