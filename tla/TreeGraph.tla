----------------------------- MODULE TreeGraph -----------------------------
(***************************************************************************)
(* A decision tree as the editor stores it (DTGraph), the three tiers of   *)
(* validation, the walk an interactive questionnaire takes through it and  *)
(* the symbolic theory the deployment gate compiles from it.               *)
(*                                                                         *)
(* A tree is a record [questions, conclusions, edges]: questions maps the  *)
(* ids of the question nodes to [options, required], conclusions is a set  *)
(* of ids, and edges is a bag, because update_edge can turn an edge into a *)
(* copy of another one. An edge is [source, target, condition]; condition  *)
(* is an option label or DefaultGuard, which stands for every condition    *)
(* that is empty once stripped. The order of the edge list is abstracted:  *)
(* where the code takes the first edge of some kind, any of them may come. *)
(* Texts, titles and lengths are taken to be present and in range.         *)
(***************************************************************************)
EXTENDS InquireKernel, BagsExt, Bags

CONSTANTS QuestionIds, ConclusionIds, Options,
          Fold,   \* the label in lower case, as the walk compares labels
          NoNode  \* no node: none current, no conclusion reached

ASSUME NodeIdsAssumption ==
  QuestionIds \cap ConclusionIds = {} /\ NoNode \notin QuestionIds \cup ConclusionIds
ASSUME OptionsAssumption == DefaultGuard \notin Options
ASSUME FoldAssumption    == Fold \in [Options -> Options]

NodeIds    == QuestionIds \cup ConclusionIds
Conditions == Options \cup {DefaultGuard}
Question   == [options : (SUBSET Options) \ {{}}, required : BOOLEAN]

EmptyTree == [questions |-> [q \in {} |-> {}], conclusions |-> {}, edges |-> EmptyBag]

Asked(t)  == DOMAIN t.questions
Nodes(t)  == Asked(t) \cup t.conclusions
Edges(t)  == BagToSet(t.edges)
Out(t, n) == {e \in Edges(t) : e.source = n}
In(t, n)  == {e \in Edges(t) : e.target = n}

WellFormed(t) ==
  /\ DOMAIN t = {"questions", "conclusions", "edges"}
  /\ t.questions \in [Asked(t) -> Question] /\ Asked(t) \subseteq QuestionIds
  /\ t.conclusions \subseteq ConclusionIds /\ IsFiniteSet(Nodes(t))
  /\ IsABag(t.edges)
  /\ Edges(t) \subseteq [source : Nodes(t), target : Nodes(t), condition : Conditions]

\* Nodes with no incoming edge, and nodes with no outgoing one.
EntryNodes(t)    == {n \in Nodes(t) : In(t, n) = {}}
TerminalNodes(t) == {n \in Nodes(t) : Out(t, n) = {}}

Targets(E)      == {e.target : e \in E}
DefaultsOf(E)   == {e \in E : e.condition = DefaultGuard}
ConditionsOf(E) == {e.condition : e \in E} \ {DefaultGuard}
ToConclusion(t) == {e \in Edges(t) : e.target \in t.conclusions}

\* Every node a path from a node of S leads to, S included.
ReachableFrom(t, S) ==
  LET wave[k \in Nat] ==
        IF k = 0 THEN S
        ELSE LET before == wave[k - 1]
             IN  before \cup Targets({e \in Edges(t) : e.source \in before})
  IN  wave[Cardinality(Nodes(t))]

\* Mutant: only a node that leads straight back to itself counts as a cycle.
SelfLoopOnly(t) == \E n \in Nodes(t) : n \in Targets(Out(t, n))

HasCycle(t) == \E n \in Nodes(t) : n \in ReachableFrom(t, Targets(Out(t, n)))

-----------------------------------------------------------------------------
(* Validation.                                                             *)

\* _validate_edge_integrity: dangling ends, self-loops, copies of an edge
\* and a second default edge of one node.
EdgeIntegrityError(t) ==
  \/ \E e \in Edges(t) : \/ {e.source, e.target} \notin SUBSET Nodes(t)
                         \/ e.source = e.target
                         \/ t.edges[e] > 1
  \/ \E n \in Nodes(t) : Cardinality(DefaultsOf(Out(t, n))) > 1

\* _validate_edge_conditions, for the edges that leave questions.
EdgeConditionError(t) ==
  \E q \in Asked(t) :
    \/ DefaultsOf(Out(t, q)) \cap ToConclusion(t) # {}
    \/ ~ (ConditionsOf(Out(t, q)) \subseteq t.questions[q].options)

\* Tier 2, validate_graph_for_editing: what makes a draft invalid.
EditingErrors(t) ==
  \/ Nodes(t) = {}
  \/ Cardinality(EntryNodes(t)) > 1
  \/ EdgeIntegrityError(t)
  \/ EdgeConditionError(t)

\* Options no edge of q is conditioned on.
Uncovered(t, q) == t.questions[q].options \ ConditionsOf(Out(t, q))

\* The required-aware coverage rules of _validate_graph_structure.
CoverageWarning(t, q) ==
  LET out     == Out(t, q)
      onlyEnd == Targets(out) \subseteq t.conclusions
      bare    == DefaultsOf(out) = {}
  IN  /\ out # {}
      /\ \/ /\ Uncovered(t, q) # {}
            /\ ~ t.questions[q].required \/ bare \/ onlyEnd
         \/ ~ t.questions[q].required /\ bare /\ ~ onlyEnd

\* _validate_graph_structure: warnings of a draft without errors.
StructureWarnings(t) ==
  \/ HasCycle(t)
  \/ ~ (Nodes(t) \subseteq ReachableFrom(t, EntryNodes(t)))
  \/ EntryNodes(t) = {}
  \/ EntryNodes(t) \cap t.conclusions # {}
  \/ TerminalNodes(t) = {}
  \/ Cardinality(t.conclusions) = 1
  \/ \E c \in t.conclusions : Out(t, c) # {}
  \/ \E q \in Asked(t) : \/ CoverageWarning(t, q)
                         \/ Cardinality(Out(t, q)) < 2
                         \/ Cardinality(Targets(Out(t, q))) = 1

\* validate_graph, the older strict check, as far as it goes beyond the
\* above: coverage again, now wherever the edges lead, and the rules about
\* conclusions.
StrictValid(t) ==
  /\ Nodes(t) # {}
  /\ \E n \in Asked(t) : EntryNodes(t) = {n}
  /\ TerminalNodes(t) # {}
  /\ t.conclusions # {} =>
       /\ Cardinality(t.conclusions) >= 2
       /\ \A c \in t.conclusions : Out(t, c) = {}
       /\ DefaultsOf(ToConclusion(t)) = {}
       /\ \A q \in Asked(t) : Out(t, q) # {}
  /\ \A q \in Asked(t) : Out(t, q) # {} =>
       /\ Uncovered(t, q) # {} => t.questions[q].required
       /\ DefaultsOf(Out(t, q)) = {} => Uncovered(t, q) = {} /\ t.questions[q].required
       /\ ConditionsOf(Out(t, q)) \subseteq t.questions[q].options

\* enforce_reasoning_authoring_contract.
ContractHolds(t) ==
  Cardinality(t.conclusions) >= 2 /\ StrictValid(t) /\ ~ HasCycle(t)

\* Tier 3, validate_graph_for_publication.
PublicationValid(t) ==
  ~ EditingErrors(t) /\ ~ StructureWarnings(t) /\ ContractHolds(t)

-----------------------------------------------------------------------------
(* The interactive walk. w is a complete assignment of answers.            *)

\* Mutant: the first edge of the list is followed without looking at the
\* answer, as it is for a question that has no conditional edge.
FirstEdgeNodes(t, n, answer) == Targets(Out(t, n))

\* Where an answered question leads: along an edge with that condition but
\* for case, else along the default edge. Nothing keeps two edges of a
\* question from having the same condition and different targets, nor two
\* options from differing in case alone.
NextNodes(t, n, answer) ==
  LET defaults == DefaultsOf(Out(t, n))
      matching == {e \in Out(t, n) \ defaults : Fold[e.condition] = Fold[answer]}
  IN  Targets(IF matching # {} THEN matching ELSE defaults)

\* Where walks with the answers w may stand after as many steps as there are
\* nodes. A walk stays at a conclusion and at a question it cannot leave.
WalkEnds(t, w) ==
  LET step(n) == IF n \in Asked(t) /\ NextNodes(t, n, w[n]) # {}
                 THEN NextNodes(t, n, w[n]) ELSE {n}
      stand[k \in Nat] ==
        IF k = 0 THEN EntryNodes(t) ELSE UNION {step(n) : n \in stand[k - 1]}
  IN  stand[Cardinality(Nodes(t))]

-----------------------------------------------------------------------------
(* The symbolic side.                                                      *)

\* Mutant: only conditional edges are compiled.
CompiledWithoutDefaults(t) ==
  [questions |-> Asked(t), conclusions |-> t.conclusions,
   options   |-> [q \in Asked(t) |-> t.questions[q].options],
   entry     |-> CHOOSE n \in EntryNodes(t) : TRUE,
   edges     |-> {[src |-> e.source, on |-> e.condition, dst |-> e.target] :
                    e \in Edges(t) \ DefaultsOf(Edges(t))}]

\* compile_dt_graph_to_ir. The entry is not a field of the code's IR: it is
\* the node without incoming edges, unique once ValidIR holds.
CompiledIR(t) ==
  [questions |-> Asked(t), conclusions |-> t.conclusions,
   options   |-> [q \in Asked(t) |-> t.questions[q].options],
   entry     |-> CHOOSE n \in EntryNodes(t) : TRUE,
   edges     |-> {[src |-> e.source, on |-> e.condition, dst |-> e.target] :
                    e \in Edges(t)}]

\* validate_ir on the compiled tree: endpoints, guards, a DAG, one entry.
ValidIR(t) ==
  /\ \A e \in Edges(t) : /\ {e.source, e.target} \subseteq Nodes(t)
                         /\ e.source \in Asked(t) =>
                              e.condition \in t.questions[e.source].options \cup {DefaultGuard}
  /\ ~ HasCycle(t)
  /\ Cardinality(EntryNodes(t)) = 1

NoAssumptions == [reachable |-> {}, unreachable |-> {}]

\* enumerate_conclusion_sat_queries: the conclusions some model reaches.
LiveConclusions(t) ==
  UNION {m.concludes : m \in Theory(CompiledIR(t), NoAssumptions)}

\* assess_publish_readiness without regression fixtures.
ReadyToDeploy(t) ==
  /\ PublicationValid(t)
  /\ ValidIR(t)
  /\ Theory(CompiledIR(t), NoAssumptions) # {}
  /\ t.conclusions \subseteq LiveConclusions(t)
=============================================================================
