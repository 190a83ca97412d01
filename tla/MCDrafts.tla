------------------------------ MODULE MCDrafts ------------------------------
(* A draft, seen twice. Where its content is exercised, one request at a   *)
(* time changes the tree (TreeEditor). Where its storage is, requests      *)
(* overlap, and what they save is opaque (DraftLifecycle). The two share   *)
(* no variable; the initial state says which of them moves.                *)
EXTENDS TreeEditor, DraftLifecycle, TLC

CONSTANTS q1, q2, q3, c1, c2, a, b, A, r1, r2, x, y, t

MCFewConditions == {a, DefaultGuard}

MCFold == a :> a @@ b :> b @@ A :> a

MCQuestionData == {[options |-> {a, b}, required |-> TRUE], [options |-> {a}, required |-> FALSE]}

Draft(required, edges) ==
  [questions   |-> [q \in DOMAIN required |-> [options |-> {a, b}, required |-> required[q]]],
   conclusions |-> {c1, c2},
   edges       |-> SetToBag({NewEdge(e[1], e[2], e[3]) : e \in edges})]

\* Three questions in a row, a default edge, an optional question, one
\* answer with two routes, and two answers that differ in case. All are deployable.
InARow     == Draft(q1 :> TRUE @@ q2 :> TRUE @@ q3 :> TRUE,
                    {<<q1, q2, a>>, <<q1, c1, b>>, <<q2, q3, a>>, <<q2, c1, b>>,
                     <<q3, c2, a>>, <<q3, c1, b>>})
FallsBack  == Draft(q1 :> TRUE @@ q2 :> TRUE,
                    {<<q1, c1, a>>, <<q1, q2, DefaultGuard>>, <<q2, c1, a>>, <<q2, c2, b>>})
Skippable  == Draft(q1 :> FALSE @@ q2 :> TRUE,
                    {<<q1, c1, a>>, <<q1, q2, b>>, <<q1, q2, DefaultGuard>>,
                     <<q2, c1, a>>, <<q2, c2, b>>})
TwoRoutes  == Draft(q1 :> TRUE @@ q2 :> TRUE,
                    {<<q1, c1, a>>, <<q1, c2, a>>, <<q1, q2, b>>, <<q2, c1, a>>, <<q2, c2, b>>})
InCase     == [InARow EXCEPT
                 !.questions = q3 :> [options |-> {a, A}, required |-> TRUE],
                 !.edges = SetToBag({NewEdge(q3, c2, a), NewEdge(q3, c1, A)})]

MCStartTrees == {EmptyTree, InARow, FallsBack, Skippable, TwoRoutes, InCase}

\* The Deploy gate refuses the empty graph and passes the one with both edits.
MCDeployable == {{x, y}, {x}}

VARIABLE exercised

StorageIdle ==
  /\ saved = None /\ corpus = None /\ artifacts = <<>> /\ current = 0 /\ cache = None
  /\ request = [r \in Requests |-> Idle] /\ owed = {}

DraftsInit ==
  \/ exercised = "content" /\ Init /\ StorageIdle
  \/ exercised = "storage" /\ StorageInit /\ tree = EmptyTree

DraftsNext ==
  \/ exercised = "content" /\ Next /\ UNCHANGED <<storageVars, exercised>>
  \/ exercised = "storage" /\ StorageNext /\ UNCHANGED <<tree, exercised>>

\* The clock runs whatever the requests do.
DraftsSpec ==
  DraftsInit /\ [][DraftsNext]_<<tree, storageVars, exercised>> /\ WF_storageVars(Expire)
=============================================================================
