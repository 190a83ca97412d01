---------------------------- MODULE AssistantCall ----------------------------
(***************************************************************************)
(* One call of an assistant's tool after another gate: who calls, may this *)
(* person use this tree, is its published theory that of the tree as it is *)
(* saved, is there allowance left; then the work, the answer, and the row  *)
(* of the meter. Meanwhile the tree is edited, deployed, hidden, deleted,  *)
(* and the plan ends or is taken up again.                                 *)
(*                                                                         *)
(* One person, one tree. A step is one query, one commit or one stretch of *)
(* computation. Weights count halves of a unit, as one tool weighs 2.5.    *)
(***************************************************************************)
EXTENDS Naturals, FiniteSets, FiniteSetsExt

CONSTANTS
  Calls,      \* calls that may overlap, each made once
  ToolsUsed,  \* the tools they call
  Graphs,     \* what the tree may say
  Unbuilt,    \* the tree has no published theory
  PaidHalves, \* the month's allowance on the paid plan, in halves
  FreeHalves, \* and on the free one
  MaxChanges  \* bound on what else happens to the tree and to the plan

ASSUME AssistantAssumption == /\ PaidHalves \in Nat /\ FreeHalves \in Nat /\ MaxChanges \in Nat
                              /\ Unbuilt \notin Graphs

VARIABLES
  holder,   \* the person's row: is there, is_premium, pick due, the pinned tree
  tree,     \* the tree's row: there, listed, dormant, what it says, what is published
  invoked,  \* each call: where it is, its tool, what it has read
  meter,    \* rows of mcp_tool_invocations: call -> weight, one row a call at most
  stored,   \* calls whose evaluation run is stored
  seen,     \* history: what was true at some moment of the call
  changes   \* how much else has happened, for the bound

callVars == <<holder, tree, invoked, meter, stored, seen, changes>>

(* A tool: must the tree be usable, in sync with its theory; what the call *)
(* weighs; is an evaluation run stored; is a row written when nothing was  *)
(* reserved.                                                               *)
Tool(gated, inSync, halves, stores, noted) ==
  [gated |-> gated, inSync |-> inSync, halves |-> halves, stores |-> stores, noted |-> noted]

ListTrees        == Tool(FALSE, FALSE, 0, FALSE, TRUE)
TemplateCheck    == Tool(TRUE, FALSE, 0, FALSE, TRUE)
TemplateGet      == Tool(TRUE, FALSE, 0, FALSE, TRUE)
ListConclusions  == Tool(TRUE, TRUE, 0, FALSE, FALSE)
ValidateAnswers  == Tool(TRUE, TRUE, 2, FALSE, FALSE)
EvaluateAnswers  == Tool(TRUE, TRUE, 2, TRUE, FALSE)
WhatIf           == Tool(TRUE, TRUE, 4, FALSE, FALSE)
HowToReach       == Tool(TRUE, TRUE, 5, FALSE, FALSE)
DecisiveSupports == Tool(TRUE, TRUE, 4, FALSE, FALSE)
EditAffectsPath  == Tool(TRUE, TRUE, 4, FALSE, FALSE)
InquireStart     == Tool(TRUE, TRUE, 2, FALSE, FALSE)
InquireAdmit     == Tool(FALSE, FALSE, 2, FALSE, FALSE)
InquireVerify    == Tool(FALSE, FALSE, 2, FALSE, FALSE)
InquireNext      == Tool(FALSE, FALSE, 0, FALSE, FALSE)
AllTools == {ListTrees, TemplateCheck, TemplateGet, ListConclusions, ValidateAnswers,
             EvaluateAnswers, WhatIf, HowToReach, DecisiveSupports, EditAffectsPath,
             InquireStart, InquireAdmit, InquireVerify, InquireNext}

ASSUME ToolsAssumption == ToolsUsed \subseteq AllTools

Nothing == [graph |-> Unbuilt, theory |-> Unbuilt]
Stranger  == [there |-> FALSE, pro |-> FALSE, limbo |-> FALSE, pin |-> "none"]
Subscriber == [Stranger EXCEPT !.there = TRUE, !.pro = TRUE]

Invoked(at, tool, user, read, outcome) ==
  [at |-> at, tool |-> tool, user |-> user, read |-> read, outcome |-> outcome]
Unmade == Invoked("unmade", ListTrees, Stranger, Nothing, "none")

\* Nothing is kept of a call that gives no answer.
Unseen == [open |-> FALSE, current |-> {}]
Failed == {"refused", "client error", "error", "lost"}

CallInit ==
  /\ holder \in {Stranger, Subscriber}
  /\ tree \in [there : {TRUE}, listed : {TRUE}, dormant : {FALSE}, graph : Graphs,
               theory : Graphs]
  /\ invoked = [c \in Calls |-> Unmade]
  /\ meter = [c \in {} |-> 0]
  /\ stored = {}
  /\ seen = [c \in Calls |-> Unseen]
  /\ changes = 0
-----------------------------------------------------------------------------
\* is_decision_tree_live, of a user and a tree as they were read.
Live(u, t) == u.pro \/ (~u.limbo /\ ~t.dormant /\ u.pin # "other")

Usable(u, t) == t.there /\ t.listed /\ Live(u, t)
InSync(t)    == t.there /\ t.theory # Unbuilt /\ t.theory = t.graph

Answered(c) == invoked[c].outcome = "ok"
UnderWay(c) == invoked[c].at \notin {"unmade", "done"}

\* What a call that is not answered yet could have seen of the world as it is.
Witness ==
  seen' = [c \in Calls |->
             CASE invoked'[c].outcome \in Failed -> Unseen
               [] Answered(c) \/ ~(UnderWay(c) \/ UnderWay(c)') -> seen[c]
               [] OTHER ->
                    [open    |-> seen[c].open \/ Usable(holder, tree)' \/ Usable(holder, tree),
                     current |-> seen[c].current \cup
                                   {t.theory : t \in {x \in {tree, tree'} : InSync(x)}}]]

World     == <<holder, tree, changes>>
IsAt(c, at) == invoked[c].at = at
Become(c, i)       == invoked' = [invoked EXCEPT ![c] = i]
MoveOn(c, at)     == Become(c, [invoked[c] EXCEPT !.at = at])
Conclude(c, outcome) ==
  Become(c, [invoked[c] EXCEPT !.at = "flushing", !.outcome = outcome,
                               !.user = [Stranger EXCEPT !.there = invoked[c].user.there],
                               !.read = IF outcome = "ok" THEN @ ELSE Nothing])
Weighs(c)          == invoked[c].tool.halves
-----------------------------------------------------------------------------
(* Who calls. A person known to the identity provider only gets a row now. *)

Invoke(c) ==
  /\ IsAt(c, "unmade")
  /\ \E t \in ToolsUsed : Become(c, Invoked("calling", t, Stranger, Nothing, "none"))
  /\ UNCHANGED <<World, meter, stored>> /\ Witness

\* get_mcp_user: the row by the token's subject. A token that does not verify
\* and a deactivated user are refused.
Authenticate(c) ==
  /\ IsAt(c, "calling")
  /\ \/ Conclude(c, "refused")
     \/ IF holder.there
        THEN Become(c, [invoked[c] EXCEPT !.at = IF invoked[c].tool.gated THEN "known" ELSE "passed",
                                          !.user = holder])
        ELSE MoveOn(c, "provisioning")
  /\ UNCHANGED <<World, meter, stored>> /\ Witness

\* resolve_local_user_for_clerk after the profile has been fetched and the gates
\* of a new user are passed; whoever comes second finds the winner's row.
Provision(c) ==
  /\ IsAt(c, "provisioning")
  /\ holder' = [holder EXCEPT !.there = TRUE]
  /\ Become(c, [invoked[c] EXCEPT !.at = IF invoked[c].tool.gated THEN "known" ELSE "passed",
                                  !.user = holder'])
  /\ UNCHANGED <<tree, changes, meter, stored>> /\ Witness

ProvisionFails(c) ==
  /\ IsAt(c, "provisioning")
  /\ Conclude(c, "refused")
  /\ UNCHANGED <<World, meter, stored>> /\ Witness
-----------------------------------------------------------------------------
(* The gates before anything is charged.                                   *)

\* Mutant: whether the tree is live under the plan is not asked.
LoadDormantToo(c) ==
  /\ IsAt(c, "known")
  /\ IF tree.there /\ tree.listed
     THEN Become(c, [invoked[c] EXCEPT !.at = "open",
                                       !.read = [graph |-> tree.graph, theory |-> tree.theory]])
     ELSE Conclude(c, "refused")
  /\ UNCHANGED <<World, meter, stored>> /\ Witness

\* One read of the tree's row decides on owner, plan and listing; it also brings
\* what the tree says and which theory is published.
LoadTree(c) ==
  /\ IsAt(c, "known")
  /\ IF Usable(invoked[c].user, tree)
     THEN Become(c, [invoked[c] EXCEPT !.at = "open",
                                       !.read = [graph |-> tree.graph, theory |-> tree.theory]])
     ELSE Conclude(c, "refused")
  /\ UNCHANGED <<World, meter, stored>> /\ Witness

\* Mutant: a theory that is not the tree's any more will do.
LoadAnyTheory(c) ==
  /\ IsAt(c, "open")
  /\ IF ~tree.there \/ invoked[c].read.theory = Unbuilt THEN Conclude(c, "refused")
     ELSE MoveOn(c, "passed")
  /\ UNCHANGED <<World, meter, stored>> /\ Witness

\* The artifact goes with the tree; the graph that was read is compared with it.
LoadTheory(c) ==
  /\ IsAt(c, "open")
  /\ LET read == invoked[c].read
     IN IF \/ ~tree.there \/ read.theory = Unbuilt
           \/ invoked[c].tool.inSync /\ read.theory # read.graph
        THEN Conclude(c, "refused")
        ELSE MoveOn(c, "passed")
  /\ UNCHANGED <<World, meter, stored>> /\ Witness
-----------------------------------------------------------------------------
(* The meter: refresh, lock, count, insert, commit.                        *)

\* Whoever finds the lock taken is sent away; a pick that was due when the user
\* was read ends the call too.
LockMeter(c) ==
  /\ IsAt(c, "passed") /\ Weighs(c) > 0
  /\ IF invoked[c].user.limbo \/ \E d \in Calls : IsAt(d, "locked")
     THEN Conclude(c, "refused")
     ELSE MoveOn(c, "locked")
  /\ UNCHANGED <<World, meter, stored>> /\ Witness

\* The meter with a row of a call, written anew or over the old one.
WithRow(c, halves) == [d \in DOMAIN meter \cup {c} |-> IF d = c THEN halves ELSE meter[d]]

Spent == MapThenSumSet(LAMBDA c : meter[c], DOMAIN meter)

ReserveRow(c) ==
  /\ IsAt(c, "locked")
  /\ IF Spent + Weighs(c) <= (IF invoked[c].user.pro THEN PaidHalves ELSE FreeHalves)
     THEN meter' = WithRow(c, Weighs(c)) /\ MoveOn(c, "working")
     ELSE Conclude(c, "refused") /\ UNCHANGED meter
  /\ UNCHANGED <<World, stored>> /\ Witness

Unmetered(c) ==
  /\ IsAt(c, "passed") /\ Weighs(c) = 0
  /\ MoveOn(c, "working")
  /\ UNCHANGED <<World, meter, stored>> /\ Witness
-----------------------------------------------------------------------------
(* The work, with what was read before the meter's commit, and the answer. *)

Work(c) ==
  /\ IsAt(c, "working")
  /\ \/ Conclude(c, "client error")
     \/ Conclude(c, "error")
     \/ IF invoked[c].tool.stores THEN MoveOn(c, "storing") ELSE Conclude(c, "ok")
  /\ UNCHANGED <<World, meter, stored>> /\ Witness

\* The run refers to its tree: with the tree gone the insert fails.
StoreRun(c) ==
  /\ IsAt(c, "storing")
  /\ IF tree.there
     THEN stored' = stored \cup {c} /\ Conclude(c, "ok")
     ELSE Conclude(c, "error") /\ UNCHANGED stored
  /\ UNCHANGED <<World, meter>> /\ Witness

\* Without a reserved row one is written if it was noted who called; it weighs
\* nothing.
Noting(c, halves) ==
  IF c \in DOMAIN meter THEN WithRow(c, halves)
  ELSE IF invoked[c].tool.noted /\ invoked[c].user.there THEN WithRow(c, 0) ELSE meter

\* Mutant: only successes keep their weight.
FlushFree(c) ==
  /\ IsAt(c, "flushing")
  /\ meter' = Noting(c, IF invoked[c].outcome = "ok" THEN Weighs(c) ELSE 0)
  /\ MoveOn(c, "done")
  /\ UNCHANGED <<World, stored>> /\ Witness

\* The row gets its outcome; the mistakes of a client weigh nothing.
Flush(c) ==
  /\ IsAt(c, "flushing")
  /\ meter' = Noting(c, IF invoked[c].outcome = "client error" THEN 0 ELSE Weighs(c))
  /\ MoveOn(c, "done")
  /\ UNCHANGED <<World, stored>> /\ Witness

\* The update of the row is tried once; the answer goes out all the same.
FlushFails(c) ==
  /\ IsAt(c, "flushing")
  /\ MoveOn(c, "done")
  /\ UNCHANGED <<World, meter, stored>> /\ Witness

\* The process stops: nobody is answered, what was reserved stays.
Lost(c) ==
  /\ UnderWay(c) /\ ~IsAt(c, "flushing")
  /\ Become(c, Invoked("done", invoked[c].tool, Stranger, Nothing, "lost"))
  /\ UNCHANGED <<World, meter, stored>> /\ Witness
-----------------------------------------------------------------------------
(* What else happens to the tree and to the plan.                          *)

Meanwhile ==
  /\ changes < MaxChanges /\ changes' = changes + 1
  /\ UNCHANGED <<invoked, meter, stored>> /\ Witness

\* The editor, the authoring tools and the switch on the dashboard want the tree
\* to be live.
ChangeTree ==
  /\ holder.there /\ tree.there /\ Live(holder, tree)
  /\ \/ \E g \in Graphs \ {tree.graph} : tree' = [tree EXCEPT !.graph = g]
     \/ tree' = [tree EXCEPT !.theory = tree.graph]
     \/ tree' = [tree EXCEPT !.listed = ~@]
  /\ UNCHANGED holder /\ Meanwhile

DeleteTree ==
  /\ holder.there /\ tree.there
  /\ tree' = [tree EXCEPT !.there = FALSE, !.theory = Unbuilt]
  /\ holder' = [holder EXCEPT !.pin = IF @ = "this" THEN "none" ELSE @]
  /\ Meanwhile

\* PlanLifecycle, seen from one of its trees, for changes of the plan that do not
\* overlap.
ChangePlan ==
  /\ holder.there
  /\ \/ /\ holder.pro
        /\ \/ holder' = [holder EXCEPT !.pro = FALSE, !.limbo = TRUE]
           \/ \E pin \in {"none", "other"} \cup (IF tree.there THEN {"this"} ELSE {}) :
                holder' = [holder EXCEPT !.pro = FALSE, !.pin = pin]
        /\ UNCHANGED tree
     \/ /\ holder.limbo
        /\ holder' = [holder EXCEPT !.limbo = FALSE]
        /\ \E dormant \in {FALSE, tree.there} : tree' = [tree EXCEPT !.dormant = dormant]
     \/ /\ ~holder.pro
        /\ holder' = [holder EXCEPT !.pro = TRUE, !.limbo = FALSE, !.pin = "none"]
        /\ tree' = [tree EXCEPT !.dormant = FALSE]
  /\ Meanwhile

Answering(c) ==
  \/ Invoke(c) \/ Authenticate(c) \/ Provision(c) \/ ProvisionFails(c)
  \/ LoadTree(c) \/ LoadTheory(c)
  \/ LockMeter(c) \/ ReserveRow(c) \/ Unmetered(c)
  \/ Work(c) \/ StoreRun(c) \/ Flush(c) \/ FlushFails(c) \/ Lost(c)

CallNext == (\E c \in Calls : Answering(c)) \/ ChangeTree \/ DeleteTree \/ ChangePlan

CallSpec == CallInit /\ [][CallNext]_callVars
-----------------------------------------------------------------------------
\* Although the user is read when the call begins, the tree later and the work
\* is done later still, a tree's answer is given only if at one moment of the
\* call the person could use the tree: it was there, listed and live under the
\* plan (_mcp_load_owner_reasoning_context).
AnsweredTreesWereUsable ==
  \A c \in Calls : Answered(c) /\ invoked[c].tool.gated => seen[c].open

\* An answer is of a theory that was published for what the tree said, at one
\* moment of the call, whatever is edited or deployed while the call reserves
\* and works (the stale_theory check of every tool).
AnswersAreOfTheTree ==
  \A c \in Calls : Answered(c) /\ invoked[c].tool.inSync => invoked[c].read.theory \in seen[c].current

\* The meter follows the work: a call that is refused costs nothing, while an
\* answer, an error of the server and a run that is stored have been charged in
\* full, whatever is lost on the way (cheap gates before the reservation,
\* effective_quota_weight_for_outcome).
MeterFollowsTheWork ==
  \A c \in Calls :
    /\ invoked[c].outcome = "refused" /\ c \in DOMAIN meter => meter[c] = 0
    /\ (c \in stored \/ invoked[c].outcome \in {"ok", "error"}) /\ Weighs(c) > 0
         => c \in DOMAIN meter /\ meter[c] = Weighs(c)
=============================================================================
