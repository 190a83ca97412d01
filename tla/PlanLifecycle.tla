---------------------------- MODULE PlanLifecycle ----------------------------
(***************************************************************************)
(* The trees of one person under the plan: a paid plan that ends and may   *)
(* be taken up again, the choice of the trees that stay open on the free   *)
(* plan, and meanwhile requests that make, copy, version and delete trees. *)
(*                                                                         *)
(* Hosted enforcement is on. A request works with the user's row as it was *)
(* when the request began (sessions do not expire on commit). The ends and *)
(* renewals of the plan and the page of the choice are the hosting side's, *)
(* which calls the functions modelled here in a transaction of its own.    *)
(* These changes of the plan take no lock, and so may overlap as well: a   *)
(* late delivery of the plan's end, a choice confirmed twice or meanwhile  *)
(* the plan is renewed.                                                    *)
(***************************************************************************)
EXTENDS Naturals, FiniteSets

CONSTANTS
  PlanRequests,  \* requests that may overlap
  FreeTrees,     \* trees the free plan allows
  ProTrees,      \* trees the paid plan allows
  MaxMade,       \* bound on the trees ever made
  KindsTogether  \* which kinds of request come together in one behaviour

ASSUME PlanAssumption == /\ FreeTrees \in Nat \ {0} /\ ProTrees \in Nat /\ FreeTrees <= ProTrees
                         /\ MaxMade \in Nat

VARIABLES
  kinds,    \* the kinds of request that come, chosen at the start
  account,  \* is_premium, workflow_pick_required, live_workflow_root_id (0 for none)
  rows,     \* the rows of decision_trees, by id
  errand,   \* what each request is doing
  beside,   \* history: trees that came in beside the count of the plan
  spanning  \* history: requests under way when the plan changed

planVars == <<kinds, account, rows, errand, beside, spanning>>

Ids      == 1..MaxMade
Fixtures == {"sample", "acme"}
Absent   == [there |-> FALSE, root |-> 0, current |-> FALSE, dormant |-> FALSE, fixture |-> "none"]

\* `root` is the first version of the row's family.
Tree(root, fixture) ==
  [there |-> TRUE, root |-> root, current |-> TRUE, dormant |-> FALSE, fixture |-> fixture]

\* `pro` is what the request saw of the plan, `saw` the trees it has read; a
\* change of the plan has read the user's flags, and which trees were asleep.
Errand(at, kind, pro, saw, read) ==
  [at |-> at, kind |-> kind, pro |-> pro, saw |-> saw, read |-> read]
Unread == [limbo |-> FALSE, pin |-> 0, asleep |-> {}]
Free   == Errand("idle", "none", FALSE, {}, Unread)

PlanInit ==
  /\ kinds \in KindsTogether
  /\ account \in [pro : BOOLEAN, limbo : {FALSE}, pin : {0}]
  /\ rows = [t \in Ids |-> Absent]
  /\ errand = [r \in PlanRequests |-> Free]
  /\ beside = {} /\ spanning = {}
-----------------------------------------------------------------------------
\* _fetch_active_roots, count_active_root_workflows, count_live_root_workflows.
Roots     == {t \in Ids : rows[t].there /\ rows[t].current /\ rows[t].root = t}
OpenRoots == {t \in Roots : ~rows[t].dormant}

\* What counts against which number.
Counted(pro) == IF pro THEN Roots ELSE OpenRoots
Cap(pro)     == IF pro THEN ProTrees ELSE FreeTrees
Room(pro)    == Cardinality(Counted(pro)) + 1 <= Cap(pro)

IsLive(t) ==
  account.pro \/ (~account.limbo /\ ~rows[t].dormant /\ account.pin \in {0, t})

Turns(r, e)   == errand' = [errand EXCEPT ![r] = e]
Starts(r, e)  == Turns(r, e) /\ UNCHANGED <<account, rows, beside, spanning>>
Finish(r)     == Turns(r, Free) /\ spanning' = spanning \ {r}
Step(r, at)   == Turns(r, [errand[r] EXCEPT !.at = at])
Stands(r, at) == errand[r].at = at

\* The request is authenticated: the row of the user is read once. Drafts and
\* imports are refused while a choice is due, fixtures are not.
BeginDraft(r) ==
  /\ "draft" \in kinds
  /\ Stands(r, "idle") /\ ~account.limbo
  /\ Starts(r, Errand("reserving", "draft", account.pro, {}, Unread))

BeginFixture(r) ==
  /\ Stands(r, "idle")
  /\ \E kind \in Fixtures \cap kinds : Starts(r, Errand("reserving", kind, account.pro, {}, Unread))
-----------------------------------------------------------------------------
(* Making a tree.                                                          *)

Holds(q) == errand[q].at \in {"room", "full"}

\* Mutant: the lock of the slot is let go as soon as the trees are counted.
ReserveUnlocked(r) ==
  /\ Stands(r, "reserving")
  /\ Step(r, IF Room(errand[r].pro) THEN "room" ELSE "full")
  /\ UNCHANGED <<account, rows, beside, spanning>>

\* The lock of the slot, then the count; it is held until the transaction ends.
ReserveSlot(r) ==
  /\ Stands(r, "reserving")
  /\ \A q \in PlanRequests : ~Holds(q)
  /\ Step(r, IF Room(errand[r].pro) THEN "room" ELSE "full")
  /\ UNCHANGED <<account, rows, beside, spanning>>

Fixture(kind) == {t \in Ids : rows[t].there /\ rows[t].fixture = kind}
Unused        == {t \in Ids : ~rows[t].there /\ \A u \in Ids : u < t => rows[u].there}

\* The plan has changed since the request counted for it.
Overtaken(r) == r \in spanning

Add(r, fixture) ==
  IF Stands(r, "full")
  THEN UNCHANGED <<rows, beside>>
  ELSE \E t \in Unused : /\ rows' = [rows EXCEPT ![t] = Tree(t, fixture)]
                         /\ beside' = IF Overtaken(r) THEN beside \cup {t} ELSE beside

InsertDraft(r) ==
  /\ Holds(r) /\ errand[r].kind = "draft"
  /\ Add(r, "none") /\ Finish(r)
  /\ UNCHANGED account

InsertFixture(r) ==
  /\ Holds(r) /\ errand[r].kind \in Fixtures /\ Fixture(errand[r].kind) = {}
  /\ Add(r, errand[r].kind) /\ Finish(r)
  /\ UNCHANGED account

\* A fixture that is there is made current and deployed again; only the ACME
\* example needs room for that.
Restore(r) ==
  /\ Holds(r)
  /\ \E t \in Fixture(errand[r].kind) :
       IF errand[r].kind = "acme" /\ ~rows[t].current /\ Stands(r, "full")
       THEN UNCHANGED <<rows, beside>>
       ELSE /\ rows' = [rows EXCEPT ![t].current = TRUE]
            /\ beside' = IF ~rows[t].current /\ (errand[r].kind = "sample" \/ Overtaken(r))
                         THEN beside \cup {t} ELSE beside
  /\ Finish(r)
  /\ UNCHANGED account
-----------------------------------------------------------------------------
(* Versions and deletion.                                                  *)

OpenVersion(r) ==
  /\ "version" \in kinds
  /\ Stands(r, "idle")
  /\ \E t \in Ids : /\ rows[t].there /\ IsLive(t)
                    /\ Starts(r, Errand("versioning", "version", FALSE, {t}, Unread))

\* No lock and no room is asked for. The original may be gone by now.
CreateVersion(r) ==
  /\ Stands(r, "versioning")
  /\ \E t \in errand[r].saw :
       IF ~rows[t].there
       THEN UNCHANGED rows
       ELSE \E n \in Unused :
              rows' = [rows EXCEPT ![t].current = FALSE, ![n] = Tree(rows[t].root, "none")]
  /\ Finish(r)
  /\ UNCHANGED <<account, beside>>

Family(t) == {u \in Ids : rows[u].there /\ rows[u].root = rows[t].root}

OpenDeletion(r) ==
  /\ "delete" \in kinds
  /\ Stands(r, "idle")
  /\ \E t \in Ids : /\ rows[t].there /\ rows[t].current
                    /\ Starts(r, Errand("deleting", "delete", FALSE, Family(t), Unread))

\* A version made since the family was read still points at its parent, and
\* the deletion fails as a whole. The user's pin is cleared with its tree.
DeleteFamily(r) ==
  /\ Stands(r, "deleting")
  /\ LET family == errand[r].saw
     IN IF \E u \in Ids \ family : rows[u].there /\ rows[u].root \in {rows[t].root : t \in family}
        THEN UNCHANGED <<account, rows, beside>>
        ELSE /\ rows' = [t \in Ids |-> IF t \in family THEN Absent ELSE rows[t]]
             /\ account' = [account EXCEPT !.pin = IF @ \in family THEN 0 ELSE @]
             /\ beside' = beside \ family
  /\ Finish(r)
-----------------------------------------------------------------------------
(* The plan ends, a choice is made, the plan is taken up again.            *)

\* The user's row and the roots are read.
OpenPlanChange(r) ==
  /\ Stands(r, "idle")
  /\ \E kind \in {"end", "pick", "upgrade"} \cap kinds :
       /\ kind = "end" => account.pro
       /\ kind = "pick" => account.limbo
       /\ kind = "upgrade" => ~account.pro
       /\ Starts(r, Errand("settling", kind, FALSE, Roots,
                           [limbo |-> account.limbo, pin |-> account.pin,
                            asleep |-> Roots \ OpenRoots]))

\* Whoever is under way has seen another plan.
Settle(r) ==
  /\ Turns(r, Free)
  /\ spanning' = {q \in PlanRequests \ {r} : ~Stands(q, "idle")}

Settles(r, kind) == Stands(r, "settling") /\ errand[r].kind = kind
Listed(r)        == errand[r].saw

\* A column is written only where it is to differ from what was read of it.
Changed(new, read, now) == IF new = read THEN now ELSE new

\* A pin to be written whose tree is gone by now fails the request.
Flags(r, pro, limbo, pin) ==
  LET read == errand[r].read
  IN  /\ pin \notin {0, read.pin} => rows[pin].there
      /\ account' = [pro   |-> pro,
                     limbo |-> Changed(limbo, read.limbo, account.limbo),
                     pin   |-> Changed(pin, read.pin, account.pin)]

\* Of the trees listed these are to sleep and the others to be awake; a row to
\* be written that is gone by now fails the request.
Sleeps(r, asleep) ==
  LET written == {t \in Listed(r) : (t \in asleep) # (t \in errand[r].read.asleep)}
  IN  /\ \A t \in written : rows[t].there
      /\ rows' = [t \in Ids |-> IF t \in written THEN [rows[t] EXCEPT !.dormant = t \in asleep]
                                                 ELSE rows[t]]

\* Trees that came since the roots were read were not looked at, and those that
\* were read as asleep are not put to sleep if another change has woken them.
Missed(r) == OpenRoots \ Listed(r)
Woken(r)  == OpenRoots \cap errand[r].read.asleep

\* resolve_subscription_ended. A choice that it finds due already it does not
\* make due again.
EndPlan(r) ==
  /\ Settles(r, "end")
  /\ IF Cardinality(Listed(r)) > FreeTrees
     THEN /\ Flags(r, FALSE, TRUE, 0) /\ UNCHANGED rows
          /\ beside' = IF account'.limbo THEN beside ELSE beside \cup OpenRoots
     ELSE /\ \E pin \in IF Cardinality(Listed(r)) = 1 THEN Listed(r) ELSE {0} :
               Flags(r, FALSE, FALSE, pin)
          /\ Sleeps(r, {})
          /\ beside' = beside \cup Missed(r)
  /\ Settle(r)

\* apply_workflow_pick.
Pick(r) ==
  /\ Settles(r, "pick")
  /\ \E chosen \in SUBSET Listed(r) :
       /\ Cardinality(chosen) = FreeTrees
       /\ \E pin \in IF FreeTrees = 1 THEN chosen ELSE {0} : Flags(r, account.pro, FALSE, pin)
       /\ Sleeps(r, Listed(r) \ chosen)
       /\ beside' = beside \cup Missed(r) \cup (Woken(r) \ chosen)
  /\ Settle(r)

\* clear_downgrade_state_on_upgrade: one UPDATE over all of the person's trees,
\* which asks for no room for those it wakes.
Upgrade(r) ==
  /\ Settles(r, "upgrade")
  /\ Flags(r, TRUE, FALSE, 0)
  /\ rows' = [t \in Ids |-> [rows[t] EXCEPT !.dormant = FALSE]]
  /\ beside' = beside \cup (Roots \ OpenRoots)
  /\ Settle(r)

\* The request fails: too few or other trees chosen, a row gone, a lost process.
Abort(r) ==
  /\ ~Stands(r, "idle")
  /\ Finish(r)
  /\ UNCHANGED <<account, rows, beside>>

PlanNext ==
  /\ \E r \in PlanRequests :
       \/ BeginDraft(r) \/ BeginFixture(r) \/ ReserveSlot(r)
       \/ InsertDraft(r) \/ InsertFixture(r) \/ Restore(r)
       \/ OpenVersion(r) \/ CreateVersion(r) \/ OpenDeletion(r) \/ DeleteFamily(r)
       \/ OpenPlanChange(r) \/ EndPlan(r) \/ Pick(r) \/ Upgrade(r)
       \/ Abort(r)
  /\ UNCHANGED kinds

PlanSpec == PlanInit /\ [][PlanNext]_planVars
-----------------------------------------------------------------------------
\* Whatever overlaps, changes of the plan among it, a person has no more trees
\* that count than the plan of the moment allows, but for those that came in
\* beside the count: a sample brought back without room, trees added by a request
\* that had counted for another plan or that the end of the plan or the choice
\* did not see yet, trees a renewed plan wakes, and, of overlapping changes, trees
\* that a choice had read as asleep and that were woken before it was applied, and
\* those left by an end that had read a choice as due that was made before it was
\* applied (reserve_decision_tree_slot, resolve_subscription_ended,
\* apply_workflow_pick, clear_downgrade_state_on_upgrade).
\* While a choice is due all are still there.
InventoryWithinPlan ==
  ~account.limbo => Cardinality(Counted(account.pro) \ beside) <= Cap(account.pro)
=============================================================================
