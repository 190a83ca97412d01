------------------------------ MODULE Account ------------------------------
(***************************************************************************)
(* One person's account: the identity held by Clerk, the local user row    *)
(* that signing in creates, its deletion from the profile page, by Clerk's *)
(* user.deleted webhook or by the daily retry of dead letters, and what the *)
(* person uses of the plan while all this goes on: calls, trees, wizards.  *)
(*                                                                         *)
(* Incarnation n of the user is the n-th local row of the same identity.   *)
(* A step is one transaction or one call to Clerk; holding an advisory     *)
(* lock spans steps, and lasts until the transaction ends.                 *)
(***************************************************************************)
EXTENDS Naturals, Sequences, FiniteSets

CONSTANTS
  Requests,     \* requests that may overlap
  Sweeper,      \* the maintenance task that retries dead letters
  Allowance,    \* what the plan allows of each metered resource
  Completions,  \* what it allows of wizards completed in a month
  MaxAttempts,  \* attempts after which the sweeper leaves a letter alone
  BatchLimit,   \* letters a round of the sweeper takes up
  MaxUsers,     \* bound on the incarnations of the user
  MaxLetters,   \* bound on the dead letters
  MaxCrashes,   \* bound on the restarts of the process
  MaxBuilds,    \* bound on the trees that wizards build for one row
  Mixes         \* which requests come together in one behaviour

Workers   == Requests \cup {Sweeper}
Resources == {"call", "tree", "wizard"}

ASSUME SweeperAssumption   == Sweeper \notin Requests
ASSUME AllowanceAssumption == Allowance \in [Resources -> Nat] /\ Completions \in Nat
ASSUME BoundsAssumption    == /\ MaxAttempts \in Nat \ {0} /\ BatchLimit \in Nat \ {0}
                              /\ MaxUsers \in Nat \ {0} /\ MaxLetters \in Nat
                              /\ MaxCrashes \in Nat /\ MaxBuilds \in Nat
ASSUME MixesAssumption     == Mixes \subseteq SUBSET (Resources \cup {"profile", "webhook"})

VARIABLES
  mix,       \* the kinds of request that come, chosen at the start
  identity,  \* the person exists at Clerk
  delivery,  \* Clerk has an undelivered user.deleted event
  user,      \* the incarnation that has a row, 0 for none
  born,      \* incarnations so far
  letters,   \* rows of account_deletion_failures, as committed
  batch,     \* letters the sweeper's round has read and not come to yet
  pending,   \* what its transaction has written of others, and not committed
  used,      \* rows counted against the plan: weighed calls, trees, wizards
  job,       \* what each worker is doing
  crashes,   \* restarts so far
  asked,     \* history: the row's owner has confirmed its deletion
  late,      \* history: the row was created after the identity had gone
  completed, \* wizards of this row completed this month
  served,    \* history: calls of this row's owner carried out or broken off
  built      \* history: trees that wizards have built for this row

vars == <<mix, identity, delivery, user, born, letters, batch, pending, used, completed, job,
          crashes, asked, late, served, built>>

\* `for` is the incarnation a worker loaded, `letter` the dead letter a sweep
\* works on and `note` the one a failure is recorded in, each with the attempts
\* it had when it was read.
Doing(pc, kind, for, letter, note) ==
  [pc |-> pc, kind |-> kind, for |-> for, letter |-> letter, note |-> note]
NoLetter == <<0, 0>>
Idle     == Doing("idle", "none", 0, NoLetter, NoLetter)

Init ==
  /\ mix \in Mixes
  /\ identity = TRUE /\ delivery = FALSE
  /\ user = 0 /\ born = 0
  /\ letters = <<>> /\ batch = {} /\ pending = {}
  /\ used = [r \in Resources |-> 0] /\ completed = 0
  /\ job = [w \in Workers |-> Idle]
  /\ crashes = 0
  /\ asked = FALSE /\ late = FALSE /\ served = 0 /\ built = 0

At(w, pc)     == job[w].pc = pc
Becomes(w, j) == job' = [job EXCEPT ![w] = j]
Ends(w)       == Becomes(w, Idle)
Moves(w, pc)  == Becomes(w, Doing(pc, job[w].kind, job[w].for, job[w].letter, NoLetter))
Leaves(w, pc) == Becomes(w, Doing(pc, job[w].kind, 0, job[w].letter, NoLetter))

Clerk   == <<mix, identity, delivery>>
Row     == <<user, born, asked, late>>
Metered == <<used, completed, served, built>>
Round   == <<batch, pending>>
Mail    == <<letters, Round>>
-----------------------------------------------------------------------------
(* Signing in: the profile is fetched from Clerk, then the row is created. *)

FetchProfile(r) ==
  /\ At(r, "idle") /\ identity /\ user = 0
  /\ Becomes(r, Doing("signing in", "none", 0, NoLetter, NoLetter))
  /\ UNCHANGED <<Clerk, Row, Metered, Mail, crashes>>

\* A second sign-in that lost the race finds the winner's row.
CreateUser(r) ==
  /\ At(r, "signing in")
  /\ Ends(r)
  /\ IF user # 0 \/ born = MaxUsers
     THEN UNCHANGED Row
     ELSE /\ user' = born + 1 /\ born' = born + 1
          /\ late' = ~identity
          /\ asked' = FALSE
  /\ UNCHANGED <<Clerk, Metered, Mail, crashes>>
-----------------------------------------------------------------------------
(* Who asks for a deletion.                                                *)

ProfileDelete(r) ==
  /\ "profile" \in mix
  /\ At(r, "idle") /\ user # 0
  /\ asked' = TRUE
  /\ Becomes(r, Doing("deleting", "profile", user, NoLetter, NoLetter))
  /\ UNCHANGED <<Clerk, user, born, late, Metered, Mail, crashes>>

\* The person, or an administrator, removes the identity at Clerk.
RemoveIdentity ==
  /\ "webhook" \in mix
  /\ identity
  /\ identity' = FALSE /\ delivery' = TRUE
  /\ UNCHANGED <<mix, Row, Metered, Mail, job, crashes>>

\* With no row for the identity the webhook answers 200 at once.
Webhook(r) ==
  /\ At(r, "idle") /\ delivery
  /\ IF user = 0
     THEN delivery' = FALSE /\ UNCHANGED job
     ELSE Becomes(r, Doing("deleting", "webhook", user, NoLetter, NoLetter)) /\ UNCHANGED delivery
  /\ UNCHANGED <<mix, identity, Row, Metered, Mail, crashes>>

Retried(i) == letters[i].open /\ letters[i].attempts < MaxAttempts

\* A round reads its letters at once, the oldest, in one session.
SweepStart ==
  /\ At(Sweeper, "idle")
  /\ LET todo == {i \in DOMAIN letters : Retried(i)}
     IN  /\ todo # {}
         /\ batch' = {<<i, letters[i].attempts>> :
                        i \in {k \in todo : Cardinality({l \in todo : l < k}) < BatchLimit}}
  /\ Becomes(Sweeper, Doing("round", "sweep", 0, NoLetter, NoLetter))
  /\ UNCHANGED <<Clerk, Row, Metered, letters, pending, crashes>>

\* The change to the letter at hand, once it is decided, that the session has
\* yet to write: closed, or with the attempts it was read with and one more.
OneMore(n) == IF n < MaxAttempts THEN n + 1 ELSE MaxAttempts

Change(closes, n) == {[letter |-> job[Sweeper].letter[1], closes |-> closes, attempts |-> n]}

Dirty ==
  IF At(Sweeper, "resolving") THEN Change(TRUE, job[Sweeper].letter[2])
  ELSE IF At(Sweeper, "counting") THEN Change(FALSE, OneMore(job[Sweeper].letter[2]))
  ELSE {}

Between == job[Sweeper].pc \in {"round", "resolving", "counting"}

\* The letters with these changes.
Written(changes) ==
  [i \in DOMAIN letters |->
     IF \E c \in changes : c.letter = i
     THEN LET c == CHOOSE c \in changes : c.letter = i
          IN  IF c.closes THEN [letters[i] EXCEPT !.open = FALSE]
                          ELSE [letters[i] EXCEPT !.attempts = c.attempts]
     ELSE letters[i]]

\* The next letter. Looking its row up, by its id and then by the identity,
\* first writes what the letter before was given; a letter with no row left is
\* resolved, whatever it was about.
SweepNext ==
  /\ Between
  /\ \E l \in batch :
       /\ \A k \in batch : l[1] <= k[1]
       /\ batch' = batch \ {l}
       /\ Becomes(Sweeper, Doing(IF user = 0 THEN "resolving" ELSE "deleting",
                                 "sweep", user, l, NoLetter))
  /\ pending' = pending \cup Dirty
  /\ UNCHANGED <<Clerk, Row, Metered, letters, crashes>>

\* The round is over and commits what is left to commit.
SweepEnd ==
  /\ Between /\ batch = {}
  /\ letters' = Written(pending \cup Dirty)
  /\ pending' = {}
  /\ Ends(Sweeper)
  /\ UNCHANGED <<Clerk, Row, Metered, batch, crashes>>

\* The database, or cancelling the subscription, raises something else than a
\* lock that is taken and a purge that failed. Nothing catches it: the round
\* rolls back, and the maintenance task is gone until the process restarts.
SweepAborts ==
  /\ Between \/ At(Sweeper, "deleting")
  /\ Becomes(Sweeper, Doing("dead", "sweep", 0, NoLetter, NoLetter))
  /\ batch' = {} /\ pending' = {}
  /\ UNCHANGED <<Clerk, Row, Metered, letters, crashes>>
-----------------------------------------------------------------------------
(* delete_user_account, whoever calls it.                                  *)

Deleting(w, u) == At(w, "purging") /\ job[w].for = u

\* What the caller makes of a deletion that is done, and of one that is not.
Done(w) ==
  IF job[w].kind = "sweep"
  THEN Leaves(w, "resolving") /\ UNCHANGED delivery
  ELSE Ends(w) /\ delivery' = (delivery /\ job[w].kind # "webhook")

\* Mutant: the webhook answers 200 to a deletion that failed.
NotDoneButAnswered(w) ==
  IF job[w].kind = "sweep"
  THEN Leaves(w, "counting") /\ UNCHANGED delivery
  ELSE Ends(w) /\ delivery' = (delivery /\ job[w].kind # "webhook")

NotDone(w) ==
  /\ IF job[w].kind = "sweep" THEN Leaves(w, "counting") ELSE Ends(w)
  /\ UNCHANGED delivery

\* pg_try_advisory_xact_lock on the row's id.
TryLock(w) ==
  /\ At(w, "deleting")
  /\ IF \E v \in Workers : Deleting(v, job[w].for)
     THEN NotDone(w)
     ELSE Moves(w, "purging") /\ UNCHANGED delivery
  /\ UNCHANGED <<mix, identity, Row, Metered, Mail, crashes>>

\* The commit is that of the caller's session, and the sweep's session has
\* letters to write.
Commits(w) ==
  IF job[w].kind = "sweep"
  THEN letters' = Written(pending) /\ pending' = {} /\ UNCHANGED batch
  ELSE UNCHANGED Mail

\* Mutant: whatever row the identity has now is purged.
PurgeByIdentity(w) ==
  /\ At(w, "purging")
  /\ IF user = 0
     THEN Done(w) /\ UNCHANGED <<Row, Metered>>
     ELSE /\ user' = 0 /\ asked' = FALSE /\ late' = FALSE
          /\ used' = [r \in Resources |-> 0] /\ completed' = 0 /\ served' = 0 /\ built' = 0
          /\ IF job[w].kind = "profile"
             THEN Leaves(w, "unlinking") /\ UNCHANGED delivery
             ELSE Done(w)
          /\ UNCHANGED born
  /\ Commits(w)
  /\ UNCHANGED <<mix, identity, crashes>>

\* The row and all it owns go in one commit; a row that is gone already is no
\* error.
Purge(w) ==
  /\ At(w, "purging")
  /\ IF user # job[w].for
     THEN Done(w) /\ UNCHANGED <<Row, Metered>>
     ELSE /\ user' = 0 /\ asked' = FALSE /\ late' = FALSE
          /\ used' = [r \in Resources |-> 0] /\ completed' = 0 /\ served' = 0 /\ built' = 0
          /\ IF job[w].kind = "profile"
             THEN Leaves(w, "unlinking") /\ UNCHANGED delivery
             ELSE Done(w)
          /\ UNCHANGED born
  /\ Commits(w)
  /\ UNCHANGED <<mix, identity, crashes>>

PurgeFails(w) ==
  /\ At(w, "purging")
  /\ Leaves(w, "failing")
  /\ UNCHANGED <<Clerk, Row, Metered, Mail, crashes>>

\* Clerk removes the identity and will announce it.
Unlink(w) ==
  /\ At(w, "unlinking") /\ identity
  /\ identity' = FALSE /\ delivery' = TRUE
  /\ Ends(w)
  /\ UNCHANGED <<mix, Row, Metered, Mail, crashes>>

\* Clerk refuses, knows no such person, or its answer is lost.
UnlinkFails(w) ==
  /\ At(w, "unlinking")
  /\ \/ UNCHANGED <<identity, delivery>>
     \/ identity /\ identity' = FALSE /\ delivery' = TRUE
  /\ Leaves(w, "failing")
  /\ UNCHANGED <<mix, Row, Metered, Mail, crashes>>
-----------------------------------------------------------------------------
(* Dead letters: an open one is read, then written back, or one is added.  *)

RecordRead(w) ==
  /\ At(w, "failing")
  /\ LET open == {i \in DOMAIN letters : letters[i].open}
         note == IF open = {} THEN {NoLetter} ELSE {<<i, letters[i].attempts>> : i \in open}
     IN \E n \in note :
          Becomes(w, Doing("recording", job[w].kind, 0, job[w].letter, n))
  /\ UNCHANGED <<Clerk, Row, Metered, Mail, crashes>>

\* Mutant: the attempt is counted, and so written, before the purge is tried.
LockedFromTheTry(i) ==
  \/ \E c \in pending : c.letter = i
  \/ At(Sweeper, "recording") /\ job[Sweeper].letter[1] = i

\* The sweep's transaction has written the letter: its row is locked until it
\* commits.
Locked(i) == \E c \in pending : c.letter = i

\* In a session of its own, which waits for the row without a limit.
RecordWrite(w) ==
  /\ At(w, "recording")
  /\ IF job[w].note = NoLetter
     THEN /\ Len(letters) < MaxLetters
          /\ letters' = Append(letters, [open |-> TRUE, attempts |-> 1])
     ELSE /\ ~Locked(job[w].note[1])
          /\ letters' = [letters EXCEPT ![job[w].note[1]].attempts = OneMore(job[w].note[2])]
  /\ NotDone(w)
  /\ UNCHANGED <<mix, identity, Row, Metered, Round, crashes>>

\* The record is tried once; an error is logged.
RecordFails(w) ==
  /\ At(w, "recording")
  /\ NotDone(w)
  /\ UNCHANGED <<mix, identity, Row, Metered, Mail, crashes>>
-----------------------------------------------------------------------------
(* Reservations: lock, count what is committed, insert, commit.            *)

Reserve(r) ==
  /\ At(r, "idle") /\ user # 0
  /\ \E k \in Resources \cap mix : Becomes(r, Doing("reserving", k, user, NoLetter, NoLetter))
  /\ UNCHANGED <<Clerk, Row, Metered, Mail, crashes>>

Rival(q, r) == job[q].kind = job[r].kind /\ job[q].for = job[r].for

\* Mutant: counting refreshes the billing period, whose commit ends the lock.
HeldUntilCounted(q, r) == At(q, "locked") /\ Rival(q, r)

Held(q, r) == job[q].pc \in {"locked", "counted"} /\ Rival(q, r)

\* A call or a wizard gives up when its lock is taken, a new tree waits.
LockPlan(r) ==
  /\ At(r, "reserving")
  /\ IF \E q \in Requests : Held(q, r)
     THEN job[r].kind # "tree" /\ Ends(r)
     ELSE Moves(r, "locked")
  /\ UNCHANGED <<Clerk, Row, Metered, Mail, crashes>>

Mine(r) == job[r].for = user

Full(k) == used[k] >= Allowance[k]

\* A wizard needs room for the tree it is to build as well, and a completion
\* left of the month.
Refused(k) == Full(k) \/ (k = "wizard" /\ (Full("tree") \/ completed >= Completions))

CheckPlan(r) ==
  /\ At(r, "locked")
  /\ IF Mine(r) /\ Refused(job[r].kind)
     THEN Ends(r)
     ELSE Moves(r, "counted")
  /\ UNCHANGED <<Clerk, Row, Metered, Mail, crashes>>

\* The insert of a row for a user who is gone fails.
Spend(r) ==
  /\ At(r, "counted")
  /\ IF Mine(r)
     THEN /\ used' = [used EXCEPT ![job[r].kind] = @ + 1]
          /\ IF job[r].kind = "call" THEN Moves(r, "serving") ELSE Ends(r)
     ELSE Ends(r) /\ UNCHANGED used
  /\ UNCHANGED <<Clerk, Row, completed, served, built, Mail, crashes>>

\* The handler returns and the reserved row gets its outcome; the weight of a
\* client's error is returned, unless the update is lost: the row then counts
\* on, as reserved.
Answer(r) ==
  /\ At(r, "serving")
  /\ Ends(r)
  /\ \/ Mine(r) /\ served' = served + 1 /\ UNCHANGED <<used, completed, built>>
     \/ Mine(r) /\ used' = [used EXCEPT !["call"] = @ - 1] /\ UNCHANGED <<completed, served, built>>
     \/ ~Mine(r) /\ UNCHANGED Metered
  /\ UNCHANGED <<Clerk, Row, Mail, crashes>>

\* The last phase of a wizard runs in the request that submits the design.
BuildStart(r) ==
  /\ At(r, "idle") /\ used["wizard"] > 0
  /\ Becomes(r, Doing("building", "wizard", user, NoLetter, NoLetter))
  /\ UNCHANGED <<Clerk, Row, Metered, Mail, crashes>>

\* The tree is inserted without a reservation.
BuildSave(r) ==
  /\ At(r, "building")
  /\ IF Mine(r)
     THEN /\ built < MaxBuilds
          /\ used' = [used EXCEPT !["tree"] = @ + 1] /\ built' = built + 1
          /\ Moves(r, "built")
     ELSE Ends(r) /\ UNCHANGED <<used, built>>
  /\ UNCHANGED <<Clerk, Row, completed, served, Mail, crashes>>

\* The completion is recorded, unless the tree has errors left, the wizard has
\* completed before or was given up, or the insert is lost.
BuildRecord(r) ==
  /\ At(r, "built")
  /\ Moves(r, "recorded")
  /\ \/ Mine(r) /\ completed' = completed + 1
     \/ UNCHANGED completed
  /\ UNCHANGED <<Clerk, Row, used, served, built, Mail, crashes>>

\* complete_generation deletes the wizard's row, unless it was given up while
\* the build ran.
BuildEnd(r) ==
  /\ At(r, "recorded")
  /\ Ends(r)
  /\ \/ Mine(r) /\ used["wizard"] > 0 /\ used' = [used EXCEPT !["wizard"] = @ - 1]
     \/ UNCHANGED used
  /\ UNCHANGED <<Clerk, Row, completed, served, built, Mail, crashes>>

\* A tree is deleted; a wizard is given up or expires.
Delete ==
  /\ \E k \in {"tree", "wizard"} :
       used[k] > 0 /\ used' = [used EXCEPT ![k] = @ - 1]
  /\ UNCHANGED <<Clerk, Row, completed, served, built, Mail, job, crashes>>
-----------------------------------------------------------------------------
\* Calls under way, whose rows are reserved.
Serving == {r \in Requests : At(r, "serving") /\ Mine(r)}

\* The process stops: open transactions roll back and their locks go; a call
\* under way is broken off, and its row stays reserved.
Restart ==
  /\ crashes < MaxCrashes
  /\ crashes' = crashes + 1
  /\ job' = [w \in Workers |-> Idle]
  /\ batch' = {} /\ pending' = {}
  /\ served' = served + Cardinality(Serving)
  /\ UNCHANGED <<Clerk, Row, used, completed, built, letters>>

Deletes(w) == TryLock(w) \/ Purge(w) \/ PurgeFails(w) \/ RecordRead(w) \/ RecordWrite(w)

SignIn(r) == FetchProfile(r) \/ CreateUser(r)
Ask(r)    == ProfileDelete(r) \/ Webhook(r)
Quota(r)  == Reserve(r) \/ LockPlan(r) \/ CheckPlan(r) \/ Spend(r) \/ Answer(r)
Build(r)  == BuildStart(r) \/ BuildSave(r) \/ BuildRecord(r) \/ BuildEnd(r)
Sweep     == SweepStart \/ SweepNext \/ SweepEnd

Next ==
  \/ \E r \in Requests : SignIn(r) \/ Ask(r) \/ Quota(r) \/ Build(r)
  \/ \E w \in Workers : Deletes(w) \/ Unlink(w) \/ UnlinkFails(w) \/ RecordFails(w)
  \/ Sweep \/ SweepAborts
  \/ RemoveIdentity \/ Delete \/ Restart

\* The maintenance task wakes every day and goes on with its round. An
\* exception need not come, not even to a session that waits for ever.
Fairness == WF_vars(Sweep \/ Deletes(Sweeper))

Spec == Init /\ [][Next]_vars /\ Fairness
-----------------------------------------------------------------------------
Letter == [open : BOOLEAN, attempts : 0..MaxAttempts]
Seen   == Nat \X (0..MaxAttempts)
Pcs    == {"idle", "signing in", "deleting", "purging", "unlinking", "failing", "recording",
           "round", "resolving", "counting", "dead", "reserving", "locked", "counted",
           "serving", "building", "built", "recorded"}
Changes == [letter : Nat, closes : BOOLEAN, attempts : 0..MaxAttempts]
Kinds  == Resources \cup {"none", "profile", "webhook", "sweep"}

\* The values the rows and the workers can take.
TypeOK ==
  /\ mix \in Mixes
  /\ identity \in BOOLEAN /\ delivery \in BOOLEAN /\ asked \in BOOLEAN /\ late \in BOOLEAN
  /\ user \in 0..MaxUsers /\ born \in 0..MaxUsers
  /\ letters \in Seq(Letter) /\ batch \subseteq Seen /\ pending \subseteq Changes
  /\ used \in [Resources -> Nat] /\ completed \in Nat /\ served \in Nat /\ built \in Nat
  /\ job \in [Workers -> [pc : Pcs, kind : Kinds, for : 0..MaxUsers, letter : Seen, note : Seen]]

\* However calls and creations overlap, whatever is deleted or crashes between
\* their steps, the plan's allowance of calls and of wizards is never exceeded,
\* every call under way, carried out or broken off by a restart is counted, and
\* once, and only trees that wizards built, which reserve nothing, come on top
\* of the allowance (reserve_mcp_quota, reserve_decision_tree_slot,
\* start_new_generation: refresh, lock, re-check, INSERT, commit).
WithinPlan ==
  /\ used["call"] <= Allowance["call"] /\ used["wizard"] <= Allowance["wizard"]
  /\ used["tree"] <= Allowance["tree"] + built
  /\ served + Cardinality(Serving) = used["call"]

\* A row whose Clerk identity is gone is still to be purged by a webhook that
\* Clerk keeps delivering; only a sign-in that had fetched the profile before
\* and created the row afterwards leaves one behind (_handle_user_deleted
\* answers 500 until the purge is done).
RowsFollowTheIdentity == user # 0 /\ ~identity => delivery \/ late

\* A row is purged only because its own owner asked for it, because its identity
\* is gone at Clerk, or on account of a dead letter that is still open. (A letter
\* outlives the row it was written for: it can purge the next one.)
PurgesAreOwed ==
  [][user # 0 /\ user' = 0 =>
       \/ asked
       \/ ~identity
       \/ At(Sweeper, "purging") /\ letters[job[Sweeper].letter[1]].open]_vars

\* A sweep that waits for a letter its own transaction has written: it waits
\* for ever, and so does whoever records a failure in that letter meanwhile.
WaitsForItself ==
  /\ At(Sweeper, "recording") /\ job[Sweeper].note # NoLetter
  /\ Locked(job[Sweeper].note[1])

\* Every dead letter is resolved or has had its attempts, whatever the requests
\* do in the meantime, unless an exception ends the maintenance task, or the
\* sweep comes to wait for itself; and one letter alone, which is what recording
\* a failure aims at, cannot make it wait: that takes two open at a time, left
\* by two failures recorded at once (retry_pending_account_deletions,
\* record_account_deletion_failure).
DeadLettersAreWorkedOff ==
  \A i \in 1..MaxLetters :
    i \in DOMAIN letters ~>
      \/ i \in DOMAIN letters /\ (~letters[i].open \/ letters[i].attempts = MaxAttempts)
      \/ At(Sweeper, "dead")
      \/ WaitsForItself /\ Cardinality({k \in DOMAIN letters : letters[k].open}) > 1
=============================================================================
