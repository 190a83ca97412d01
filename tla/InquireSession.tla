--------------------------- MODULE InquireSession ---------------------------
(***************************************************************************)
(* One persisted inquiry session and the server processes that serve it    *)
(* (orchestration/inquire/persist). A mutation locks the session row with  *)
(* SELECT ... FOR UPDATE, answers from the receipt if the key was used,    *)
(* checks status, revision and policy, changes the evidence, runs ANALYZE  *)
(* again, and commits the rows, the new revision and a receipt at once.    *)
(* A read (next_directive) reads the three tables one statement after the  *)
(* other, without a lock, at READ COMMITTED.                               *)
(*                                                                         *)
(* Each call runs in a database session of its own, whose identity map     *)
(* keeps the session row as first loaded: row[p]. A later SELECT, with or  *)
(* without FOR UPDATE, does not refresh it (load_owned_session has no      *)
(* populate_existing). Here the locking SELECT is the first load; a module *)
(* that extends this one adds callers for which it is not.                 *)
(*                                                                         *)
(* Left out: the artifact and the catalog are frozen at start and identify *)
(* the same tree for the whole session; events are written, and (chat      *)
(* reports apart) never read; replies, replays and errors change nothing.  *)
(***************************************************************************)
EXTENDS InquireKernel

CONSTANTS
  Ir,               \* the frozen artifact's IR
  Phis,             \* assumptions a client may pin at start
  Provenances,
  PolicyVersions,   \* versions of the verification policy servers may run
  Servers,          \* processes that serve mutations
  Readers,          \* processes that serve next_directive
  Keys,             \* idempotency keys a receipt may be stored under
  ClientKeys,       \* those an orchestrator picks
  SolverMayGiveUp   \* whether ANALYZE may run out of budget or time

ASSUME KeysAssumption == ClientKeys \subseteq Keys
ASSUME SolverAssumption == SolverMayGiveUp \in BOOLEAN
ASSUME ServersAssumption == "nobody" \notin Servers

VARIABLES
  session,    \* the inquiry_sessions row
  admitted,   \* the inquiry_admitted_assertions rows
  verified,   \* the inquiry_verified_assertions rows
  receipts,   \* the inquiry_mutation_receipts rows, by idempotency key
  lock,       \* the server whose transaction holds the row lock, or Nobody
  row,        \* per server: the session row in its identity map
  reading     \* per reader: what next_directive has read so far

caseRows == <<session, admitted, verified, receipts>>
vars     == <<session, admitted, verified, receipts, lock, row, reading>>

Statuses == {"ACTIVE", "STOPPED", "ABANDONED"}
NoReason == "none"
Row == [status : Statuses, reason : StopReasons \cup {NoReason},
        revision : Nat, phi : Phis, pv : PolicyVersions]
NoRow == [status |-> "NONE", reason |-> NoReason, revision |-> 0]

Options    == UNION {Ir.options[q] : q \in Ir.questions}
Abstain    == "abstain"
Assertions == [q : Ir.questions, opt : Options, prov : Provenances]
VKeys      == [q : Ir.questions, opt : Options, prov : Provenances, pv : PolicyVersions]

\* What request_hash covers. Observations only matter by whether all of them
\* agree with the answer under verification.
Payloads ==
  [op : {"admit"}, q : Ir.questions, opt : Options \cup {Abstain}, prov : Provenances]
    \cup [op : {"verify"}, vkey : VKeys, agree : BOOLEAN]

\* A mutation: what was asked, under which key, against which revision, and
\* the policy version of the process it landed on (a release is rolled out
\* process by process). A client names a revision an earlier answer gave it.
\* Nothing of it is looked at before the lock is held.
Mutations(keys) ==
  [payload : Payloads, key : keys, expected : 1..session.revision, pv : PolicyVersions]
Nobody      == "nobody"
Receipts    == [op : {"admit", "verify"}, payload : Payloads, expected : Nat \ {0},
                revision : Nat, action : {"ACQUIRE", "VERIFY", "STOP"}]
NoReceipt   == [op |-> "none"]
NoRead      == [at |-> "idle"]
Reads       == {NoRead} \cup [at : {"row"}, row : Row]
                 \cup [at : {"admitted"}, row : Row, admitted : SUBSET Assertions]
                 \cup [at : {"raised"}, revision : Nat, reason : StopReasons]

Theories == [phi \in Phis |-> Theory(Ir, phi)]
Outcomes(phi, adm, ver, pv) ==
  AnalyzeOutcomes(Ir, Theories[phi], adm, ver, pv, SolverMayGiveUp)

Init ==
  /\ session = NoRow /\ admitted = {} /\ verified = {}
  /\ receipts = [k \in Keys |-> NoReceipt]
  /\ lock = Nobody
  /\ row = [p \in Servers |-> NoRow]
  /\ reading = [r \in Readers |-> NoRead]

-----------------------------------------------------------------------------
(* start_inquiry: one transaction that inserts the row, analyzes the empty *)
(* evidence and may stop at once.                                          *)

Start ==
  /\ session = NoRow
  /\ \E phi \in Phis, pv \in PolicyVersions : \E d \in Outcomes(phi, {}, {}, pv) :
       LET stop == d.action = "STOP"
       IN  session' = [status   |-> IF stop THEN "STOPPED" ELSE "ACTIVE",
                       reason   |-> IF stop THEN d.reason ELSE NoReason,
                       revision |-> IF stop THEN 2 ELSE 1,
                       phi      |-> phi,
                       pv       |-> pv]
  /\ UNCHANGED <<admitted, verified, receipts, lock, row, reading>>

-----------------------------------------------------------------------------
(* Mutations.                                                              *)

\* SELECT ... FOR UPDATE waits for the lock and keeps a row already loaded.
Lock(p) ==
  /\ session # NoRow
  /\ lock = Nobody /\ lock' = p
  /\ row' = [row EXCEPT ![p] = IF @ = NoRow THEN session ELSE @]
  /\ UNCHANGED <<caseRows, reading>>

\* The transaction ends and the database session is closed.
Close(p) ==
  /\ lock = p /\ lock' = Nobody
  /\ row' = [row EXCEPT ![p] = NoRow]

\* Mutants: each without one of the checks of MayMutate.
MayMutateReplayed(p, c) ==
  /\ row[p].status = "ACTIVE"
  /\ c.expected = row[p].revision
  /\ row[p].pv = c.pv

MayMutateClosed(p, c) ==
  /\ receipts[c.key] = NoReceipt
  /\ row[p] # NoRow
  /\ c.expected = row[p].revision
  /\ row[p].pv = c.pv

MayMutateUnseen(p, c) ==
  /\ receipts[c.key] = NoReceipt
  /\ row[p].status = "ACTIVE"
  /\ row[p].pv = c.pv

MayMutateAnyPolicy(p, c) ==
  /\ receipts[c.key] = NoReceipt
  /\ row[p].status = "ACTIVE"
  /\ c.expected = row[p].revision

\* _lookup_receipt, _require_active, _check_expected_revision and
\* _require_policy_pin, in this order, on the row in the identity map.
MayMutate(p, c) ==
  /\ receipts[c.key] = NoReceipt
  /\ row[p].status = "ACTIVE"
  /\ c.expected = row[p].revision
  /\ row[p].pv = c.pv

\* Mutant: a STOP is answered and not stored.
CommitNoStop(p, c, changed, d) ==
  LET rev == row[p].revision + (IF changed THEN 1 ELSE 0)
  IN  /\ session' = [session EXCEPT !.revision = IF changed THEN rev ELSE @]
      /\ receipts' = [receipts EXCEPT ![c.key] =
                        [op |-> c.payload.op, payload |-> c.payload,
                         expected |-> c.expected, revision |-> rev, action |-> d.action]]

\* The row is written only if an attribute was assigned: the new revision
\* is computed from the loaded one (_apply_stop_if_needed for the stop).
Commit(p, c, changed, d) ==
  LET stop == d.action = "STOP"
      rev  == row[p].revision + (IF changed THEN 1 ELSE 0) + (IF stop THEN 1 ELSE 0)
  IN  /\ session' = [session EXCEPT
                       !.revision = IF changed \/ stop THEN rev ELSE @,
                       !.status   = IF stop THEN "STOPPED" ELSE @,
                       !.reason   = IF stop THEN d.reason ELSE @]
      /\ receipts' = [receipts EXCEPT ![c.key] =
                        [op       |-> c.payload.op,
                         payload  |-> c.payload,
                         expected |-> c.expected,
                         revision |-> rev,
                         action   |-> d.action]]

Answer(payload) == [q |-> payload.q, opt |-> payload.opt, prov |-> payload.prov]

\* Mutants: the rewritten table holds the new answer alone; an answer takes
\* the place of an earlier one to the same question.
AdmitAlone(p, c) ==
  /\ lock = p /\ c.payload.op = "admit"
  /\ MayMutate(p, c)
  /\ LET a        == Answer(c.payload)
         answered == a.opt # Abstain
     IN  /\ answered => CanAdmit(Ir, admitted, a)
         /\ admitted' = IF answered THEN {a} ELSE admitted
         /\ \E d \in Outcomes(row[p].phi, admitted', verified, c.pv) :
              Commit(p, c, answered, d)
  /\ UNCHANGED <<verified, reading>>
  /\ Close(p)

AdmitInPlace(p, c) ==
  /\ lock = p /\ c.payload.op = "admit"
  /\ MayMutate(p, c)
  /\ LET a        == Answer(c.payload)
         answered == a.opt # Abstain
         others   == {b \in admitted : b.q # a.q}
     IN  /\ answered => CanAdmit(Ir, others, a)
         /\ admitted' = IF answered THEN others \cup {a} ELSE admitted
         /\ \E d \in Outcomes(row[p].phi, admitted', verified, c.pv) :
              Commit(p, c, answered, d)
  /\ UNCHANGED <<verified, reading>>
  /\ Close(p)

\* admit_to_session: the question need not be the one ANALYZE last issued.
AdmitCommit(p, c) ==
  /\ lock = p /\ c.payload.op = "admit"
  /\ MayMutate(p, c)
  /\ LET a        == Answer(c.payload)
         answered == a.opt # Abstain
     IN  /\ answered => CanAdmit(Ir, admitted, a)
         /\ admitted' = IF answered THEN admitted \cup {a} ELSE admitted
         /\ \E d \in Outcomes(row[p].phi, admitted', verified, c.pv) :
              Commit(p, c, answered, d)
  /\ UNCHANGED <<verified, reading>>
  /\ Close(p)

\* verify_session: ANALYZE must issue VERIFY for this very key again; then
\* the default policy retains if all observations agree, and otherwise
\* decides nothing.
VerifyCommit(p, c) ==
  /\ lock = p /\ c.payload.op = "verify"
  /\ MayMutate(p, c)
  /\ LET k      == c.payload.vkey
         retain == c.payload.agree
     IN  /\ Verify(k) \in Outcomes(row[p].phi, admitted, verified, c.pv)
         /\ LiveFor(admitted, k) # {}
         /\ verified' = IF retain THEN verified \cup {k} ELSE verified
         /\ \E d \in Outcomes(row[p].phi, admitted, verified', c.pv) :
              Commit(p, c, retain, d)
  /\ UNCHANGED <<admitted, reading>>
  /\ Close(p)

\* Mutant: the status moves and the revision does not.
AbandonSameRevision(p) ==
  /\ lock = p
  /\ row[p].status # "ABANDONED"
  /\ session' = [session EXCEPT !.status = "ABANDONED"]
  /\ UNCHANGED <<admitted, verified, receipts, reading>>
  /\ Close(p)

\* abandon_session: from ACTIVE and from STOPPED.
AbandonCommit(p) ==
  /\ lock = p
  /\ row[p].status # "ABANDONED"
  /\ session' = [session EXCEPT !.status = "ABANDONED", !.revision = row[p].revision + 1]
  /\ UNCHANGED <<admitted, verified, receipts, reading>>
  /\ Close(p)

\* A replay, an error or a crash before the commit: the transaction is
\* rolled back. A crash after the commit is a commit whose reply is lost:
\* the client repeats the call with the same key.
RollBack(p) ==
  /\ Close(p)
  /\ UNCHANGED <<caseRows, reading>>

-----------------------------------------------------------------------------
(* next_directive: three reads, then ANALYZE on what they returned. It is  *)
(* only served by a process of the pinned policy version.                  *)

\* Only a read that finds ACTIVE can go wrong; the others answer from what
\* they read and leave no trace.
ReadRow(r) ==
  /\ reading[r] = NoRead
  /\ session.status = "ACTIVE"
  /\ reading' = [reading EXCEPT ![r] = [at |-> "row", row |-> session]]
  /\ UNCHANGED <<caseRows, lock, row>>

ReadAdmitted(r) ==
  /\ reading[r].at = "row"
  /\ reading' = [reading EXCEPT ![r] =
                   [at |-> "admitted", row |-> reading[r].row, admitted |-> admitted]]
  /\ UNCHANGED <<caseRows, lock, row>>

\* inquire_session_invariant is raised when ANALYZE says STOP of a session
\* that reads as ACTIVE. Any other reply leaves no trace.
ReadVerifiedAndAnswer(r) ==
  /\ reading[r].at = "admitted"
  /\ LET seen == reading[r].row
     IN  \E d \in Outcomes(seen.phi, reading[r].admitted, verified, seen.pv) :
           reading' = [reading EXCEPT ![r] =
             IF d.action = "STOP"
             THEN [at |-> "raised", revision |-> seen.revision, reason |-> d.reason]
             ELSE NoRead]
  /\ UNCHANGED <<caseRows, lock, row>>

\* The error is sent; or the call fails or crashes on the way.
EndRead(r) ==
  /\ reading[r] # NoRead
  /\ reading' = [reading EXCEPT ![r] = NoRead]
  /\ UNCHANGED <<caseRows, lock, row>>

-----------------------------------------------------------------------------
Mutate(p) ==
  \/ row[p] = NoRow /\ Lock(p)
  \/ \E c \in Mutations(ClientKeys) : AdmitCommit(p, c) \/ VerifyCommit(p, c)
  \/ AbandonCommit(p)
  \/ RollBack(p)

Read(r) == ReadRow(r) \/ ReadAdmitted(r) \/ ReadVerifiedAndAnswer(r) \/ EndRead(r)

Next ==
  \/ Start
  \/ \E p \in Servers : Mutate(p)
  \/ \E r \in Readers : Read(r)

Spec == Init /\ [][Next]_vars

-----------------------------------------------------------------------------
(* Properties.                                                             *)

\* The four tables and the processes hold what their columns allow.
TypeOK ==
  /\ session \in Row \cup {NoRow}
  /\ admitted \subseteq Assertions
  /\ verified \subseteq VKeys
  /\ receipts \in [Keys -> Receipts \cup {NoReceipt}]
  /\ \A k \in Keys : receipts[k] # NoReceipt => receipts[k].op = receipts[k].payload.op
  /\ row \in [Servers -> Row \cup {NoRow}]
  /\ lock \in Servers \cup {Nobody}
  /\ reading \in [Readers -> Reads]

\* revision = version(E, verified, assumptions, status): a step that changes
\* any of the four moves the revision up, and none moves it back, so a
\* revision names one state of the case for good (Option A, models.py).
CaseContent == <<admitted, verified, session.phi, session.status>>
RevisionIsVersion ==
  [][session # NoRow =>
       /\ session'.revision >= session.revision
       /\ CaseContent' # CaseContent => session'.revision > session.revision]_vars

\* A mutation is applied only to the case its client has seen: the revision
\* the receipt records as expected is the one committed just before, the
\* session was ACTIVE, and no receipt is ever replaced.
NoStaleWriter ==
  [][\A k \in Keys : receipts'[k] # receipts[k] =>
       /\ receipts[k] = NoReceipt
       /\ session.status = "ACTIVE"
       /\ receipts'[k].expected = session.revision]_vars

\* What a receipt acknowledged is in the case: no later writer, although it
\* rewrites the whole table from its own read, loses an admitted answer or a
\* retained key (_replace_admitted, _replace_verified).
AcknowledgedStands ==
  \A k \in Keys : receipts[k] # NoReceipt =>
    LET p == receipts[k].payload
    IN  /\ p.op = "admit" /\ p.opt # Abstain => Answer(p) \in admitted
        /\ p.op = "verify" /\ p.agree => p.vkey \in verified

\* A question has at most one live answer, whichever clients raced for it.
OneLiveAnswerPerQuestion ==
  \A a, b \in admitted : a.q = b.q => a = b

\* ACTIVE means there is something left to do: whenever the committed
\* evidence makes ANALYZE say STOP, the commit that made it so has stopped
\* the session ("mutations must persist STOP", next_directive).
ActiveHasWorkLeft ==
  session.status = "ACTIVE" =>
    ExactDirective(Ir, Theories[session.phi], admitted, verified, session.pv).action # "STOP"

\* A stop that is a verdict stays true of the stored case: nothing that is
\* admitted or verified afterwards can undercut it.
StopStands ==
  session.status = "STOPPED" /\ session.reason \in SemanticReasons =>
    ExactDirective(Ir, Theories[session.phi], admitted, verified, session.pv)
      = Stop(session.reason)

\* Every key on file was retained under the policy version pinned at start,
\* whichever version the process that served the call was running, and the
\* answer it names is live.
VerifiedUnderPinnedPolicy ==
  \A k \in verified : k.pv = session.pv /\ LiveFor(admitted, k) # {}

\* Answers come in any order and need not be the ones asked for; still, once
\* they resolve the case to a conclusion, no further answer moves it to
\* another one or back to unresolved. At most it contradicts the assumptions.
ConclusionNeverFlips ==
  [][session # NoRow =>
       LET before == Resolved(Models(Theories[session.phi], Evidence(admitted)))
           after  == Models(Theories[session.phi], Evidence(admitted'))
       IN  before # {} => Resolved(after) = before \/ after = {}]_vars

\* The one semantic reason for a read to raise inquire_session_invariant is
\* a mutation committed between its statements: the case it then complains
\* of is no longer at the revision it read.
InvariantErrorMeansRace ==
  \A r \in Readers :
    reading[r].at = "raised" /\ reading[r].reason \in SemanticReasons =>
      session.revision > reading[r].revision

\* The locked, receipted, three-table protocol implements the versioned case.
Promise ==
  INSTANCE VersionedCase WITH
    Answers    <- Assertions,
    Checks     <- VKeys,
    ClientKeys <- Keys,
    status     <- session.status,
    version    <- session.revision,
    answers    <- admitted,
    checks     <- verified,
    acked      <- [k \in Keys |-> IF receipts[k] = NoReceipt THEN 0 ELSE receipts[k].expected]

ImplementsVersionedCase == Promise!CaseSpec
=============================================================================
