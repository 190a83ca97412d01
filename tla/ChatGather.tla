----------------------------- MODULE ChatGather -----------------------------
(***************************************************************************)
(* Guided evaluation from chat (smeme_reasoning_evaluate and ..._continue, *)
(* mcp/inquire/chat_facade.py) over the persisted session of               *)
(* InquireSession. The chat client sends no revision and no key: the       *)
(* server derives the key from the answer, and takes the revision from a   *)
(* read of its own made earlier in the same database session. That read    *)
(* puts the row in the identity map, so the locking SELECT of              *)
(* admit_to_session finds it loaded and leaves it as it was.               *)
(*                                                                         *)
(* When the admit ends the gather (STOP, or VERIFY, which chat does not    *)
(* run), the tool applies the tree to the admitted answers, persists the   *)
(* report as an evaluation run, and then notes CHAT_REPORT_ISSUED.         *)
(***************************************************************************)
EXTENDS InquireSession, Sequences

CONSTANTS
  Chats,     \* the servers that serve chat calls; the others serve orchestrators
  ChatKey(_, _, _),   \* the key minted for (question, option or abstain, provenance)
  ChatAnswers,        \* the answers chat clients send
  MaxRuns    \* bound on the evaluation runs persisted

ASSUME ChatsAssumption == Chats \subseteq Servers
ASSUME ChatAnswersAssumption == ChatAnswers \subseteq {x \in Payloads : x.op = "admit"}
ASSUME ChatKeyAssumption ==
  \A x \in ChatAnswers : ChatKey(x.q, x.opt, x.prov) \in Keys \ ClientKeys
ASSUME MaxRunsAssumption == MaxRuns \in Nat

VARIABLES
  chat,     \* per chat server: where its call is, and the answer it carries
  runs,     \* the envelopes of the evaluation runs persisted for the session
  issued    \* number of CHAT_REPORT_ISSUED events of the session

chatVars == <<chat, runs, issued>>
allVars  == <<vars, chatVars>>

Idle == [at |-> "idle"]
NoAnswer == [op |-> "none"]
NoPhi == [reachable |-> {}, unreachable |-> {}]

KeyOf(payload) == ChatKey(payload.q, payload.opt, payload.prov)

ChatInit ==
  /\ Init
  /\ chat = [p \in Chats |-> Idle]
  /\ runs = <<>> /\ issued = 0

At(p, where) == chat[p].at = where
Goto(p, where) == chat' = [chat EXCEPT ![p].at = where]

\* The tool returns, or fails, and its database session is closed: what it
\* has not committed is rolled back and a row lock it holds is released.
EndCall(p) ==
  /\ chat' = [chat EXCEPT ![p] = Idle]
  /\ row' = [row EXCEPT ![p] = NoRow]
  /\ lock' = IF lock = p THEN Nobody ELSE lock

-----------------------------------------------------------------------------
\* chat_evaluate_start: no assumptions; a tree that needs no answer stops at
\* once and is reported at once.
ChatStart(p) ==
  /\ At(p, "idle")
  /\ Start
  /\ session'.phi = NoPhi
  /\ chat' = [chat EXCEPT ![p] = IF session'.status = "STOPPED"
                                 THEN [at |-> "terminal", payload |-> NoAnswer]
                                 ELSE Idle]
  /\ UNCHANGED <<runs, issued>>

\* chat_evaluate_continue, first statement: the row is read without a lock.
Continue(p) ==
  /\ At(p, "idle")
  /\ session # NoRow
  /\ \E x \in ChatAnswers :
       chat' = [chat EXCEPT ![p] = [at |-> "read", payload |-> x]]
  /\ row' = [row EXCEPT ![p] = session]
  /\ UNCHANGED <<caseRows, lock, reading, runs, issued>>

\* A session that has been reported on is answered from that report.
CheckIssued(p) ==
  /\ At(p, "read")
  /\ \/ issued > 0 /\ EndCall(p)
     \/ issued = 0 /\ Goto(p, "unissued") /\ UNCHANGED <<row, lock>>
  /\ UNCHANGED <<caseRows, reading, runs, issued>>

\* lookup_admit_receipt: a repeated answer is refused or answered from its
\* receipt, flagged as already issued; neither writes anything.
LookupReceipt(p) ==
  /\ At(p, "unissued")
  /\ \/ receipts[KeyOf(chat[p].payload)] # NoReceipt /\ EndCall(p)
     \/ /\ receipts[KeyOf(chat[p].payload)] = NoReceipt
        /\ Goto(p, "new") /\ UNCHANGED <<row, lock>>
  /\ UNCHANGED <<caseRows, reading, runs, issued>>

ChatLock(p) ==
  /\ At(p, "new")
  /\ Lock(p)
  /\ Goto(p, "locked")
  /\ UNCHANGED <<runs, issued>>

\* Mutant: every admit is taken for the last one.
ChatAdmitAndReport(p) ==
  /\ At(p, "locked")
  /\ \E pv \in PolicyVersions :
       AdmitCommit(p, [payload  |-> chat[p].payload,
                       key      |-> KeyOf(chat[p].payload),
                       expected |-> row[p].revision,
                       pv       |-> pv])
  /\ Goto(p, "terminal")
  /\ UNCHANGED <<runs, issued>>

\* admit_to_session with expected_revision = the revision read before.
ChatAdmit(p) ==
  /\ At(p, "locked")
  /\ \E pv \in PolicyVersions :
       AdmitCommit(p, [payload  |-> chat[p].payload,
                       key      |-> KeyOf(chat[p].payload),
                       expected |-> row[p].revision,
                       pv       |-> pv])
  /\ IF receipts'[KeyOf(chat[p].payload)].action = "ACQUIRE"
     THEN chat' = [chat EXCEPT ![p] = Idle]
     ELSE Goto(p, "terminal")
  /\ UNCHANGED <<runs, issued>>

\* A receipt that appeared since the lookup: a stale one is refused; another
\* is returned like a first answer, not flagged as already issued, in a
\* transaction that stays open and keeps the lock.
ReplayUnderLock(p) ==
  /\ At(p, "locked")
  /\ LET receipt == receipts[KeyOf(chat[p].payload)]
         stale   == row[p].revision > receipt.revision
     IN  /\ receipt # NoReceipt
         /\ IF stale \/ receipt.action = "ACQUIRE"
            THEN EndCall(p)
            ELSE Goto(p, "terminal") /\ UNCHANGED <<row, lock>>
  /\ UNCHANGED <<caseRows, reading, runs, issued>>

-----------------------------------------------------------------------------
(* The report.                                                             *)

\* Mutant: the report is drawn from the answer of this call alone.
ReadOwnAnswer(p) ==
  /\ At(p, "terminal")
  /\ chat' = [chat EXCEPT ![p] =
                [at |-> "apply", payload |-> @.payload,
                 envelope |-> {a \in admitted : a = Answer(chat[p].payload)}]]
  /\ UNCHANGED <<vars, runs, issued>>

\* admitted_apply_envelope_for_session.
ReadEnvelope(p) ==
  /\ At(p, "terminal")
  /\ chat' = [chat EXCEPT ![p] = [at |-> "apply", payload |-> @.payload,
                                  envelope |-> admitted]]
  /\ UNCHANGED <<vars, runs, issued>>

\* Apply runs and commits in a database session of its own.
PersistRun(p) ==
  /\ At(p, "apply")
  /\ Len(runs) < MaxRuns
  /\ runs' = Append(runs, chat[p].envelope)
  /\ Goto(p, "applied")
  /\ UNCHANGED <<vars, issued>>

\* record_chat_report_issued looks for an earlier event ...
CheckRecorded(p) ==
  /\ At(p, "applied")
  /\ \/ issued > 0 /\ EndCall(p)
     \/ issued = 0 /\ Goto(p, "record") /\ UNCHANGED <<row, lock>>
  /\ UNCHANGED <<caseRows, reading, runs, issued>>

\* Mutant: recorded in a database session of its own, while this one may
\* still hold the row lock.
RecordElsewhere(p) ==
  /\ At(p, "record")
  /\ lock = Nobody
  /\ issued' = issued + 1
  /\ EndCall(p)
  /\ UNCHANGED <<caseRows, reading, runs>>

\* ... and appends one. The insert takes a key-share lock on the session row
\* it references, so it waits for another transaction's row lock.
RecordIssued(p) ==
  /\ At(p, "record")
  /\ lock \in {Nobody, p}
  /\ issued' = issued + 1
  /\ EndCall(p)
  /\ UNCHANGED <<caseRows, reading, runs>>

\* A check of admit_to_session refuses the answer, or Apply fails.
Refuse(p) ==
  /\ chat[p].at \in {"locked", "apply"}
  /\ EndCall(p)
  /\ UNCHANGED <<caseRows, reading, runs, issued>>

\* Any statement may fail, and the process may die between any two.
Crash(p) ==
  /\ ~At(p, "idle")
  /\ EndCall(p)
  /\ UNCHANGED <<caseRows, reading, runs, issued>>

-----------------------------------------------------------------------------
ChatStep(p) ==
  \/ CheckIssued(p) \/ LookupReceipt(p)
  \/ ChatAdmit(p) \/ ReplayUnderLock(p)
  \/ ReadEnvelope(p) \/ PersistRun(p) \/ CheckRecorded(p)
  \/ Refuse(p)

ChatNext ==
  \/ \E p \in Chats : \/ ChatStart(p) \/ Continue(p) \/ ChatStep(p)
                      \/ ChatLock(p) \/ RecordIssued(p) \/ Crash(p)
  \/ Start /\ UNCHANGED chatVars
  \/ \E p \in Servers \ Chats : Mutate(p) /\ UNCHANGED chatVars
  \/ \E r \in Readers : Read(r) /\ UNCHANGED chatVars

\* A call that has begun goes on to its next statement; a statement that
\* waits for the row lock gets it if it is free again and again (Postgres
\* queues the waiters); a transaction that holds the lock ends. Crashes are
\* never relied on.
ChatFairness ==
  /\ \A p \in Chats :
       /\ WF_allVars(ChatStep(p))
       /\ SF_allVars(ChatLock(p))
       /\ SF_allVars(RecordIssued(p))
  /\ \A p \in Servers \ Chats : WF_allVars(RollBack(p) /\ UNCHANGED chatVars)

ChatSpec == ChatInit /\ [][ChatNext]_allVars
FairChatSpec == ChatSpec /\ ChatFairness

-----------------------------------------------------------------------------
(* Properties.                                                             *)

Conclusion(adm) == Resolved(Models(Theories[session.phi], Evidence(adm)))

\* What the theorems about reports ask of the tree: it is finite, and a model of it
\* comes to one conclusion. Published trees in which each answer has one route are such
\* trees; where a default route stands beside an option's, both are open.
ConcludingIr ==
  /\ IsFiniteSet(Ir.questions) /\ IsFiniteSet(Ir.conclusions)
  /\ \A q \in Ir.questions : IsFiniteSet(Ir.options[q])
  /\ \A phi \in Phis : \A m \in Theories[phi] : \E c \in Ir.conclusions : m.concludes = {c}

\* Chat reports on a gather that is over, not on a part of it: when the
\* solver does not give up, the answers a report is drawn from leave ANALYZE
\* nothing to acquire, although they are read after the admit's commit,
\* without the lock (admitted_apply_envelope_for_session).
ReportsFinishedCases ==
  ~SolverMayGiveUp =>
    \A i \in 1..Len(runs) :
      ExactDirective(Ir, Theories[session.phi], runs[i], {}, session.pv).action
        \in {"STOP", "VERIFY"}

\* Calls that race past each other may persist more than one report, from
\* different sets of answers; the reports come to the same conclusion.
ReportsAgree ==
  ~SolverMayGiveUp /\ session # NoRow /\ session.phi = NoPhi =>
    \A i, j \in 1..Len(runs) : Conclusion(runs[i]) = Conclusion(runs[j])

\* CHAT_REPORT_ISSUED is recorded once per session: a report is persisted
\* "on the first chat report for a session; false on replay or later
\* continue" (should_persist_chat_report), and the event is appended unless
\* it exists (record_chat_report_issued).
OneReportIssued == issued <= 1

\* No chat call waits for ever, neither for the row lock nor, when it holds
\* the lock itself, for its own transaction to end.
ContinueEnds == \A p \in Chats : ~At(p, "idle") ~> At(p, "idle")
=============================================================================
