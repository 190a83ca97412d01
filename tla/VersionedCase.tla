--------------------------- MODULE VersionedCase ---------------------------
(***************************************************************************)
(* What a persisted inquiry promises its clients, with no server, lock,    *)
(* transaction or solver in sight: a case with a version number.           *)
(*                                                                         *)
(* A client changes the case by naming the version it has seen and a key   *)
(* of its own; the change is made against exactly that version, once per   *)
(* key, and moves the version on if it changed anything. Versions are      *)
(* never reused, so two reads with the same version read the same case.    *)
(***************************************************************************)
EXTENDS Integers

CONSTANTS
  Answers,    \* what may be admitted
  Checks,     \* what may be verified
  ClientKeys  \* idempotency keys

VARIABLES
  status,     \* "NONE", "ACTIVE", "STOPPED", "ABANDONED"
  version,    \* 0 before the case exists
  answers,
  checks,
  acked       \* for each key, the version its change was made against, or 0

caseVars == <<status, version, answers, checks, acked>>

NotAcked == 0

CaseInit ==
  /\ status = "NONE" /\ version = 0
  /\ answers = {} /\ checks = {}
  /\ acked = [k \in ClientKeys |-> NotAcked]

\* The version counts the change of content and the change of status apart.
Advance(changed, closed) ==
  /\ version' = version + (IF changed THEN 1 ELSE 0) + (IF closed THEN 1 ELSE 0)
  /\ status' = IF closed THEN "STOPPED" ELSE status

Open ==
  /\ status = "NONE"
  /\ \E closed \in BOOLEAN :
       /\ status' = IF closed THEN "STOPPED" ELSE "ACTIVE"
       /\ version' = IF closed THEN 2 ELSE 1
  /\ UNCHANGED <<answers, checks, acked>>

\* A key is spent at most once, against the current version, while ACTIVE.
Spend(k) ==
  /\ status = "ACTIVE"
  /\ acked[k] = NotAcked
  /\ acked' = [acked EXCEPT ![k] = version]

AddAnswer(k, a) ==
  /\ Spend(k)
  /\ answers' = answers \cup {a}
  /\ UNCHANGED checks
  /\ \E closed \in BOOLEAN : Advance(TRUE, closed)

AddCheck(k, c) ==
  /\ Spend(k)
  /\ checks' = checks \cup {c}
  /\ UNCHANGED answers
  /\ \E closed \in BOOLEAN : Advance(TRUE, closed)

\* An abstention, or a verification that decides nothing.
AddNothing(k) ==
  /\ Spend(k)
  /\ UNCHANGED <<answers, checks>>
  /\ \E closed \in BOOLEAN : Advance(FALSE, closed)

Abandon ==
  /\ status \in {"ACTIVE", "STOPPED"}
  /\ status' = "ABANDONED" /\ version' = version + 1
  /\ UNCHANGED <<answers, checks, acked>>

CaseNext ==
  \/ Open
  \/ Abandon
  \/ \E k \in ClientKeys :
       \/ AddNothing(k)
       \/ \E a \in Answers : AddAnswer(k, a)
       \/ \E c \in Checks : AddCheck(k, c)

CaseSpec == CaseInit /\ [][CaseNext]_caseVars
=============================================================================
