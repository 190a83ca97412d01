----------------------- MODULE InquireSessionProofs -----------------------
(***************************************************************************)
(* What InquireSession promises for every tree, every number of servers,   *)
(* readers and keys, and whether or not the solver gives up.               *)
(*                                                                         *)
(* Everything rests on one fact the types do not give: while a server      *)
(* holds the row lock, the row in its identity map is the row in the       *)
(* database, and a server without the lock holds no row. It is what        *)
(* breaks once a caller reads the row before it locks it (ChatGather); the *)
(* last part is about what is left then.                                   *)
(***************************************************************************)
EXTENDS ChatGather, KernelProofs

\* The identity map of the lock holder is current.
LockHolderIsCurrent ==
  /\ lock # Nobody => session # NoRow
  /\ \A p \in Servers : row[p] = IF lock = p THEN session ELSE NoRow

\* Nothing is written before the session exists.
EmptyBeforeStart ==
  session = NoRow => /\ admitted = {} /\ verified = {}
                     /\ \A k \in Keys : receipts[k] = NoReceipt

\* The inductive invariant.
IInv == TypeOK /\ LockHolderIsCurrent /\ EmptyBeforeStart

\* What the commit of mutation c writes, when ANALYZE answers d.
CommitResult(c, changed, d) ==
  /\ session' \in Row /\ session' # NoRow
  /\ session'.phi = session.phi /\ session'.pv = session.pv
  /\ session'.status = IF d.action = "STOP" THEN "STOPPED" ELSE session.status
  /\ session'.reason = IF d.action = "STOP" THEN d.reason ELSE session.reason
  /\ session'.revision = session.revision + (IF changed THEN 1 ELSE 0)
                           + (IF d.action = "STOP" THEN 1 ELSE 0)
  /\ receipts' \in [Keys -> Receipts \cup {NoReceipt}]
  /\ \A k \in Keys : k # c.key => receipts'[k] = receipts[k]
  /\ receipts'[c.key] # NoReceipt
  /\ receipts'[c.key].op = c.payload.op
  /\ receipts'[c.key].payload = c.payload
  /\ receipts'[c.key].expected = session.revision

\* What holds of a mutation that is not refused.
Accepted(c) ==
  /\ c.key \in Keys /\ receipts[c.key] = NoReceipt
  /\ session \in Row /\ session # NoRow /\ session.status = "ACTIVE"

\* The five ways in which a step touches the four tables, server and lock
\* forgotten. The first is start_inquiry.
StartWrites ==
  /\ session = NoRow /\ session' \in Row /\ session' # NoRow
  /\ \E d \in AnalyzeOutcomes(Ir, Theories[session'.phi], {}, {}, session'.pv, SolverMayGiveUp) :
       /\ session'.status = IF d.action = "STOP" THEN "STOPPED" ELSE "ACTIVE"
       /\ session'.reason = IF d.action = "STOP" THEN d.reason ELSE NoReason
       /\ session'.revision = IF d.action = "STOP" THEN 2 ELSE 1
  /\ UNCHANGED <<admitted, verified, receipts, reading>>

AdmitWrites(c) ==
  LET a == Answer(c.payload)
  IN  /\ Accepted(c) /\ c.payload.op = "admit"
      /\ a.opt # Abstain => a \in Assertions /\ CanAdmit(Ir, admitted, a)
      /\ admitted' = IF a.opt # Abstain THEN admitted \cup {a} ELSE admitted
      /\ UNCHANGED <<verified, reading>>
      /\ \E d \in AnalyzeOutcomes(Ir, Theories[session.phi], admitted', verified',
                                  session.pv, SolverMayGiveUp) :
           CommitResult(c, a.opt # Abstain, d)

VerifyWrites(c) ==
  LET k == c.payload.vkey
  IN  /\ Accepted(c) /\ c.payload.op = "verify"
      /\ c.payload.agree \in BOOLEAN
      /\ k \in VKeys /\ LiveFor(admitted, k) # {}
      /\ Verify(k) \in AnalyzeOutcomes(Ir, Theories[session.phi], admitted, verified,
                                       session.pv, SolverMayGiveUp)
      /\ verified' = IF c.payload.agree THEN verified \cup {k} ELSE verified
      /\ UNCHANGED <<admitted, reading>>
      /\ \E d \in AnalyzeOutcomes(Ir, Theories[session.phi], admitted', verified',
                                  session.pv, SolverMayGiveUp) :
           CommitResult(c, c.payload.agree, d)

AbandonWrites ==
  /\ session \in Row /\ session # NoRow /\ session.status # "ABANDONED"
  /\ session' \in Row /\ session' # NoRow
  /\ session'.phi = session.phi /\ session'.pv = session.pv
  /\ session'.status = "ABANDONED" /\ session'.reason = session.reason
  /\ session'.revision = session.revision + 1
  /\ UNCHANGED <<admitted, verified, receipts, reading>>

-----------------------------------------------------------------------------
(* What ANALYZE may return.                                                *)

\* Without a model nothing is resolved: the cases of ANALYZE exclude each other.
LEMMA NothingResolved == Resolved({}) = {}
<1>1. Possible({}) = {}
  BY DEF Possible
<1>2. Cardinality({}) = 0
  BY FS_EmptySet
<1> QED BY <1>1, <1>2 DEF Resolved

\* Whatever ANALYZE is given, it returns one of three actions, and a STOP
\* carries one of the listed reasons.
LEMMA OutcomeShape ==
  ASSUME NEW T, NEW adm, NEW ver, NEW pv, NEW giveUp,
         NEW d \in AnalyzeOutcomes(Ir, T, adm, ver, pv, giveUp)
  PROVE  /\ d.action \in {"ACQUIRE", "VERIFY", "STOP"}
         /\ d.action = "STOP" => d.reason \in StopReasons
<1>1. CASE d = ExactDirective(Ir, T, adm, ver, pv)
  <2>1. CASE Models(T, Evidence(adm)) = {}
    BY <1>1, <2>1, NothingResolved DEF ExactDirective, Stop, StopReasons, SemanticReasons
  <2>2. CASE Models(T, Evidence(adm)) # {} /\ Resolved(Models(T, Evidence(adm))) # {}
    BY <1>1, <2>2 DEF ExactDirective, Stop, Verify, StopReasons, SemanticReasons
  <2>3. CASE Models(T, Evidence(adm)) # {} /\ Resolved(Models(T, Evidence(adm))) = {}
    BY <1>1, <2>3 DEF ExactDirective, Stop, Acquire, StopReasons, SemanticReasons
  <2> QED BY <2>1, <2>2, <2>3
<1>2. CASE d \in GiveUps(Ir, T, adm)
  BY <1>2 DEF GiveUps, Stop, StopReasons, BudgetReasons
<1> QED BY <1>1, <1>2 DEF AnalyzeOutcomes

-----------------------------------------------------------------------------
(* The steps.                                                              *)

\* A server that holds the lock works on the row in the database.
LEMMA HolderSeesRow ==
  ASSUME IInv, NEW p \in Servers, lock = p
  PROVE  row[p] = session /\ session \in Row /\ session # NoRow
<1>1. lock # Nobody
  BY ServersAssumption DEF Nobody
<1> QED BY <1>1 DEF IInv, TypeOK, LockHolderIsCurrent

\* When the transaction ends no identity map is left.
LEMMA CloseKeepsLockHolderCurrent ==
  ASSUME IInv, NEW p \in Servers, Close(p)
  PROVE  LockHolderIsCurrent' /\ row' \in [Servers -> Row \cup {NoRow}] /\ lock' = Nobody
<1>1. lock = p /\ lock' = Nobody /\ row' = [row EXCEPT ![p] = NoRow]
  BY DEF Close
<1>2. \A s \in Servers : s # p => row[s] = NoRow
  BY <1>1 DEF IInv, LockHolderIsCurrent
<1>3. row \in [Servers -> Row \cup {NoRow}]
  BY DEF IInv, TypeOK
<1>4. \A s \in Servers : s # Nobody
  BY ServersAssumption DEF Nobody
<1> QED BY <1>1, <1>2, <1>3, <1>4 DEF LockHolderIsCurrent

\* What Commit does to the session row and to the receipts.
LEMMA CommitEffect ==
  ASSUME IInv, NEW p \in Servers, lock = p,
         NEW c \in Mutations(ClientKeys), MayMutate(p, c),
         NEW changed \in BOOLEAN,
         NEW T, NEW adm, NEW ver, NEW pv,
         NEW d \in AnalyzeOutcomes(Ir, T, adm, ver, pv, SolverMayGiveUp),
         Commit(p, c, changed, d)
  PROVE  CommitResult(c, changed, d)
<1>1. row[p] = session /\ session \in Row /\ session # NoRow
  BY HolderSeesRow
<1>2. /\ d.action \in {"ACQUIRE", "VERIFY", "STOP"}
      /\ d.action = "STOP" => d.reason \in StopReasons
  BY OutcomeShape
<1>3. /\ c.key \in Keys /\ c.payload \in Payloads /\ c.payload.op \in {"admit", "verify"}
      /\ c.expected \in Nat \ {0} /\ c.expected = session.revision
  <2>1. c.key \in Keys /\ c.payload \in Payloads /\ c.expected \in 1..session.revision
    BY KeysAssumption DEF Mutations
  <2>2. c.payload.op \in {"admit", "verify"}
    BY <2>1 DEF Payloads
  <2>3. session.revision \in Nat
    BY <1>1 DEF Row
  <2> QED BY <1>1, <2>1, <2>2, <2>3 DEF MayMutate
<1>4. session.revision \in Nat
  BY <1>1 DEF Row
<1> DEFINE rev == session.revision + (IF changed THEN 1 ELSE 0)
                    + (IF d.action = "STOP" THEN 1 ELSE 0)
           rec == [op |-> c.payload.op, payload |-> c.payload, expected |-> c.expected,
                   revision |-> rev, action |-> d.action]
<1>5. /\ session' = [session EXCEPT
            !.revision = rev,
            !.status   = IF d.action = "STOP" THEN "STOPPED" ELSE session.status,
            !.reason   = IF d.action = "STOP" THEN d.reason ELSE session.reason]
      /\ receipts' = [receipts EXCEPT ![c.key] = rec]
  <2>1. rev = IF changed \/ d.action = "STOP" THEN rev ELSE session.revision
    BY <1>4
  <2> HIDE DEF rev
  <2>2. Commit(p, c, changed, d) <=>
          /\ session' = [session EXCEPT
               !.revision = IF changed \/ d.action = "STOP" THEN rev ELSE session.revision,
               !.status   = IF d.action = "STOP" THEN "STOPPED" ELSE session.status,
               !.reason   = IF d.action = "STOP" THEN d.reason ELSE session.reason]
          /\ receipts' = [receipts EXCEPT ![c.key] = rec]
    BY <1>1, Zenon DEF Commit, rev
  <2> QED BY <2>1, <2>2, Zenon
<1>6. rev \in Nat
  BY <1>4
<1>7. rec \in Receipts /\ rec # NoReceipt
  BY <1>2, <1>3, <1>6 DEF Receipts, NoReceipt
<1>8. receipts \in [Keys -> Receipts \cup {NoReceipt}]
  BY DEF IInv, TypeOK
<1>9. /\ receipts' \in [Keys -> Receipts \cup {NoReceipt}]
      /\ \A k \in Keys : k # c.key => receipts'[k] = receipts[k]
      /\ receipts'[c.key] = rec
  <2> HIDE DEF rec
  <2> QED BY <1>3, <1>5, <1>7, <1>8
<1>10. /\ session' \in Row
       /\ session'.phi = session.phi /\ session'.pv = session.pv
       /\ session'.status = IF d.action = "STOP" THEN "STOPPED" ELSE session.status
       /\ session'.reason = IF d.action = "STOP" THEN d.reason ELSE session.reason
       /\ session'.revision = rev
  <2> HIDE DEF rev
  <2> QED BY <1>1, <1>2, <1>5, <1>6 DEF Row, Statuses
<1>11. session' # NoRow
  <2>1. session'.status \in Statuses
    BY <1>10 DEF Row
  <2> QED BY <2>1 DEF Statuses, NoRow
<1> QED BY <1>3, <1>7, <1>9, <1>10, <1>11 DEF CommitResult
\* What AdmitCommit does.
LEMMA AdmitEffect ==
  ASSUME IInv, NEW p \in Servers, NEW c \in Mutations(ClientKeys), AdmitCommit(p, c)
  PROVE  AdmitWrites(c)
<1> DEFINE a        == Answer(c.payload)
           answered == a.opt # Abstain
<1>1. /\ lock = p /\ c.payload.op = "admit" /\ MayMutate(p, c)
      /\ answered => CanAdmit(Ir, admitted, a)
      /\ admitted' = IF answered THEN admitted \cup {a} ELSE admitted
      /\ UNCHANGED <<verified, reading>>
  BY DEF AdmitCommit
<1>2. PICK d \in AnalyzeOutcomes(Ir, Theories[row[p].phi], admitted', verified, c.pv,
                                 SolverMayGiveUp) : Commit(p, c, answered, d)
  BY DEF AdmitCommit, Outcomes
<1>3. row[p] = session /\ session \in Row /\ session # NoRow
  BY <1>1, HolderSeesRow
<1>4. Accepted(c) /\ session.pv = c.pv
  BY <1>1, <1>3, KeysAssumption DEF MayMutate, Accepted, Mutations
<1>5. c.payload \in [op : {"admit"}, q : Ir.questions, opt : Options \cup {Abstain},
                     prov : Provenances]
  BY <1>1 DEF Mutations, Payloads
<1>6. answered => a \in Assertions
  BY <1>1, <1>5 DEF CanAdmit, Answer, Assertions, Options
<1>7. CommitResult(c, answered, d)
  <2>1. answered \in BOOLEAN
    OBVIOUS
  <2> HIDE DEF answered
  <2> QED BY <1>1, <1>2, <2>1, CommitEffect
<1>8. d \in AnalyzeOutcomes(Ir, Theories[session.phi], admitted', verified', session.pv,
                            SolverMayGiveUp)
  BY <1>1, <1>3, <1>4
<1> QED BY <1>1, <1>4, <1>6, <1>7, <1>8 DEF AdmitWrites

\* What VerifyCommit does.
LEMMA VerifyEffect ==
  ASSUME IInv, NEW p \in Servers, NEW c \in Mutations(ClientKeys), VerifyCommit(p, c)
  PROVE  VerifyWrites(c)
<1> DEFINE k      == c.payload.vkey
           retain == c.payload.agree
<1>1. /\ lock = p /\ c.payload.op = "verify" /\ MayMutate(p, c)
      /\ Verify(k) \in AnalyzeOutcomes(Ir, Theories[row[p].phi], admitted, verified, c.pv,
                                       SolverMayGiveUp)
      /\ LiveFor(admitted, k) # {}
      /\ verified' = IF retain THEN verified \cup {k} ELSE verified
      /\ UNCHANGED <<admitted, reading>>
  BY DEF VerifyCommit, Outcomes
<1>2. PICK d \in AnalyzeOutcomes(Ir, Theories[row[p].phi], admitted, verified', c.pv,
                                 SolverMayGiveUp) : Commit(p, c, retain, d)
  BY DEF VerifyCommit, Outcomes
<1>3. row[p] = session /\ session \in Row /\ session # NoRow
  BY <1>1, HolderSeesRow
<1>4. Accepted(c) /\ session.pv = c.pv
  BY <1>1, <1>3, KeysAssumption DEF MayMutate, Accepted, Mutations
<1>5. c.payload \in [op : {"verify"}, vkey : VKeys, agree : BOOLEAN]
  BY <1>1 DEF Mutations, Payloads
<1>6. CommitResult(c, retain, d)
  <2>1. retain \in BOOLEAN
    BY <1>5
  <2> HIDE DEF retain
  <2> QED BY <1>1, <1>2, <2>1, CommitEffect
<1>7. d \in AnalyzeOutcomes(Ir, Theories[session.phi], admitted', verified', session.pv,
                            SolverMayGiveUp)
  BY <1>1, <1>2, <1>3, <1>4
<1> QED BY <1>1, <1>3, <1>4, <1>5, <1>6, <1>7 DEF VerifyWrites

\* What AbandonCommit does to the session row.
LEMMA AbandonEffect ==
  ASSUME IInv, NEW p \in Servers, AbandonCommit(p)
  PROVE  AbandonWrites
<1>1. row[p] = session /\ session \in Row /\ session # NoRow
  BY HolderSeesRow DEF AbandonCommit
<1>2. session' = [session EXCEPT !.status = "ABANDONED", !.revision = session.revision + 1]
  BY <1>1 DEF AbandonCommit
<1> DEFINE rev == session.revision + 1
<1>3. rev \in Nat
  BY <1>1 DEF Row
<1> HIDE DEF rev
<1>4. session' = [session EXCEPT !.status = "ABANDONED", !.revision = rev]
  BY <1>2 DEF rev
<1>5. /\ session' \in Row
      /\ session'.phi = session.phi /\ session'.pv = session.pv
      /\ session'.status = "ABANDONED" /\ session'.reason = session.reason
      /\ session'.revision = rev
  BY <1>1, <1>3, <1>4 DEF Row, Statuses
<1>6. session' # NoRow
  BY <1>5 DEF NoRow
<1> QED BY <1>1, <1>5, <1>6 DEF rev, AbandonCommit, AbandonWrites


\* What Start does.
LEMMA StartEffect ==
  ASSUME IInv, Start
  PROVE  StartWrites
<1>1. PICK phi \in Phis, pv \in PolicyVersions : \E d \in Outcomes(phi, {}, {}, pv) :
        session' = [status   |-> IF d.action = "STOP" THEN "STOPPED" ELSE "ACTIVE",
                    reason   |-> IF d.action = "STOP" THEN d.reason ELSE NoReason,
                    revision |-> IF d.action = "STOP" THEN 2 ELSE 1,
                    phi      |-> phi,
                    pv       |-> pv]
  BY DEF Start
<1>2. PICK d \in AnalyzeOutcomes(Ir, Theories[phi], {}, {}, pv, SolverMayGiveUp) :
        session' = [status   |-> IF d.action = "STOP" THEN "STOPPED" ELSE "ACTIVE",
                    reason   |-> IF d.action = "STOP" THEN d.reason ELSE NoReason,
                    revision |-> IF d.action = "STOP" THEN 2 ELSE 1,
                    phi      |-> phi,
                    pv       |-> pv]
  BY <1>1 DEF Outcomes
<1>3. d.action = "STOP" => d.reason \in StopReasons
  BY OutcomeShape
<1>4. session'.status \in {"ACTIVE", "STOPPED"}
  BY <1>2
<1>5. session' # NoRow
  BY <1>4 DEF NoRow
<1>6. session' \in Row
  BY <1>2, <1>3 DEF Row, Statuses
<1>7. /\ session'.phi = phi /\ session'.pv = pv
      /\ session'.status = IF d.action = "STOP" THEN "STOPPED" ELSE "ACTIVE"
      /\ session'.reason = IF d.action = "STOP" THEN d.reason ELSE NoReason
      /\ session'.revision = IF d.action = "STOP" THEN 2 ELSE 1
  BY <1>2
<1>8. d \in AnalyzeOutcomes(Ir, Theories[session'.phi], {}, {}, session'.pv, SolverMayGiveUp)
  BY <1>7
<1>9. session = NoRow /\ UNCHANGED <<admitted, verified, receipts, reading>>
  BY DEF Start
<1> QED BY <1>5, <1>6, <1>7, <1>8, <1>9 DEF StartWrites

\* Every step is one of the five.
LEMMA StepCases ==
  ASSUME IInv, [Next]_vars
  PROVE  \/ StartWrites
         \/ \E c \in Mutations(ClientKeys) : AdmitWrites(c)
         \/ \E c \in Mutations(ClientKeys) : VerifyWrites(c)
         \/ AbandonWrites
         \/ UNCHANGED caseRows
<1>1. ASSUME NEW p \in Servers, NEW c \in Mutations(ClientKeys), AdmitCommit(p, c)
      PROVE  AdmitWrites(c)
  BY <1>1, AdmitEffect
<1>2. ASSUME NEW p \in Servers, NEW c \in Mutations(ClientKeys), VerifyCommit(p, c)
      PROVE  VerifyWrites(c)
  BY <1>2, VerifyEffect
<1>3. ASSUME NEW p \in Servers, AbandonCommit(p)
      PROVE  AbandonWrites
  BY <1>3, AbandonEffect
<1>4. ASSUME NEW p \in Servers, Lock(p) \/ RollBack(p)
      PROVE  UNCHANGED caseRows
  BY <1>4 DEF Lock, RollBack
<1>5. ASSUME NEW r \in Readers, Read(r)
      PROVE  UNCHANGED caseRows
  BY <1>5 DEF Read, ReadRow, ReadAdmitted, ReadVerifiedAndAnswer, EndRead
<1>6. UNCHANGED vars => UNCHANGED caseRows
  BY DEF vars, caseRows
<1>7. Start => StartWrites
  BY StartEffect
<1> QED BY <1>1, <1>2, <1>3, <1>4, <1>5, <1>6, <1>7 DEF Next, Mutate

-----------------------------------------------------------------------------
(* The inductive invariant.                                                *)

\* The tables stay typed and stay empty before the session exists.
LEMMA StepKeepsTables ==
  ASSUME IInv, [Next]_vars
  PROVE  /\ session' \in Row \cup {NoRow}
         /\ admitted' \subseteq Assertions
         /\ verified' \subseteq VKeys
         /\ receipts' \in [Keys -> Receipts \cup {NoReceipt}]
         /\ \A k \in Keys : receipts'[k] # NoReceipt => receipts'[k].op = receipts'[k].payload.op
         /\ EmptyBeforeStart'
<1>1. CASE StartWrites
  BY <1>1 DEF StartWrites, IInv, TypeOK, EmptyBeforeStart
<1>2. ASSUME NEW c \in Mutations(ClientKeys), AdmitWrites(c)
      PROVE  /\ session' \in Row /\ session' # NoRow
             /\ admitted' \subseteq Assertions /\ verified' = verified
             /\ receipts' \in [Keys -> Receipts \cup {NoReceipt}]
             /\ \A k \in Keys : receipts'[k] # NoReceipt =>
                  receipts'[k].op = receipts'[k].payload.op
  BY <1>2 DEF AdmitWrites, CommitResult, IInv, TypeOK
<1>3. ASSUME NEW c \in Mutations(ClientKeys), VerifyWrites(c)
      PROVE  /\ session' \in Row /\ session' # NoRow
             /\ admitted' = admitted /\ verified' \subseteq VKeys
             /\ receipts' \in [Keys -> Receipts \cup {NoReceipt}]
             /\ \A k \in Keys : receipts'[k] # NoReceipt =>
                  receipts'[k].op = receipts'[k].payload.op
  BY <1>3 DEF VerifyWrites, CommitResult, IInv, TypeOK
<1>4. CASE AbandonWrites
  BY <1>4 DEF AbandonWrites, IInv, TypeOK, EmptyBeforeStart
<1>5. CASE UNCHANGED caseRows
  BY <1>5 DEF caseRows, IInv, TypeOK, EmptyBeforeStart
<1> QED BY <1>1, <1>2, <1>3, <1>4, <1>5, StepCases DEF IInv, TypeOK, EmptyBeforeStart

\* The lock holder's identity map stays current.
LEMMA StepKeepsLockHolderCurrent ==
  ASSUME IInv, [Next]_vars
  PROVE  /\ LockHolderIsCurrent'
         /\ row' \in [Servers -> Row \cup {NoRow}]
         /\ lock' \in Servers \cup {Nobody}
<1>1. CASE Start
  <2>1. lock = Nobody /\ \A s \in Servers : row[s] = NoRow
    BY <1>1, ServersAssumption DEF Start, IInv, LockHolderIsCurrent, Nobody
  <2>2. UNCHANGED <<lock, row>>
    BY <1>1 DEF Start
  <2> QED BY <2>1, <2>2, ServersAssumption DEF LockHolderIsCurrent, Nobody, IInv, TypeOK
<1>2. ASSUME NEW p \in Servers, row[p] = NoRow /\ Lock(p)
      PROVE  /\ LockHolderIsCurrent' /\ lock' = p
             /\ row' \in [Servers -> Row \cup {NoRow}]
  <2>1. /\ session # NoRow /\ lock = Nobody /\ lock' = p /\ session' = session
        /\ row' = [row EXCEPT ![p] = session]
    BY <1>2 DEF Lock, caseRows
  <2>2. \A s \in Servers : row[s] = NoRow /\ s # Nobody
    BY <2>1, ServersAssumption DEF IInv, LockHolderIsCurrent, Nobody
  <2>3. session \in Row /\ row \in [Servers -> Row \cup {NoRow}]
    BY <2>1 DEF IInv, TypeOK
  <2>4. LockHolderIsCurrent'
    BY <2>1, <2>2, <2>3 DEF LockHolderIsCurrent
  <2> QED BY <2>1, <2>3, <2>4
<1>3. ASSUME NEW p \in Servers, Close(p)
      PROVE  /\ LockHolderIsCurrent' /\ lock' = Nobody
             /\ row' \in [Servers -> Row \cup {NoRow}]
  BY <1>3, CloseKeepsLockHolderCurrent
<1>4. ASSUME NEW p \in Servers, NEW c \in Mutations(ClientKeys),
             AdmitCommit(p, c) \/ VerifyCommit(p, c) \/ AbandonCommit(p) \/ RollBack(p)
      PROVE  Close(p)
  BY <1>4 DEF AdmitCommit, VerifyCommit, AbandonCommit, RollBack
<1>5. ASSUME NEW p \in Servers, AbandonCommit(p) \/ RollBack(p)
      PROVE  Close(p)
  BY <1>5 DEF AbandonCommit, RollBack
<1>6. ASSUME NEW r \in Readers, Read(r)
      PROVE  UNCHANGED <<session, lock, row>>
  BY <1>6 DEF Read, ReadRow, ReadAdmitted, ReadVerifiedAndAnswer, EndRead, caseRows
<1>7. CASE UNCHANGED <<session, lock, row>>
  BY <1>7 DEF LockHolderIsCurrent, IInv, TypeOK
<1>8. UNCHANGED vars => UNCHANGED <<session, lock, row>>
  BY DEF vars
<1> QED BY <1>1, <1>2, <1>3, <1>4, <1>5, <1>6, <1>7, <1>8 DEF Next, Mutate

\* What a reader holds stays typed.
LEMMA StepKeepsReads ==
  ASSUME IInv, [Next]_vars
  PROVE  reading' \in [Readers -> Reads]
<1>1. reading \in [Readers -> Reads]
  BY DEF IInv, TypeOK
<1>2. ASSUME NEW r \in Readers, ReadRow(r)
      PROVE  reading' \in [Readers -> Reads]
  <2>1. session \in Row
    BY <1>2 DEF ReadRow, IInv, TypeOK, NoRow
  <2> QED BY <1>1, <1>2, <2>1 DEF ReadRow, Reads
<1>3. ASSUME NEW r \in Readers, ReadAdmitted(r)
      PROVE  reading' \in [Readers -> Reads]
  <2>1. reading[r].row \in Row
    BY <1>1, <1>3 DEF ReadAdmitted, Reads, NoRead
  <2>2. admitted \in SUBSET Assertions
    BY DEF IInv, TypeOK
  <2> QED BY <1>1, <1>3, <2>1, <2>2 DEF ReadAdmitted, Reads
<1>4. ASSUME NEW r \in Readers, ReadVerifiedAndAnswer(r)
      PROVE  reading' \in [Readers -> Reads]
  <2>1. reading[r].row \in Row
    BY <1>1, <1>4 DEF ReadVerifiedAndAnswer, Reads, NoRead
  <2>2. PICK d \in AnalyzeOutcomes(Ir, Theories[reading[r].row.phi], reading[r].admitted,
                                   verified, reading[r].row.pv, SolverMayGiveUp) :
          reading' = [reading EXCEPT ![r] =
            IF d.action = "STOP"
            THEN [at |-> "raised", revision |-> reading[r].row.revision, reason |-> d.reason]
            ELSE NoRead]
    BY <1>4 DEF ReadVerifiedAndAnswer, Outcomes
  <2>3. d.action = "STOP" => d.reason \in StopReasons
    BY OutcomeShape
  <2>4. reading[r].row.revision \in Nat
    BY <2>1 DEF Row
  <2> QED BY <1>1, <2>2, <2>3, <2>4 DEF Reads
<1>5. ASSUME NEW r \in Readers, EndRead(r)
      PROVE  reading' \in [Readers -> Reads]
  BY <1>1, <1>5 DEF EndRead, Reads
<1>6. ASSUME NEW p \in Servers, Mutate(p)
      PROVE  reading' = reading
  BY <1>6 DEF Mutate, Lock, AdmitCommit, VerifyCommit, AbandonCommit, RollBack
<1>7. Start \/ UNCHANGED vars => reading' = reading
  BY DEF Start, vars
<1> QED BY <1>1, <1>2, <1>3, <1>4, <1>5, <1>6, <1>7 DEF Next, Read

\* Each step of the session preserves the inductive invariant.
LEMMA StepKeepsInvariant ==
  ASSUME IInv, [Next]_vars
  PROVE  IInv'
BY StepKeepsTables, StepKeepsLockHolderCurrent, StepKeepsReads DEF IInv, TypeOK

\* The inductive invariant holds: in particular a server that mutates the
\* session works on the row as it is in the database.
THEOREM SessionInvariant == Spec => []IInv
<1>1. Init => IInv
  BY ServersAssumption DEF Init, IInv, TypeOK, LockHolderIsCurrent, EmptyBeforeStart, Row, NoRow,
                           Nobody, NoReceipt, Reads
<1>2. IInv /\ [Next]_vars => IInv'
  BY StepKeepsInvariant
<1> QED BY <1>1, <1>2, PTL DEF Spec

\* The tables hold what their columns allow (models.py).
THEOREM TypeCorrect == Spec => []TypeOK
<1>1. IInv => TypeOK
  BY DEF IInv
<1> QED BY <1>1, SessionInvariant, PTL

-----------------------------------------------------------------------------
(* The properties that the run checks on one tree, two servers and four    *)
(* keys. Each proof goes through the five ways a step may write the tables *)
(* (StepCases), under IInv.                                                *)

-----------------------------------------------------------------------------
(* Revisions and receipts.                                                 *)

\* One step of RevisionIsVersion.
LEMMA StepAdvancesRevision ==
  ASSUME IInv, [Next]_vars, session # NoRow
  PROVE  /\ session'.revision >= session.revision
         /\ CaseContent' # CaseContent => session'.revision > session.revision
<1>1. session \in Row /\ session.revision \in Nat
  BY DEF IInv, TypeOK, Row
<1>2. ASSUME NEW c \in Mutations(ClientKeys), AdmitWrites(c)
      PROVE  /\ session'.revision >= session.revision
             /\ CaseContent' # CaseContent => session'.revision > session.revision
  BY <1>1, <1>2 DEF AdmitWrites, CommitResult, CaseContent
<1>3. ASSUME NEW c \in Mutations(ClientKeys), VerifyWrites(c)
      PROVE  /\ session'.revision >= session.revision
             /\ CaseContent' # CaseContent => session'.revision > session.revision
  BY <1>1, <1>3 DEF VerifyWrites, CommitResult, CaseContent
<1>4. AbandonWrites => /\ session'.revision >= session.revision
                       /\ session'.revision > session.revision
  BY <1>1 DEF AbandonWrites
<1>5. UNCHANGED caseRows => /\ session'.revision >= session.revision
                            /\ CaseContent' = CaseContent
  BY <1>1 DEF caseRows, CaseContent
<1>6. ~StartWrites
  BY DEF StartWrites
<1> QED BY <1>2, <1>3, <1>4, <1>5, <1>6, StepCases

\* A revision names one state of the case: whatever changes the evidence, the
\* verified keys, the assumptions or the status moves it up (Option A).
THEOREM RevisionNamesTheCase == Spec => RevisionIsVersion
<1>1. IInv /\ [Next]_vars =>
        [session # NoRow =>
           /\ session'.revision >= session.revision
           /\ CaseContent' # CaseContent => session'.revision > session.revision]_vars
  BY StepAdvancesRevision
<1> QED BY <1>1, SessionInvariant, PTL DEF Spec, RevisionIsVersion

\* Every mutation is made against the case its client has seen, in an ACTIVE
\* session, and leaves a receipt that is never replaced.
THEOREM NoStaleWrites == Spec => NoStaleWriter
<1>1. IInv /\ [Next]_vars =>
        [\A k \in Keys : receipts'[k] # receipts[k] =>
           /\ receipts[k] = NoReceipt
           /\ session.status = "ACTIVE"
           /\ receipts'[k].expected = session.revision]_vars
  <2> SUFFICES ASSUME IInv, [Next]_vars, NEW k \in Keys, receipts'[k] # receipts[k]
               PROVE  /\ receipts[k] = NoReceipt
                      /\ session.status = "ACTIVE"
                      /\ receipts'[k].expected = session.revision
    OBVIOUS
  <2>1. ~StartWrites /\ ~AbandonWrites /\ ~UNCHANGED caseRows
    BY DEF StartWrites, AbandonWrites, caseRows
  <2>2. ASSUME NEW c \in Mutations(ClientKeys), AdmitWrites(c)
        PROVE  /\ receipts[k] = NoReceipt
               /\ session.status = "ACTIVE"
               /\ receipts'[k].expected = session.revision
    BY <2>2 DEF AdmitWrites, CommitResult, Accepted
  <2>3. ASSUME NEW c \in Mutations(ClientKeys), VerifyWrites(c)
        PROVE  /\ receipts[k] = NoReceipt
               /\ session.status = "ACTIVE"
               /\ receipts'[k].expected = session.revision
    BY <2>3 DEF VerifyWrites, CommitResult, Accepted
  <2> QED BY <2>1, <2>2, <2>3, StepCases
<1> QED BY <1>1, SessionInvariant, PTL DEF Spec, NoStaleWriter

\* What a receipt acknowledged stays in the case, although every mutation
\* rewrites a whole table from what it read.
THEOREM NothingAcknowledgedIsLost == Spec => []AcknowledgedStands
<1>1. Init => AcknowledgedStands
  BY DEF Init, AcknowledgedStands
<1>2. IInv /\ AcknowledgedStands /\ [Next]_vars => AcknowledgedStands'
  <2> SUFFICES ASSUME IInv, AcknowledgedStands, [Next]_vars
               PROVE  AcknowledgedStands'
    OBVIOUS
  <2>1. CASE StartWrites \/ AbandonWrites \/ UNCHANGED caseRows
    BY <2>1 DEF StartWrites, AbandonWrites, caseRows, AcknowledgedStands
  <2>2. ASSUME NEW c \in Mutations(ClientKeys), AdmitWrites(c)
        PROVE  AcknowledgedStands'
    <3>1. /\ c.key \in Keys /\ c.payload.op = "admit"
          /\ receipts'[c.key].payload = c.payload
          /\ \A k \in Keys : k # c.key => receipts'[k] = receipts[k]
          /\ verified' = verified /\ admitted \subseteq admitted'
          /\ c.payload.opt # Abstain => Answer(c.payload) \in admitted'
      BY <2>2 DEF AdmitWrites, CommitResult, Accepted, Answer
    <3> QED BY <3>1 DEF AcknowledgedStands
  <2>3. ASSUME NEW c \in Mutations(ClientKeys), VerifyWrites(c)
        PROVE  AcknowledgedStands'
    <3>1. /\ c.key \in Keys /\ c.payload.op = "verify"
          /\ receipts'[c.key].payload = c.payload
          /\ \A k \in Keys : k # c.key => receipts'[k] = receipts[k]
          /\ admitted' = admitted /\ verified \subseteq verified'
          /\ c.payload.agree => c.payload.vkey \in verified'
      BY <2>3 DEF VerifyWrites, CommitResult, Accepted
    <3> QED BY <3>1 DEF AcknowledgedStands
  <2> QED BY <2>1, <2>2, <2>3, StepCases
<1> QED BY <1>1, <1>2, SessionInvariant, PTL DEF Spec

\* Two clients that race to answer a question leave one answer.
THEOREM OneAnswerPerQuestion == Spec => []OneLiveAnswerPerQuestion
<1>1. Init => OneLiveAnswerPerQuestion
  BY DEF Init, OneLiveAnswerPerQuestion
<1>2. IInv /\ OneLiveAnswerPerQuestion /\ [Next]_vars => OneLiveAnswerPerQuestion'
  <2> SUFFICES ASSUME IInv, OneLiveAnswerPerQuestion, [Next]_vars
               PROVE  OneLiveAnswerPerQuestion'
    OBVIOUS
  <2>1. CASE admitted' = admitted
    BY <2>1 DEF OneLiveAnswerPerQuestion
  <2>2. ASSUME NEW c \in Mutations(ClientKeys), AdmitWrites(c)
        PROVE  OneLiveAnswerPerQuestion'
    BY <2>2 DEF AdmitWrites, CanAdmit, AnsweredQuestions, OneLiveAnswerPerQuestion
  <2> QED BY <2>1, <2>2, StepCases DEF StartWrites, VerifyWrites, AbandonWrites, caseRows
<1> QED BY <1>1, <1>2, SessionInvariant, PTL DEF Spec
-----------------------------------------------------------------------------
(* What ANALYZE answers, and what the session records of it.               *)

\* A give-up is a STOP with a budget reason: any other answer is the exact one.
LEMMA OnlyStopsGiveUp ==
  ASSUME NEW T, NEW adm, NEW ver, NEW pv,
         NEW d \in AnalyzeOutcomes(Ir, T, adm, ver, pv, SolverMayGiveUp),
         d.action # "STOP" \/ d.reason \in SemanticReasons
  PROVE  d = ExactDirective(Ir, T, adm, ver, pv)
<1>1. \A g \in GiveUps(Ir, T, adm) : g.action = "STOP" /\ g.reason \in BudgetReasons
  BY DEF GiveUps, Stop, BudgetReasons
<1>2. \A g \in BudgetReasons : g \notin SemanticReasons
  BY DEF BudgetReasons, SemanticReasons
<1> QED BY <1>1, <1>2 DEF AnalyzeOutcomes

\* A STOP carries its reason and nothing else.
LEMMA StopShape ==
  ASSUME NEW T, NEW adm, NEW ver, NEW pv, ExactDirective(Ir, T, adm, ver, pv).action = "STOP"
  PROVE  /\ ExactDirective(Ir, T, adm, ver, pv)
              = Stop(ExactDirective(Ir, T, adm, ver, pv).reason)
         /\ ExactDirective(Ir, T, adm, ver, pv).reason \in SemanticReasons
<1>1. CASE Models(T, Evidence(adm)) = {}
  BY <1>1, NothingResolved DEF ExactDirective, Stop, SemanticReasons
<1>2. CASE Models(T, Evidence(adm)) # {} /\ Resolved(Models(T, Evidence(adm))) # {}
  BY <1>2 DEF ExactDirective, Stop, Verify, SemanticReasons
<1>3. CASE Models(T, Evidence(adm)) # {} /\ Resolved(Models(T, Evidence(adm))) = {}
  BY <1>3 DEF ExactDirective, Stop, Acquire, SemanticReasons
<1> QED BY <1>1, <1>2, <1>3

\* ANALYZE asks for keys of the policy version it is called with.
LEMMA VerifyUnderPolicy ==
  ASSUME NEW T, NEW adm, NEW ver, NEW pv, NEW k,
         Verify(k) \in AnalyzeOutcomes(Ir, T, adm, ver, pv, SolverMayGiveUp)
  PROVE  k.pv = pv
<1>1. Verify(k) = ExactDirective(Ir, T, adm, ver, pv)
  <2>1. Verify(k).action # "STOP"
    BY DEF Verify
  <2> QED BY <2>1, OnlyStopsGiveUp
<1>2. CASE Models(T, Evidence(adm)) = {}
  BY <1>1, <1>2, NothingResolved DEF ExactDirective, Stop, Verify
<1>3. CASE Models(T, Evidence(adm)) # {} /\ Resolved(Models(T, Evidence(adm))) # {}
  <2>1. PICK a : Verify(k) = Verify(KeyFor(a, pv))
    BY <1>1, <1>3 DEF ExactDirective, Stop, Verify
  <2>2. k = KeyFor(a, pv)
    BY <2>1 DEF Verify
  <2> QED BY <2>2 DEF KeyFor
<1>4. CASE Models(T, Evidence(adm)) # {} /\ Resolved(Models(T, Evidence(adm))) = {}
  BY <1>1, <1>4 DEF ExactDirective, Stop, Acquire, Verify
<1> QED BY <1>2, <1>3, <1>4

\* The server of another policy version retains nothing: every key on file is
\* of the pinned version, and the answer it names is live.
THEOREM KeysOfPinnedPolicy == Spec => []VerifiedUnderPinnedPolicy
<1>1. Init => VerifiedUnderPinnedPolicy
  BY DEF Init, VerifiedUnderPinnedPolicy
<1>2. IInv /\ VerifiedUnderPinnedPolicy /\ [Next]_vars => VerifiedUnderPinnedPolicy'
  <2> SUFFICES ASSUME IInv, VerifiedUnderPinnedPolicy, [Next]_vars
               PROVE  VerifiedUnderPinnedPolicy'
    OBVIOUS
  <2>1. ASSUME StartWrites
        PROVE  VerifiedUnderPinnedPolicy'
    BY <2>1 DEF StartWrites, IInv, EmptyBeforeStart, VerifiedUnderPinnedPolicy
  <2>2. ASSUME NEW c \in Mutations(ClientKeys), AdmitWrites(c)
        PROVE  VerifiedUnderPinnedPolicy'
    <3>1. admitted \subseteq admitted' /\ verified' = verified /\ session'.pv = session.pv
      BY <2>2 DEF AdmitWrites, CommitResult
    <3> QED BY <3>1 DEF VerifiedUnderPinnedPolicy, LiveFor
  <2>3. ASSUME NEW c \in Mutations(ClientKeys), VerifyWrites(c)
        PROVE  VerifiedUnderPinnedPolicy'
    <3>1. /\ admitted' = admitted /\ session'.pv = session.pv
          /\ verified' \subseteq verified \cup {c.payload.vkey}
          /\ LiveFor(admitted, c.payload.vkey) # {}
      BY <2>3 DEF VerifyWrites, CommitResult
    <3>2. c.payload.vkey.pv = session.pv
      BY <2>3, VerifyUnderPolicy DEF VerifyWrites
    <3> QED BY <3>1, <3>2 DEF VerifiedUnderPinnedPolicy, LiveFor
  <2>4. ASSUME AbandonWrites \/ UNCHANGED caseRows
        PROVE  VerifiedUnderPinnedPolicy'
    BY <2>4 DEF AbandonWrites, caseRows, VerifiedUnderPinnedPolicy, LiveFor
  <2> QED BY <2>1, <2>2, <2>3, <2>4, StepCases
<1> QED BY <1>1, <1>2, SessionInvariant, PTL DEF Spec

\* The directive of the stored case.
StoredDirective ==
  ExactDirective(Ir, Theories[session.phi], admitted, verified, session.pv)

\* A commit that leaves the session ACTIVE was told to go on.
LEMMA CommitTellsStop ==
  ASSUME NEW c, NEW changed, Accepted(c),
         NEW d \in AnalyzeOutcomes(Ir, Theories[session.phi], admitted', verified', session.pv,
                                   SolverMayGiveUp),
         CommitResult(c, changed, d)
  PROVE  /\ session'.status = "ACTIVE" => StoredDirective'.action # "STOP"
         /\ session'.status = "STOPPED" /\ session'.reason \in SemanticReasons =>
              StoredDirective' = Stop(session'.reason)
<1> DEFINE after == ExactDirective(Ir, Theories[session.phi], admitted', verified', session.pv)
<1>1. StoredDirective' = after
  BY DEF CommitResult, StoredDirective, Theories
<1>2. CASE d.action # "STOP"
  <2>1. d = after /\ session'.status = "ACTIVE"
    BY <1>2, OnlyStopsGiveUp DEF CommitResult, Accepted
  <2> QED BY <1>1, <1>2, <2>1
<1>3. CASE d.action = "STOP" /\ d.reason \in SemanticReasons
  <2>1. d = after
    BY <1>3, OnlyStopsGiveUp
  <2>2. after = Stop(after.reason)
    BY <1>3, <2>1, StopShape
  <2>3. session'.status = "STOPPED" /\ session'.reason = d.reason
    BY <1>3 DEF CommitResult
  <2> HIDE DEF after
  <2> QED BY <1>1, <2>1, <2>2, <2>3
<1>4. CASE d.action = "STOP" /\ d.reason \notin SemanticReasons
  BY <1>4 DEF CommitResult
<1> QED BY <1>2, <1>3, <1>4
\* start_inquiry obeys the same rule.
LEMMA StartTellsStop ==
  ASSUME IInv, StartWrites
  PROVE  /\ session'.status = "ACTIVE" => StoredDirective'.action # "STOP"
         /\ session'.status = "STOPPED" /\ session'.reason \in SemanticReasons =>
              StoredDirective' = Stop(session'.reason)
<1> DEFINE after == ExactDirective(Ir, Theories[session'.phi], {}, {}, session'.pv)
<1>1. PICK d \in AnalyzeOutcomes(Ir, Theories[session'.phi], {}, {}, session'.pv,
                                 SolverMayGiveUp) :
        /\ session'.status = IF d.action = "STOP" THEN "STOPPED" ELSE "ACTIVE"
        /\ session'.reason = IF d.action = "STOP" THEN d.reason ELSE NoReason
  BY DEF StartWrites
<1>2. StoredDirective' = after
  BY DEF StartWrites, IInv, EmptyBeforeStart, StoredDirective, Theories
<1>3. CASE d.action # "STOP"
  BY <1>1, <1>2, <1>3, OnlyStopsGiveUp
<1>4. CASE d.action = "STOP" /\ d.reason \in SemanticReasons
  <2>1. d = after
    BY <1>4, OnlyStopsGiveUp
  <2>2. after = Stop(after.reason)
    BY <1>4, <2>1, StopShape
  <2> HIDE DEF after
  <2> QED BY <1>1, <1>2, <1>4, <2>1, <2>2
<1>5. CASE d.action = "STOP" /\ d.reason \notin SemanticReasons
  BY <1>1, <1>5
<1> QED BY <1>3, <1>4, <1>5

\* A step that is not a commit leaves the case as it was, or abandons it.
LEMMA OtherSteps ==
  ASSUME AbandonWrites \/ UNCHANGED caseRows
  PROVE  \/ session'.status = "ABANDONED"
         \/ session' = session /\ StoredDirective' = StoredDirective
BY DEF AbandonWrites, caseRows, StoredDirective, Theories

\* Each step keeps the status in line with what ANALYZE says of the case.
LEMMA StepTellsStop ==
  ASSUME IInv, ActiveHasWorkLeft, StopStands, [Next]_vars
  PROVE  ActiveHasWorkLeft' /\ StopStands'
<1>1. ASSUME StartWrites
      PROVE  ActiveHasWorkLeft' /\ StopStands'
  BY <1>1, StartTellsStop DEF ActiveHasWorkLeft, StopStands, StoredDirective
<1>2. ASSUME NEW c \in Mutations(ClientKeys), AdmitWrites(c)
      PROVE  ActiveHasWorkLeft' /\ StopStands'
  BY <1>2, CommitTellsStop DEF AdmitWrites, ActiveHasWorkLeft, StopStands, StoredDirective
<1>3. ASSUME NEW c \in Mutations(ClientKeys), VerifyWrites(c)
      PROVE  ActiveHasWorkLeft' /\ StopStands'
  BY <1>3, CommitTellsStop DEF VerifyWrites, ActiveHasWorkLeft, StopStands, StoredDirective
<1>4. ASSUME AbandonWrites \/ UNCHANGED caseRows
      PROVE  ActiveHasWorkLeft' /\ StopStands'
  BY <1>4, OtherSteps DEF ActiveHasWorkLeft, StopStands, StoredDirective
<1> QED BY <1>1, <1>2, <1>3, <1>4, StepCases

\* The status and the directive of the stored case agree.
LEMMA StatusIsHonest == Spec => [](ActiveHasWorkLeft /\ StopStands)
<1>1. Init => ActiveHasWorkLeft /\ StopStands
  BY DEF Init, NoRow, ActiveHasWorkLeft, StopStands
<1>2. IInv /\ (ActiveHasWorkLeft /\ StopStands) /\ [Next]_vars =>
        (ActiveHasWorkLeft /\ StopStands)'
  BY StepTellsStop
<1> QED BY <1>1, <1>2, SessionInvariant, PTL DEF Spec

\* ACTIVE means that there is work left: the commit that leaves nothing to do
\* also stops the session.
THEOREM ActiveIsHonest == Spec => []ActiveHasWorkLeft
<1>1. ActiveHasWorkLeft /\ StopStands => ActiveHasWorkLeft
  OBVIOUS
<1> QED BY <1>1, StatusIsHonest, PTL

\* A verdict a session has stopped with stays true of the case it stored.
THEOREM VerdictsStand == Spec => []StopStands
<1>1. ActiveHasWorkLeft /\ StopStands => StopStands
  OBVIOUS
<1> QED BY <1>1, StatusIsHonest, PTL

-----------------------------------------------------------------------------
(* The read that takes no lock.                                            *)

\* What a reader holds is never newer than the case, and it is the case as
\* long as the revision is the one it read.
ReadsFollow ==
  \A r \in Readers :
    LET seen == reading[r].row
    IN  reading[r].at \in {"row", "admitted"} =>
          /\ seen.status = "ACTIVE" /\ seen.revision <= session.revision
          /\ session \in Row
          /\ seen.revision = session.revision =>
               /\ seen = session
               /\ reading[r].at = "admitted" => reading[r].admitted = admitted

\* A change of the case leaves every reader behind.
LEMMA ChangeLeavesReadsBehind ==
  ASSUME IInv, ReadsFollow, InvariantErrorMeansRace, reading' = reading,
         session # NoRow => /\ session' \in Row
                            /\ session'.revision >= session.revision,
         session'.revision = session.revision => UNCHANGED <<session, admitted>>
  PROVE  ReadsFollow' /\ InvariantErrorMeansRace'
<1>1. ASSUME NEW r \in Readers, reading[r].at \in {"row", "admitted"}
      PROVE  /\ reading[r].row \in Row
             /\ session \in Row /\ session # NoRow
  BY <1>1 DEF IInv, TypeOK, Reads, NoRead, ReadsFollow, NoRow, Row, Statuses
<1>2. ReadsFollow'
  <2> SUFFICES ASSUME NEW r \in Readers, reading[r].at \in {"row", "admitted"}
               PROVE  LET seen == reading[r].row
                      IN  /\ seen.status = "ACTIVE" /\ seen.revision <= session'.revision
                          /\ session' \in Row
                          /\ seen.revision = session'.revision =>
                               /\ seen = session'
                               /\ reading[r].at = "admitted" => reading[r].admitted = admitted'
    BY DEF ReadsFollow
  <2>1. /\ reading[r].row.revision \in Nat /\ session.revision \in Nat
        /\ session' \in Row /\ session'.revision \in Nat
        /\ session'.revision >= session.revision
    BY <1>1 DEF Row
  <2>2. /\ reading[r].row.status = "ACTIVE"
        /\ reading[r].row.revision <= session.revision
        /\ reading[r].row.revision = session.revision =>
             /\ reading[r].row = session
             /\ reading[r].at = "admitted" => reading[r].admitted = admitted
    BY DEF ReadsFollow
  <2>3. reading[r].row.revision = session'.revision => session'.revision = session.revision
    BY <2>1, <2>2
  <2> QED BY <2>1, <2>2, <2>3
<1>3. InvariantErrorMeansRace'
  <2> SUFFICES ASSUME NEW r \in Readers, reading[r].at = "raised",
                      reading[r].reason \in SemanticReasons
               PROVE  session'.revision > reading[r].revision
    BY DEF InvariantErrorMeansRace
  <2>1. session.revision > reading[r].revision /\ reading[r].revision \in Nat
    BY DEF InvariantErrorMeansRace, IInv, TypeOK, Reads, NoRead
  <2>2. session # NoRow /\ session \in Row
    BY <2>1 DEF IInv, TypeOK, NoRow
  <2>3. session.revision \in Nat /\ session'.revision \in Nat
        /\ session'.revision >= session.revision
    BY <2>2 DEF Row
  <2> QED BY <2>1, <2>3
<1> QED BY <1>2, <1>3
\* A write of the tables either moves the revision up or changes nothing that
\* next_directive reads before its last statement.
LEMMA WritesLeaveReadsBehind ==
  ASSUME IInv, ReadsFollow, InvariantErrorMeansRace, reading' = reading, [Next]_vars
  PROVE  ReadsFollow' /\ InvariantErrorMeansRace'
<1>1. CASE session = NoRow
  <2>1. \A r \in Readers : reading[r].at \notin {"row", "admitted"}
    BY <1>1 DEF ReadsFollow, Row, NoRow, Statuses
  <2>2. \A r \in Readers : reading[r].at = "raised" => reading[r].reason \notin SemanticReasons
    BY <1>1 DEF InvariantErrorMeansRace, IInv, TypeOK, Reads, NoRead, NoRow
  <2> QED BY <2>1, <2>2 DEF ReadsFollow, InvariantErrorMeansRace
<1>2. CASE session # NoRow
  <2>1. session \in Row /\ session.revision \in Nat
    BY <1>2 DEF IInv, TypeOK, Row
  <2>2. ASSUME NEW c \in Mutations(ClientKeys), AdmitWrites(c)
        PROVE  /\ session' \in Row
               /\ session'.revision = session.revision => UNCHANGED <<session, admitted>>
    <3>1. PICK d \in AnalyzeOutcomes(Ir, Theories[session.phi], admitted', verified',
                                     session.pv, SolverMayGiveUp) :
            CommitResult(c, Answer(c.payload).opt # Abstain, d)
      BY <2>2 DEF AdmitWrites
    <3>2. session'.revision = session.revision =>
            Answer(c.payload).opt = Abstain /\ d.action # "STOP"
      BY <2>1, <3>1 DEF CommitResult
    <3>3. session'.revision = session.revision => session' = session
      BY <2>1, <3>1, <3>2 DEF CommitResult, Row
    <3> QED BY <2>2, <3>1, <3>2, <3>3 DEF AdmitWrites, CommitResult
  <2>3. ASSUME NEW c \in Mutations(ClientKeys), VerifyWrites(c)
        PROVE  /\ session' \in Row
               /\ session'.revision = session.revision => UNCHANGED <<session, admitted>>
    <3>1. PICK d \in AnalyzeOutcomes(Ir, Theories[session.phi], admitted', verified',
                                     session.pv, SolverMayGiveUp) :
            CommitResult(c, c.payload.agree, d)
      BY <2>3 DEF VerifyWrites
    <3>2. session'.revision = session.revision => d.action # "STOP"
      BY <2>1, <2>3, <3>1 DEF CommitResult, VerifyWrites
    <3>3. session'.revision = session.revision => session' = session
      BY <2>1, <3>1, <3>2 DEF CommitResult, Row
    <3> QED BY <2>3, <3>1, <3>3 DEF VerifyWrites, CommitResult
  <2>4. AbandonWrites => session' \in Row /\ session'.revision # session.revision
    BY <2>1 DEF AbandonWrites
  <2>5. UNCHANGED caseRows => UNCHANGED <<session, admitted>>
    BY DEF caseRows
  <2>6. ~StartWrites
    BY <1>2 DEF StartWrites
  <2>7. /\ session' \in Row
        /\ session'.revision = session.revision => UNCHANGED <<session, admitted>>
    BY <2>1, <2>2, <2>3, <2>4, <2>5, <2>6, StepCases
  <2> QED BY <1>2, <2>7, StepAdvancesRevision, ChangeLeavesReadsBehind
<1> QED BY <1>1, <1>2

\* A step of a reader.
LEMMA ReadKeepsUp ==
  ASSUME IInv, ReadsFollow, InvariantErrorMeansRace, ActiveHasWorkLeft,
         NEW r \in Readers, Read(r)
  PROVE  ReadsFollow' /\ InvariantErrorMeansRace'
<1>1. reading \in [Readers -> Reads] /\ UNCHANGED <<session, admitted, verified>>
  BY DEF IInv, TypeOK, Read, ReadRow, ReadAdmitted, ReadVerifiedAndAnswer, EndRead, caseRows
<1>2. CASE ReadRow(r)
  <2>1. session \in Row /\ session.revision \in Nat
    BY <1>2 DEF ReadRow, IInv, TypeOK, NoRow, Row
  <2> QED BY <1>1, <1>2, <2>1 DEF ReadRow, ReadsFollow, InvariantErrorMeansRace
<1>3. CASE ReadAdmitted(r)
  <2>1. reading' = [reading EXCEPT ![r] = [at |-> "admitted", row |-> reading[r].row,
                                           admitted |-> admitted]]
        /\ reading[r].at = "row"
    BY <1>3 DEF ReadAdmitted
  <2> QED BY <1>1, <2>1 DEF ReadsFollow, InvariantErrorMeansRace
<1>4. CASE ReadVerifiedAndAnswer(r)
  <2> DEFINE seen == reading[r].row
  <2>1. reading[r].at = "admitted"
    BY <1>4 DEF ReadVerifiedAndAnswer
  <2>2. PICK d \in AnalyzeOutcomes(Ir, Theories[seen.phi], reading[r].admitted, verified,
                                   seen.pv, SolverMayGiveUp) :
          reading' = [reading EXCEPT ![r] =
            IF d.action = "STOP"
            THEN [at |-> "raised", revision |-> seen.revision, reason |-> d.reason]
            ELSE NoRead]
    BY <1>4 DEF ReadVerifiedAndAnswer, Outcomes
  <2>3. /\ seen.status = "ACTIVE" /\ seen.revision <= session.revision
        /\ session \in Row
        /\ seen.revision = session.revision => seen = session /\ reading[r].admitted = admitted
    BY <2>1 DEF ReadsFollow
  <2>4. seen \in Row /\ seen.revision \in Nat /\ session.revision \in Nat
    BY <1>1, <2>1, <2>3 DEF Reads, NoRead, Row
  <2>5. d.action = "STOP" /\ d.reason \in SemanticReasons => session.revision > seen.revision
    <3> SUFFICES ASSUME d.action = "STOP", d.reason \in SemanticReasons,
                        seen.revision = session.revision
                 PROVE  FALSE
      BY <2>3, <2>4
    <3>1. d = ExactDirective(Ir, Theories[session.phi], admitted, verified, session.pv)
      BY <2>3, OnlyStopsGiveUp
    <3>2. session.status = "ACTIVE"
      BY <2>3
    <3> QED BY <3>1, <3>2 DEF ActiveHasWorkLeft
  <2>6. ReadsFollow'
    BY <1>1, <2>2 DEF ReadsFollow, NoRead
  <2>7. InvariantErrorMeansRace'
    <3> SUFFICES ASSUME NEW s \in Readers, reading'[s].at = "raised",
                        reading'[s].reason \in SemanticReasons
                 PROVE  session.revision > reading'[s].revision
      BY <1>1 DEF InvariantErrorMeansRace
    <3>1. CASE s # r
      BY <1>1, <2>2, <3>1 DEF InvariantErrorMeansRace
    <3>2. CASE s = r /\ d.action = "STOP"
      BY <1>1, <2>2, <2>5, <3>2
    <3>3. CASE s = r /\ d.action # "STOP"
      BY <1>1, <2>2, <3>3 DEF NoRead
    <3> QED BY <3>1, <3>2, <3>3
  <2> QED BY <2>6, <2>7
<1>5. CASE EndRead(r)
  BY <1>1, <1>5 DEF EndRead, NoRead, ReadsFollow, InvariantErrorMeansRace
<1> QED BY <1>2, <1>3, <1>4, <1>5 DEF Read

\* The lock-free read only ever complains of a case that has moved on.
THEOREM ErrorMeansRace == Spec => []InvariantErrorMeansRace
<1> DEFINE RInv == ReadsFollow /\ InvariantErrorMeansRace
<1>1. Init => RInv
  BY DEF Init, NoRead, ReadsFollow, InvariantErrorMeansRace
<1>2. IInv /\ ActiveHasWorkLeft /\ RInv /\ [Next]_vars => RInv'
  <2> SUFFICES ASSUME IInv, ActiveHasWorkLeft, RInv, [Next]_vars
               PROVE  RInv'
    OBVIOUS
  <2>1. ASSUME NEW r \in Readers, Read(r)
        PROVE  RInv'
    BY <2>1, ReadKeepsUp
  <2>2. ASSUME NEW p \in Servers, Mutate(p)
        PROVE  reading' = reading
    BY <2>2 DEF Mutate, Lock, AdmitCommit, VerifyCommit, AbandonCommit, RollBack
  <2>3. Start \/ UNCHANGED vars => reading' = reading
    BY DEF Start, vars
  <2>4. reading' = reading => RInv'
    BY WritesLeaveReadsBehind
  <2> QED BY <2>1, <2>2, <2>3, <2>4 DEF Next
<1> QED BY <1>1, <1>2, SessionInvariant, ActiveIsHonest, PTL DEF Spec
-----------------------------------------------------------------------------
(* The conclusion.                                                         *)

\* Fewer models leave a resolved case resolved, unless none is left.
LEMMA FewerModels ==
  ASSUME NEW M, NEW N, N \subseteq M, Resolved(M) # {}
  PROVE  Resolved(N) = Resolved(M) \/ N = {}
<1> SUFFICES ASSUME N # {}
             PROVE  Resolved(N) = Resolved(M)
  OBVIOUS
<1>1. /\ Resolved(M) = Possible(M) /\ Cardinality(Possible(M)) = 1
      /\ \A m \in M : Possible(M) \subseteq m.concludes
  BY DEF Resolved
<1>2. Possible(N) = Possible(M)
  <2>1. Possible(N) \subseteq Possible(M)
    BY DEF Possible
  <2>2. PICK m \in N : TRUE
    OBVIOUS
  <2>3. Possible(M) \subseteq m.concludes /\ m.concludes \subseteq Possible(N)
    BY <1>1, <2>2 DEF Possible
  <2> QED BY <2>1, <2>3
<1>3. \A m \in N : Possible(N) \subseteq m.concludes
  BY <1>1, <1>2
<1> QED BY <1>1, <1>2, <1>3 DEF Resolved

\* More evidence leaves fewer models.
LEMMA MoreEvidence ==
  ASSUME NEW T, NEW A, NEW B, A \subseteq B
  PROVE  Models(T, Evidence(B)) \subseteq Models(T, Evidence(A))
BY DEF Models, Evidence

\* Once resolved, a case keeps its conclusion whatever is answered next, or
\* comes to contradict its assumptions.
THEOREM ConclusionStands == Spec => ConclusionNeverFlips
<1>1. IInv /\ [Next]_vars =>
        [session # NoRow =>
           LET before == Resolved(Models(Theories[session.phi], Evidence(admitted)))
               after  == Models(Theories[session.phi], Evidence(admitted'))
           IN  before # {} => Resolved(after) = before \/ after = {}]_vars
  <2> SUFFICES ASSUME IInv, [Next]_vars,
                      Resolved(Models(Theories[session.phi], Evidence(admitted))) # {}
               PROVE  LET after == Models(Theories[session.phi], Evidence(admitted'))
                      IN  \/ Resolved(after)
                               = Resolved(Models(Theories[session.phi], Evidence(admitted)))
                          \/ after = {}
    OBVIOUS
  <2>1. admitted \subseteq admitted'
    BY StepCases DEF StartWrites, AdmitWrites, VerifyWrites, AbandonWrites, caseRows
  <2> QED BY <2>1, MoreEvidence, FewerModels
<1> QED BY <1>1, SessionInvariant, PTL DEF Spec, ConclusionNeverFlips

-----------------------------------------------------------------------------
(* Refinement.                                                             *)

\* The key of an accepted mutation is spent against the current revision.
LEMMA CommitSpends ==
  ASSUME IInv, NEW c, NEW changed, NEW d, Accepted(c), CommitResult(c, changed, d)
  PROVE  /\ Promise!Spend(c.key)
         /\ Promise!Advance(changed, d.action = "STOP")
<1> DEFINE acked == [k \in Keys |-> IF receipts[k] = NoReceipt THEN 0 ELSE receipts[k].expected]
<1>1. c.key \in Keys /\ acked[c.key] = 0 /\ session.status = "ACTIVE"
  BY DEF Accepted
<1>2. acked' = [acked EXCEPT ![c.key] = session.revision]
  BY <1>1 DEF CommitResult
<1>3. Promise!Spend(c.key)
  BY <1>1, <1>2 DEF Promise!Spend, Promise!NotAcked
<1>4. Promise!Advance(changed, d.action = "STOP")
  BY <1>1 DEF CommitResult, Promise!Advance
<1> QED BY <1>3, <1>4

\* One step of the refinement.
LEMMA StepSimulates ==
  ASSUME IInv, [Next]_vars
  PROVE  [Promise!CaseNext]_Promise!caseVars
<1>1. ASSUME StartWrites
      PROVE  Promise!Open
  BY <1>1 DEF StartWrites, NoRow, Promise!Open
<1>2. ASSUME NEW c \in Mutations(ClientKeys), AdmitWrites(c)
      PROVE  Promise!CaseNext
  <2> DEFINE a == Answer(c.payload)
  <2>1. PICK d : CommitResult(c, a.opt # Abstain, d)
    BY <1>2 DEF AdmitWrites
  <2>2. Accepted(c) /\ c.key \in Keys /\ UNCHANGED verified
    BY <1>2 DEF AdmitWrites, Accepted
  <2>3. Promise!Spend(c.key) /\ Promise!Advance(a.opt # Abstain, d.action = "STOP")
    BY <2>1, <2>2, CommitSpends
  <2>4. CASE a.opt # Abstain
    <3>1. a \in Assertions /\ admitted' = admitted \cup {a}
      BY <1>2, <2>4 DEF AdmitWrites
    <3>2. Promise!Advance(TRUE, d.action = "STOP")
      BY <2>3, <2>4
    <3>3. Promise!AddAnswer(c.key, a)
      BY <2>2, <2>3, <3>1, <3>2 DEF Promise!AddAnswer
    <3> QED BY <2>2, <3>1, <3>3 DEF Promise!CaseNext
  <2>5. CASE a.opt = Abstain
    <3>1. UNCHANGED admitted
      BY <1>2, <2>5 DEF AdmitWrites
    <3>2. Promise!Advance(FALSE, d.action = "STOP")
      BY <2>3, <2>5
    <3>3. Promise!AddNothing(c.key)
      BY <2>2, <2>3, <3>1, <3>2 DEF Promise!AddNothing
    <3> QED BY <2>2, <3>3 DEF Promise!CaseNext
  <2> QED BY <2>4, <2>5
<1>3. ASSUME NEW c \in Mutations(ClientKeys), VerifyWrites(c)
      PROVE  Promise!CaseNext
  <2>1. PICK d : CommitResult(c, c.payload.agree, d)
    BY <1>3 DEF VerifyWrites
  <2>2. Accepted(c) /\ c.key \in Keys /\ c.payload.vkey \in VKeys /\ UNCHANGED admitted
    BY <1>3 DEF VerifyWrites, Accepted
  <2>3. Promise!Spend(c.key) /\ Promise!Advance(c.payload.agree, d.action = "STOP")
    BY <2>1, <2>2, CommitSpends
  <2>4. CASE c.payload.agree = TRUE
    <3>1. verified' = verified \cup {c.payload.vkey}
      BY <1>3, <2>4 DEF VerifyWrites
    <3>2. Promise!Advance(TRUE, d.action = "STOP")
      BY <2>3, <2>4
    <3>3. Promise!AddCheck(c.key, c.payload.vkey)
      BY <2>2, <2>3, <3>1, <3>2 DEF Promise!AddCheck
    <3> QED BY <2>2, <3>3 DEF Promise!CaseNext
  <2>5. CASE c.payload.agree = FALSE
    <3>1. UNCHANGED verified
      BY <1>3, <2>5 DEF VerifyWrites
    <3>2. Promise!Advance(FALSE, d.action = "STOP")
      BY <2>3, <2>5
    <3>3. Promise!AddNothing(c.key)
      BY <2>2, <2>3, <3>1, <3>2 DEF Promise!AddNothing
    <3> QED BY <2>2, <3>3 DEF Promise!CaseNext
  <2> QED BY <1>3, <2>4, <2>5 DEF VerifyWrites
<1>4. ASSUME AbandonWrites
      PROVE  Promise!Abandon
  <2>1. session.status \in {"ACTIVE", "STOPPED"}
    BY <1>4 DEF AbandonWrites, Row, Statuses
  <2> QED BY <1>4, <2>1 DEF AbandonWrites, Promise!Abandon
<1>5. UNCHANGED caseRows => UNCHANGED Promise!caseVars
  BY DEF caseRows, Promise!caseVars
<1> QED BY <1>1, <1>2, <1>3, <1>4, <1>5, StepCases DEF Promise!CaseNext

\* The session, with its lock, receipts, rewritten tables and solver, is the
\* versioned case its clients are promised.
THEOREM ImplementsPromise == Spec => ImplementsVersionedCase
<1>1. Init => Promise!CaseInit
  BY DEF Init, NoRow, NoReceipt, Promise!CaseInit, Promise!NotAcked
<1>2. IInv /\ [Next]_vars => [Promise!CaseNext]_Promise!caseVars
  BY StepSimulates
<1> QED BY <1>1, <1>2, SessionInvariant, PTL DEF Spec, ImplementsVersionedCase, Promise!CaseSpec

-----------------------------------------------------------------------------
(* Gathering in chat (ChatGather). A chat call reads the row before it     *)
(* locks it, so LockHolderIsCurrent fails; what is left is that a row held *)
(* tells what the session was started with, and that answers are only      *)
(* added. A case that is settled stays so under more answers: whatever a   *)
(* stale admit adds after the last directive, the answers a report is      *)
(* drawn from are settled, and settled parts of one case agree.            *)

\* Nothing is left for ANALYZE to acquire, as far as models go.
Settled(phi, A) ==
  LET M == Models(Theories[phi], Evidence(A))
  IN  M = {} \/ Resolved(M) # {}

\* The rows of the session: a loaded row may be behind, in everything but what
\* the session was started with.
TablesInv ==
  /\ DOMAIN row = Servers /\ DOMAIN receipts = Keys
  /\ session # NoRow => "phi" \in DOMAIN session /\ session.phi \in Phis
  /\ \A p \in Servers : /\ row[p] # NoRow => session # NoRow /\ row[p].phi = session.phi
                        /\ lock = p => row[p] # NoRow
  /\ session = NoRow => admitted = {} /\ \A k \in Keys : receipts[k] = NoReceipt
  /\ admitted \subseteq Assertions
  /\ \A a \in admitted : a.opt \in Ir.options[a.q]
  /\ OneLiveAnswerPerQuestion
  /\ \A k \in Keys : receipts[k] # NoReceipt /\ receipts[k].action # "ACQUIRE" =>
       Settled(session.phi, admitted)

\* Answers a report may be drawn from, of a session row and the answers admitted.
Reportable(case, adm, A) == case # NoRow /\ A \subseteq adm /\ Settled(case.phi, A)

AnswerStages == {"read", "unissued", "new", "locked", "terminal"}
ReportStages == {"apply", "applied", "record"}

\* A call that is to report has a settled case, or settled answers of it.
CallIsSound(case, adm, call) ==
  \/ call = Idle
  \/ /\ call \in [at : AnswerStages, payload : ChatAnswers \cup {NoAnswer}]
     /\ call.at # "terminal" => call.payload \in ChatAnswers
     /\ call.at = "terminal" => Reportable(case, adm, adm)
  \/ /\ DOMAIN call = {"at", "payload", "envelope"} /\ call.at \in ReportStages
     /\ Reportable(case, adm, call.envelope)

CallsInv == DOMAIN chat = Chats /\ \A p \in Chats : CallIsSound(session, admitted, chat[p])

RunsInv ==
  /\ runs \in Seq(SUBSET Assertions)
  /\ \A i \in 1..Len(runs) : Reportable(session, admitted, runs[i])

GatherInv == TablesInv /\ CallsInv /\ RunsInv

\* Models that all come to the same one conclusion resolve to it.
LEMMA OneOfOne ==
  ASSUME NEW M, NEW c, M # {}, \A m \in M : m.concludes = {c}
  PROVE  Possible(M) = {c} /\ Resolved(M) = {c}
<1>1. Possible(M) = {c}
  BY DEF Possible
<1>2. Cardinality({c}) = 1
  BY FS_Singleton
<1> QED BY <1>1, <1>2 DEF Resolved

\* Answering every open question as a model m does leaves models that choose what
\* m chooses, and so conclude what it concludes.
LEMMA AnsweredInFull ==
  ASSUME NEW phi \in Phis, NEW E, NEW m \in Models(Theories[phi], E),
         NEW D, D = Unanswered(Ir, E),
         NEW n \in Models(Theories[phi], E \cup {<<q, m.choice[q]>> : q \in D})
  PROVE  n.concludes = m.concludes
<1> DEFINE alpha == {<<q, m.choice[q]>> : q \in D}
<1>1. /\ n.choice \in Worlds(Ir) /\ n.concludes = Reached(Ir, n.choice) \cap Ir.conclusions
      /\ m.choice \in Worlds(Ir) /\ m.concludes = Reached(Ir, m.choice) \cap Ir.conclusions
  BY DEF Theories, Theory, Models
<1>2. \A q \in Ir.questions : n.choice[q] = m.choice[q]
  <2> SUFFICES ASSUME NEW q \in Ir.questions
               PROVE  n.choice[q] = m.choice[q]
    OBVIOUS
  <2>1. CASE q \in D
    <3> DEFINE pair == <<q, m.choice[q]>>
    <3>1. pair \in E \cup alpha /\ pair[1] = q /\ pair[2] = m.choice[q]
      BY <2>1
    <3>2. \A p \in E \cup alpha : n.choice[p[1]] = p[2]
      BY DEF Models
    <3> HIDE DEF pair, alpha
    <3> QED BY <3>1, <3>2
  <2>2. CASE q \notin D
    <3>1. PICK p \in E : p[1] = q
      BY <2>2 DEF Unanswered
    <3>2. n.choice[p[1]] = p[2] /\ m.choice[p[1]] = p[2]
      BY DEF Models
    <3> QED BY <3>1, <3>2
  <2> QED BY <2>1, <2>2
<1>3. n.choice = m.choice
  BY <1>1, <1>2 DEF Worlds
<1> QED BY <1>1, <1>3

\* A case that is not settled has something to acquire: with two open questions or
\* more, the answers of any model resolve, so all of them together are a witness;
\* the last open question tells apart two models that conclude differently.
LEMMA SomethingToAcquire ==
  ASSUME ConcludingIr, NEW phi \in Phis, NEW E,
         Models(Theories[phi], E) # {}, Resolved(Models(Theories[phi], E)) = {}
  PROVE  \/ MyopicDiscriminators(Ir, Theories[phi], E) # {}
         \/ ResolvingWitnesses(Ir, Theories[phi], E) # {}
<1> DEFINE T == Theories[phi]
           M == Models(T, E)
           D == Unanswered(Ir, E)
           Says(m) == {<<q, m.choice[q]>> : q \in D}
           Left(m) == Models(T, E \cup Says(m))
<1>1. IsFiniteSet(D) /\ D \subseteq Ir.questions
  BY FS_Subset DEF ConcludingIr, Unanswered
<1>2. \A m \in M : /\ \E c : m.concludes = {c}
                   /\ \A q \in Ir.questions : m.choice[q] \in Ir.options[q]
  <2>1. M \subseteq T /\ \A m \in T : m.choice \in Worlds(Ir)
    BY DEF Models, Theories, Theory
  <2>2. \A m \in T : \E c : m.concludes = {c}
    BY DEF ConcludingIr
  <2> HIDE DEF T, M
  <2> QED BY <2>1, <2>2 DEF Worlds
<1>3. ASSUME NEW m \in M
      PROVE  m \in Left(m) /\ Possible(Left(m)) = m.concludes /\ Resolved(Left(m)) # {}
  <2>1. m \in Left(m)
    <3>1. \A p \in Says(m) : m.choice[p[1]] = p[2]
      OBVIOUS
    <3> HIDE DEF Says, T
    <3> QED BY <3>1 DEF Models
  <2>2. \A n \in Left(m) : n.concludes = m.concludes
    BY AnsweredInFull
  <2>3. PICK c : m.concludes = {c}
    BY <1>2
  <2> DEFINE N == Left(m)
  <2>4. m \in N /\ \A n \in N : n.concludes = {c}
    BY <2>1, <2>2, <2>3
  <2> HIDE DEF N
  <2>5. Possible(N) = {c} /\ Resolved(N) = {c}
    BY <2>4, OneOfOne
  <2> QED BY <2>1, <2>3, <2>5 DEF N
<1>4. PICK m \in M : TRUE
  OBVIOUS
<1>5. CASE D = {}
  <2>1. Says(m) = {} /\ E \cup Says(m) = E
    BY <1>5
  <2> QED BY <1>3, <2>1
<1>6. ASSUME NEW q, D = {q}
      PROVE  q \in MyopicDiscriminators(Ir, T, E)
  <2>1. \A x \in M : Says(x) = {<<q, x.choice[q]>>}
    BY <1>6
  <2>2. PICK o \in M : o.concludes # m.concludes
    <3> SUFFICES ASSUME \A o \in M : o.concludes = m.concludes
                 PROVE  FALSE
      OBVIOUS
    <3>1. PICK c : m.concludes = {c}
      BY <1>2
    <3> HIDE DEF M
    <3>2. Resolved(M) = {c}
      BY <3>1, OneOfOne
    <3> QED BY <3>2 DEF M
  <2> DEFINE With(x) == Possible(Models(T, E \cup {<<q, x>>}))
             f == [x \in Ir.options[q] |-> With(x)]
             all == {With(x) : x \in Ir.options[q]}
  <2>3. q \in Ir.questions
    BY <1>1, <1>6
  <2>4. With(m.choice[q]) = m.concludes /\ With(o.choice[q]) = o.concludes
    BY <1>3, <2>1
  <2>5. m.choice[q] \in Ir.options[q] /\ o.choice[q] \in Ir.options[q]
    BY <1>2, <2>3
  <2>6. IsFiniteSet(all)
    <3>1. all = {f[x] : x \in Ir.options[q]}
      OBVIOUS
    <3>2. IsFiniteSet({f[x] : x \in Ir.options[q]})
      <4>1. IsFiniteSet(Ir.options[q])
        BY <2>3 DEF ConcludingIr
      <4> QED BY <4>1, ImageIsFinite
    <3> QED BY <3>1, <3>2
  <2>7. With(m.choice[q]) \in all /\ With(o.choice[q]) \in all
    BY <2>5
  <2>8. Cardinality(all) > 1
    <3> HIDE DEF all, With
    <3> QED BY <2>2, <2>4, <2>6, <2>7, AtMostOne
  <2>9. q \in Unanswered(Ir, E)
    BY <1>6
  <2> QED BY <2>8, <2>9 DEF MyopicDiscriminators
<1>7. CASE Cardinality(D) >= 2
  <2> DEFINE g == [q \in D |-> m.choice[q]]
  <2>1. \A q \in D : g[q] \in Ir.options[q]
    BY <1>1, <1>2
  <2>2. g \in [D -> UNION {Ir.options[q] : q \in D}]
    BY <2>1
  <2>3. Says(m) = {<<q, g[q]>> : q \in D}
    OBVIOUS
  <2>4. Says(m) \in AnswersTo(Ir, D)
    <3> HIDE DEF g, Says
    <3> QED BY <2>1, <2>2, <2>3 DEF AnswersTo
  <2>5. Resolved(Models(T, E \cup Says(m))) # {}
    BY <1>3
  <2> HIDE DEF Says
  <2>6. D \in ResolvingWitnesses(Ir, T, E)
    BY <1>7, <2>4, <2>5 DEF ResolvingWitnesses
  <2> QED BY <2>6
<1>8. D = {} \/ (\E q : D = {q}) \/ Cardinality(D) >= 2
  <2> HIDE DEF D
  <2> SUFFICES ASSUME NEW x \in D, NEW y \in D, x # y
               PROVE  Cardinality(D) >= 2
    OBVIOUS
  <2>1. Cardinality(D) > 1 /\ Cardinality(D) \in Nat
    BY <1>1, AtMostOne, FS_CardinalityType
  <2> QED BY <2>1
<1> QED BY <1>5, <1>6, <1>7, <1>8

\* What settles a case goes on settling it whatever is answered next.
LEMMA SettledStands ==
  ASSUME NEW phi, NEW A, NEW B, A \subseteq B, Settled(phi, A)
  PROVE  Settled(phi, B)
<1>1. Models(Theories[phi], Evidence(B)) \subseteq Models(Theories[phi], Evidence(A))
  BY MoreEvidence
<1> QED BY <1>1, FewerModels DEF Settled

\* Unless ANALYZE asks for an answer, the case it was given is settled ...
LEMMA NotAskingSettles ==
  ASSUME ~SolverMayGiveUp, ConcludingIr, NEW phi \in Phis, NEW A, NEW ver, NEW pv,
         NEW d \in Outcomes(phi, A, ver, pv), d.action # "ACQUIRE"
  PROVE  Settled(phi, A)
<1> SUFFICES ASSUME Models(Theories[phi], Evidence(A)) # {},
                    Resolved(Models(Theories[phi], Evidence(A))) = {}
             PROVE  FALSE
  BY DEF Settled
<1>1. d = ExactDirective(Ir, Theories[phi], A, ver, pv)
  BY DEF Outcomes, AnalyzeOutcomes
<1>2. \/ MyopicDiscriminators(Ir, Theories[phi], Evidence(A)) # {}
      \/ ResolvingWitnesses(Ir, Theories[phi], Evidence(A)) # {}
  BY SomethingToAcquire
<1> QED BY <1>1, <1>2 DEF ExactDirective, Acquire

\* ... and of a settled case ANALYZE has nothing to ask.
LEMMA NothingToAsk ==
  ASSUME NEW phi, NEW A, Settled(phi, A), NEW ver, NEW pv
  PROVE  ExactDirective(Ir, Theories[phi], A, ver, pv).action \in {"STOP", "VERIFY"}
<1>1. CASE Models(Theories[phi], Evidence(A)) = {}
  BY <1>1, NothingResolved DEF ExactDirective, Stop
<1>2. CASE Models(Theories[phi], Evidence(A)) # {} /\ Resolved(Models(Theories[phi], Evidence(A))) # {}
  BY <1>2 DEF ExactDirective, Stop, Verify
<1> QED BY <1>1, <1>2 DEF Settled

\* One answer to a question, each an option of its question, leaves a model when
\* nothing is assumed (as chat starts it), provided the tree has a model at all.
LEMMA AnswersHaveAModel ==
  ASSUME NoPhi \in Phis, NEW A, A \subseteq Assertions, \A a \in A : a.opt \in Ir.options[a.q],
         \A a, b \in A : a.q = b.q => a = b,
         Theories[NoPhi] # {}
  PROVE  Models(Theories[NoPhi], Evidence(A)) # {}
<1>1. PICK m \in Theories[NoPhi] : TRUE
  OBVIOUS
<1>2. m.choice \in Worlds(Ir)
  BY DEF Theories, Theory
<1> DEFINE Said(q) == CHOOSE a \in A : a.q = q
           w == [q \in Ir.questions |->
                   IF \E a \in A : a.q = q THEN Said(q).opt ELSE m.choice[q]]
           n == [choice |-> w, concludes |-> Reached(Ir, w) \cap Ir.conclusions]
<1>3. \A a \in A : Said(a.q) = a
  OBVIOUS
<1>4. \A a \in A : a.q \in Ir.questions /\ w[a.q] = a.opt
  <2> SUFFICES ASSUME NEW a \in A
               PROVE  a.q \in Ir.questions /\ w[a.q] = a.opt
    OBVIOUS
  <2>1. a.q \in Ir.questions
    BY DEF Assertions
  <2> HIDE DEF Said
  <2> QED BY <1>3, <2>1
<1>5. w \in Worlds(Ir)
  <2>1. \A q \in Ir.questions : w[q] \in Ir.options[q]
    <3> SUFFICES ASSUME NEW q \in Ir.questions
                 PROVE  w[q] \in Ir.options[q]
      OBVIOUS
    <3>1. CASE \E a \in A : a.q = q
      <4>1. PICK a \in A : a.q = q
        BY <3>1
      <4> HIDE DEF w
      <4> QED BY <1>4, <4>1
    <3>2. CASE ~ \E a \in A : a.q = q
      BY <1>2, <3>2 DEF Worlds
    <3> QED BY <3>1, <3>2
  <2>2. w = [q \in Ir.questions |-> w[q]]
    OBVIOUS
  <2> HIDE DEF w
  <2>3. w \in [Ir.questions -> UNION {Ir.options[q] : q \in Ir.questions}]
    BY <2>1, <2>2
  <2> QED BY <2>1, <2>3 DEF Worlds
<1> HIDE DEF w, Said
<1>6. n \in Theories[NoPhi]
  BY <1>5 DEF Theories, Theory, NoPhi
<1>7. \A p \in Evidence(A) : n.choice[p[1]] = p[2]
  BY <1>4 DEF Evidence
<1> HIDE DEF n
<1> QED BY <1>6, <1>7 DEF Models

\* So a part of the answers that settles the case comes to the conclusion that all of
\* the answers come to.
LEMMA SettledPartsAgree ==
  ASSUME NoPhi \in Phis, NEW A, A \subseteq Assertions, \A a \in A : a.opt \in Ir.options[a.q],
         \A a, b \in A : a.q = b.q => a = b,
         NEW B, B \subseteq A, Settled(NoPhi, B)
  PROVE  Resolved(Models(Theories[NoPhi], Evidence(B))) = Resolved(Models(Theories[NoPhi], Evidence(A)))
<1>1. Models(Theories[NoPhi], Evidence(A)) \subseteq Models(Theories[NoPhi], Evidence(B))
  BY MoreEvidence
<1>2. CASE Theories[NoPhi] = {}
  BY <1>2 DEF Models
<1>3. CASE Theories[NoPhi] # {}
  <2>1. Models(Theories[NoPhi], Evidence(A)) # {}
    BY <1>3, AnswersHaveAModel
  <2> QED BY <1>1, <2>1, FewerModels DEF Settled
<1> QED BY <1>2, <1>3

\* Answers are added to the case, and what it was started with stays.
Grows(case, adm, case2, adm2) ==
  case # NoRow => case2 # NoRow /\ case2.phi = case.phi /\ adm \subseteq adm2

\* What a report may be drawn from it still may later.
LEMMA ReportableStands ==
  ASSUME NEW case, NEW adm, NEW case2, NEW adm2, Grows(case, adm, case2, adm2)
  PROVE  /\ \A A : Reportable(case, adm, A) => Reportable(case2, adm2, A)
         /\ Reportable(case, adm, adm) => Reportable(case2, adm2, adm2)
BY SettledStands DEF Reportable, Grows

\* A call that waits stays sound.
LEMMA CallStands ==
  ASSUME NEW case, NEW adm, NEW case2, NEW adm2, Grows(case, adm, case2, adm2),
         NEW call, CallIsSound(case, adm, call)
  PROVE  CallIsSound(case2, adm2, call)
BY ReportableStands DEF CallIsSound

\* One call moves to the state `call`; the others and the persisted reports, none new,
\* stay sound as the case grows.
LEMMA OneCallMoves ==
  ASSUME CallsInv, RunsInv, Grows(session, admitted, session', admitted'), runs' = runs,
         NEW p \in Chats, NEW call, CallIsSound(session', admitted', call),
         chat' = [chat EXCEPT ![p] = call]
  PROVE  CallsInv' /\ RunsInv'
<1>1. \A i \in 1..Len(runs) : Reportable(session', admitted', runs[i])
  BY ReportableStands DEF RunsInv
<1>2. \A s \in Chats : CallIsSound(session', admitted', chat[s])
  BY CallStands DEF CallsInv
<1>3. DOMAIN chat' = Chats /\ \A s \in Chats : chat'[s] = IF s = p THEN call ELSE chat[s]
  BY DEF CallsInv
<1>4. \A s \in Chats : CallIsSound(session', admitted', chat'[s])
  BY <1>2, <1>3
<1>5. CallsInv'
  BY <1>3, <1>4 DEF CallsInv
<1> QED BY <1>1, <1>5 DEF RunsInv

\* The same when no call moves: a step of an orchestrator or of a reader.
LEMMA NoCallMoves ==
  ASSUME CallsInv, RunsInv, Grows(session, admitted, session', admitted'), runs' = runs,
         chat' = chat
  PROVE  CallsInv' /\ RunsInv'
<1>1. \A i \in 1..Len(runs) : Reportable(session', admitted', runs[i])
  BY ReportableStands DEF RunsInv
<1>2. \A s \in Chats : CallIsSound(session', admitted', chat[s])
  BY CallStands DEF CallsInv
<1> QED BY <1>1, <1>2 DEF RunsInv, CallsInv

-----------------------------------------------------------------------------
\* A process loads the row, takes the lock, or is done.
LEMMA TablesStand ==
  ASSUME TablesInv, UNCHANGED caseRows, DOMAIN row' = Servers,
         \A p \in Servers : /\ row'[p] \in {row[p], session, NoRow}
                            /\ lock' = p => row'[p] # NoRow
  PROVE  TablesInv' /\ Grows(session, admitted, session', admitted')
<1>1. /\ session' = session /\ admitted' = admitted /\ receipts' = receipts
  BY DEF caseRows
<1>2. \A p \in Servers : row'[p] # NoRow => session' # NoRow /\ row'[p].phi = session'.phi
  BY <1>1 DEF TablesInv
<1>3. Grows(session, admitted, session', admitted')
  BY <1>1 DEF Grows
<1>4. TablesInv'
  BY <1>1, <1>2 DEF TablesInv, OneLiveAnswerPerQuestion
<1> QED BY <1>3, <1>4

\* A transaction that ends (EndCall, RollBack): its row is forgotten, its lock released.
LEMMA EndingKeepsTables ==
  ASSUME TablesInv, UNCHANGED caseRows, NEW p \in Servers,
         row' = [row EXCEPT ![p] = NoRow], lock' = IF lock = p THEN Nobody ELSE lock
  PROVE  TablesInv' /\ Grows(session, admitted, session', admitted')
<1>1. Nobody \notin Servers
  BY ServersAssumption DEF Nobody
<1>2. DOMAIN row' = Servers /\ \A s \in Servers : row'[s] = IF s = p THEN NoRow ELSE row[s]
  BY DEF TablesInv
<1>3. \A s \in Servers : /\ row'[s] \in {row[s], session, NoRow}
                         /\ lock' = s => row'[s] # NoRow
  BY <1>1, <1>2 DEF TablesInv
<1> QED BY <1>2, <1>3, TablesStand

\* The locking SELECT keeps a row that was loaded before, however old.
LEMMA LockingKeepsTables ==
  ASSUME TablesInv, NEW p \in Servers, Lock(p)
  PROVE  TablesInv' /\ Grows(session, admitted, session', admitted')
<1>1. session # NoRow /\ lock' = p /\ UNCHANGED caseRows
      /\ row' = [row EXCEPT ![p] = IF row[p] = NoRow THEN session ELSE row[p]]
  BY DEF Lock
<1>2. DOMAIN row' = Servers
      /\ \A s \in Servers : row'[s] = IF s = p /\ row[s] = NoRow THEN session ELSE row[s]
  BY <1>1 DEF TablesInv
<1>3. \A s \in Servers : /\ row'[s] \in {row[s], session, NoRow}
                         /\ lock' = s => row'[s] # NoRow
  BY <1>1, <1>2
<1> QED BY <1>1, <1>2, <1>3, TablesStand

\* A row a process holds tells what the session was started with.
LEMMA HeldRow ==
  ASSUME TablesInv, NEW p \in Servers, row[p] # NoRow
  PROVE  /\ session # NoRow /\ "phi" \in DOMAIN session
         /\ session.phi \in Phis /\ row[p].phi = session.phi
BY DEF TablesInv

\* A commit computed from a row that may be old: what it was computed with, the
\* assumptions pinned at start, is the session's, and ANALYZE saw the answers as the
\* commit leaves them. So an action other than ACQUIRE tells of a settled case.
LEMMA CommitKeepsTables ==
  ASSUME ~SolverMayGiveUp, ConcludingIr, TablesInv, NEW p \in Servers, NEW c, c.key \in Keys,
         MayMutate(p, c), Close(p), NEW changed,
         NEW d \in Outcomes(row[p].phi, admitted', verified', c.pv), Commit(p, c, changed, d),
         admitted \subseteq admitted', admitted' \subseteq Assertions,
         \A a \in admitted' : a.opt \in Ir.options[a.q],
         OneLiveAnswerPerQuestion'
  PROVE  /\ TablesInv' /\ Grows(session, admitted, session', admitted')
         /\ receipts'[c.key].op = c.payload.op
<1>1. row[p] # NoRow
  BY DEF MayMutate, NoRow
<1>2. /\ session # NoRow /\ "phi" \in DOMAIN session
      /\ session.phi \in Phis /\ row[p].phi = session.phi
  BY <1>1, HeldRow
<1>3. DOMAIN session' = DOMAIN session /\ session'.phi = session.phi
  BY <1>2 DEF Commit
<1>4. session' # NoRow
  BY <1>2, <1>3 DEF NoRow
<1>5. Grows(session, admitted, session', admitted')
  BY <1>3, <1>4 DEF Grows
<1>6. PICK r : r.action = d.action /\ r.op = c.payload.op /\ receipts' = [receipts EXCEPT ![c.key] = r]
  <2> DEFINE r == [op       |-> c.payload.op,
                   payload  |-> c.payload,
                   expected |-> c.expected,
                   revision |-> row[p].revision + (IF changed THEN 1 ELSE 0)
                                  + (IF d.action = "STOP" THEN 1 ELSE 0),
                   action   |-> d.action]
  <2>1. receipts' = [receipts EXCEPT ![c.key] = r]
    BY DEF Commit
  <2>2. r.action = d.action /\ r.op = c.payload.op
    OBVIOUS
  <2> QED BY <2>1, <2>2
<1>7. DOMAIN receipts' = Keys /\ \A k \in Keys : receipts'[k] = IF k = c.key THEN r ELSE receipts[k]
  BY <1>6 DEF TablesInv
<1>8. d.action # "ACQUIRE" => Settled(session.phi, admitted')
  BY <1>2, NotAskingSettles
<1>9. \A k \in Keys : receipts'[k] # NoReceipt /\ receipts'[k].action # "ACQUIRE" =>
        Settled(session'.phi, admitted')
  <2>1. Settled(session.phi, admitted) => Settled(session.phi, admitted')
    BY SettledStands
  <2> QED BY <1>3, <1>6, <1>7, <1>8, <2>1 DEF TablesInv
<1>10. lock' = Nobody /\ Nobody \notin Servers /\ DOMAIN row' = Servers
       /\ \A s \in Servers : row'[s] = IF s = p THEN NoRow ELSE row[s]
  BY ServersAssumption DEF Close, Nobody, TablesInv
<1>11. \A s \in Servers : /\ row'[s] # NoRow => session' # NoRow /\ row'[s].phi = session'.phi
                          /\ lock' = s => row'[s] # NoRow
  BY <1>3, <1>4, <1>10 DEF TablesInv
<1>12. TablesInv'
  BY <1>2, <1>3, <1>4, <1>7, <1>9, <1>10, <1>11 DEF TablesInv
<1> QED BY <1>5, <1>6, <1>7, <1>12

\* admit_to_session adds a legal answer to a question that had none, or nothing.
LEMMA AdmitKeepsTables ==
  ASSUME ~SolverMayGiveUp, ConcludingIr, TablesInv, NEW p \in Servers, NEW c, c.key \in Keys,
         c.payload \in Payloads, AdmitCommit(p, c)
  PROVE  /\ TablesInv' /\ Grows(session, admitted, session', admitted')
         /\ receipts'[c.key].op = "admit"
<1> DEFINE a        == Answer(c.payload)
           answered == a.opt # Abstain
<1>1. /\ lock = p /\ c.payload.op = "admit" /\ MayMutate(p, c) /\ Close(p)
      /\ answered => CanAdmit(Ir, admitted, a)
      /\ admitted' = IF answered THEN admitted \cup {a} ELSE admitted
      /\ verified' = verified
  BY DEF AdmitCommit
<1>2. PICK d \in Outcomes(row[p].phi, admitted', verified', c.pv) : Commit(p, c, answered, d)
  BY DEF AdmitCommit
<1>3. c.payload \in [op : {"admit"}, q : Ir.questions, opt : Options \cup {Abstain},
                     prov : Provenances]
  BY <1>1 DEF Payloads
<1>4. answered => a \in Assertions
  BY <1>1, <1>3 DEF CanAdmit, Answer, Assertions, Options
<1>5. /\ admitted \subseteq Assertions /\ \A b \in admitted : b.opt \in Ir.options[b.q]
      /\ \A b, e \in admitted : b.q = e.q => b = e
  BY DEF TablesInv, OneLiveAnswerPerQuestion
<1>6. answered => a.opt \in Ir.options[a.q] /\ \A b \in admitted : b.q # a.q
  BY <1>1 DEF CanAdmit, AnsweredQuestions
<1> HIDE DEF a, answered
<1>7. /\ admitted \subseteq admitted' /\ admitted' \subseteq Assertions
      /\ \A b \in admitted' : b.opt \in Ir.options[b.q]
      /\ \A b, e \in admitted' : b.q = e.q => b = e
  BY <1>1, <1>4, <1>5, <1>6
<1>8. OneLiveAnswerPerQuestion'
  BY <1>7 DEF OneLiveAnswerPerQuestion
<1> QED BY <1>1, <1>2, <1>7, <1>8, CommitKeepsTables

\* verify_session leaves the answers as they are.
LEMMA VerifyKeepsTables ==
  ASSUME ~SolverMayGiveUp, ConcludingIr, TablesInv, NEW p \in Servers, NEW c, c.key \in Keys,
         VerifyCommit(p, c)
  PROVE  TablesInv' /\ Grows(session, admitted, session', admitted')
<1>1. MayMutate(p, c) /\ Close(p) /\ admitted' = admitted
  BY DEF VerifyCommit
<1>2. PICK d \in Outcomes(row[p].phi, admitted', verified', c.pv) :
             Commit(p, c, c.payload.agree, d)
  BY <1>1 DEF VerifyCommit
<1>3. /\ admitted \subseteq admitted' /\ admitted' \subseteq Assertions
      /\ \A b \in admitted' : b.opt \in Ir.options[b.q]
      /\ OneLiveAnswerPerQuestion'
  BY <1>1 DEF TablesInv, OneLiveAnswerPerQuestion
<1> QED BY <1>1, <1>2, <1>3, CommitKeepsTables

\* abandon_session changes status and revision alone.
LEMMA AbandonKeepsTables ==
  ASSUME TablesInv, NEW p \in Servers, AbandonCommit(p)
  PROVE  TablesInv' /\ Grows(session, admitted, session', admitted')
<1>1. row[p] # NoRow /\ UNCHANGED <<admitted, receipts>> /\ Close(p)
  BY DEF AbandonCommit, TablesInv
<1>2. /\ session # NoRow /\ "phi" \in DOMAIN session
      /\ session.phi \in Phis /\ row[p].phi = session.phi
  BY <1>1, HeldRow
<1>3. DOMAIN session' = DOMAIN session /\ session'.phi = session.phi
  BY <1>2 DEF AbandonCommit
<1>4. session' # NoRow
  BY <1>2, <1>3 DEF NoRow
<1>5. Grows(session, admitted, session', admitted')
  BY <1>1, <1>3, <1>4 DEF Grows
<1>6. lock' = Nobody /\ Nobody \notin Servers /\ DOMAIN row' = Servers
      /\ \A s \in Servers : row'[s] = IF s = p THEN NoRow ELSE row[s]
  BY <1>1, ServersAssumption DEF Close, Nobody, TablesInv
<1>7. \A s \in Servers : /\ row'[s] # NoRow => session' # NoRow /\ row'[s].phi = session'.phi
                         /\ lock' = s => row'[s] # NoRow
  BY <1>3, <1>4, <1>6 DEF TablesInv
<1>8. TablesInv'
  BY <1>1, <1>2, <1>3, <1>4, <1>6, <1>7 DEF TablesInv, OneLiveAnswerPerQuestion
<1> QED BY <1>5, <1>8

\* Before the session exists nobody holds anything.
LEMMA GatherBegins == ChatInit => GatherInv
<1> SUFFICES ASSUME ChatInit
             PROVE  GatherInv
  OBVIOUS
<1>1. /\ session = NoRow /\ admitted = {} /\ receipts = [k \in Keys |-> NoReceipt]
      /\ lock = Nobody /\ row = [p \in Servers |-> NoRow]
      /\ chat = [p \in Chats |-> Idle] /\ runs = <<>>
  BY DEF ChatInit, Init
<1>2. Nobody \notin Servers
  BY ServersAssumption DEF Nobody
<1>3. TablesInv
  BY <1>1, <1>2 DEF TablesInv, OneLiveAnswerPerQuestion
<1>4. CallsInv
  BY <1>1 DEF CallsInv, CallIsSound
<1>5. RunsInv
  BY <1>1 DEF RunsInv
<1> QED BY <1>3, <1>4, <1>5 DEF GatherInv

\* start_inquiry: a session that stops at once has a settled case with no answers.
LEMMA StartKeepsTables ==
  ASSUME ~SolverMayGiveUp, ConcludingIr, TablesInv, Start
  PROVE  /\ TablesInv' /\ Grows(session, admitted, session', admitted')
         /\ session'.status = "STOPPED" => Reportable(session', admitted', admitted')
<1>1. /\ session = NoRow /\ admitted = {} /\ admitted' = {}
      /\ receipts' = receipts /\ lock' = lock /\ row' = row
  BY DEF Start, TablesInv
<1> DEFINE RowOf(phi, pv, d) ==
             [status   |-> IF d.action = "STOP" THEN "STOPPED" ELSE "ACTIVE",
              reason   |-> IF d.action = "STOP" THEN d.reason ELSE NoReason,
              revision |-> IF d.action = "STOP" THEN 2 ELSE 1,
              phi      |-> phi,
              pv       |-> pv]
<1>2. PICK phi \in Phis, pv \in PolicyVersions :
        \E d \in Outcomes(phi, {}, {}, pv) : session' = RowOf(phi, pv, d)
  BY DEF Start
<1>3. PICK d \in Outcomes(phi, {}, {}, pv) : session' = RowOf(phi, pv, d)
  BY <1>2
<1>4. session'.phi = phi /\ "phi" \in DOMAIN session' /\ session' # NoRow
  <2>1. session'.phi = phi /\ DOMAIN session' = {"status", "reason", "revision", "phi", "pv"}
    BY <1>3
  <2>2. DOMAIN NoRow = {"status", "reason", "revision"}
    BY DEF NoRow
  <2> QED BY <2>1, <2>2
<1>5. session'.status = "STOPPED" => Settled(phi, {})
  <2>1. session'.status = "STOPPED" => d.action = "STOP"
    BY <1>3
  <2> QED BY <2>1, NotAskingSettles
<1>6. Grows(session, admitted, session', admitted')
  BY <1>1 DEF Grows
<1>7. (\A p \in Servers : row[p] = NoRow) /\ \A k \in Keys : receipts[k] = NoReceipt
  BY <1>1 DEF TablesInv
<1>8. TablesInv'
  BY <1>1, <1>4, <1>7 DEF TablesInv, OneLiveAnswerPerQuestion
<1>9. session'.status = "STOPPED" => Reportable(session', admitted', admitted')
  BY <1>1, <1>4, <1>5 DEF Reportable
<1> QED BY <1>6, <1>8, <1>9

\* A call that ends, for whatever reason (EndCall).
LEMMA EndCallKeepsGather ==
  ASSUME GatherInv, NEW p \in Chats, EndCall(p), UNCHANGED <<caseRows, runs>>
  PROVE  GatherInv'
<1>1. p \in Servers
  BY ChatsAssumption
<1>2. TablesInv' /\ Grows(session, admitted, session', admitted')
  BY <1>1, EndingKeepsTables DEF EndCall, GatherInv
<1>3. chat' = [chat EXCEPT ![p] = Idle] /\ CallIsSound(session', admitted', Idle)
  BY DEF EndCall, CallIsSound
<1> QED BY <1>2, <1>3, OneCallMoves DEF GatherInv

\* A call goes on to its next statement, within the stages where it carries an answer
\* or within those where it carries the answers of its report.
LEMMA GoingOn ==
  ASSUME CallsInv, RunsInv, Grows(session, admitted, session', admitted'), runs' = runs,
         NEW p \in Chats, NEW where, Goto(p, where),
         \/ /\ chat[p].at \in {"read", "unissued", "new", "locked"}
            /\ where \in AnswerStages
            /\ where = "terminal" => Reportable(session', admitted', admitted')
         \/ chat[p].at \in ReportStages /\ where \in ReportStages
  PROVE  CallsInv' /\ RunsInv'
<1> DEFINE call == [chat[p] EXCEPT !.at = where]
<1>1. chat' = [chat EXCEPT ![p] = call]
  BY DEF Goto
<1>2. CallIsSound(session, admitted, chat[p])
  BY DEF CallsInv
<1>3. CallIsSound(session', admitted', call)
  <2>1. CASE chat[p].at \in {"read", "unissued", "new", "locked"}
    <3>1. chat[p] \in [at : AnswerStages, payload : ChatAnswers \cup {NoAnswer}]
          /\ chat[p].payload \in ChatAnswers
      BY <1>2, <2>1 DEF CallIsSound, Idle, ReportStages
    <3>2. where \in AnswerStages /\ (where = "terminal" => Reportable(session', admitted', admitted'))
      BY <2>1 DEF ReportStages
    <3>3. call \in [at : AnswerStages, payload : ChatAnswers \cup {NoAnswer}]
          /\ call.at = where /\ call.payload \in ChatAnswers
      BY <3>1, <3>2
    <3> HIDE DEF call
    <3> QED BY <3>2, <3>3 DEF CallIsSound
  <2>2. CASE chat[p].at \in ReportStages
    <3>1. DOMAIN chat[p] = {"at", "payload", "envelope"} /\ Reportable(session, admitted, chat[p].envelope)
      BY <1>2, <2>2 DEF CallIsSound, Idle, ReportStages, AnswerStages
    <3>2. where \in ReportStages
      BY <2>2 DEF ReportStages
    <3>3. DOMAIN call = {"at", "payload", "envelope"} /\ call.at = where
          /\ call.envelope = chat[p].envelope
      BY <3>1
    <3>4. Reportable(session', admitted', chat[p].envelope)
      BY <3>1, ReportableStands
    <3> HIDE DEF call
    <3> QED BY <3>2, <3>3, <3>4 DEF CallIsSound
  <2> QED BY <2>1, <2>2
<1> HIDE DEF call
<1> QED BY <1>1, <1>3, OneCallMoves

\* Statements that write neither a table nor an identity map.
LEMMA NothingWritten ==
  ASSUME TablesInv, UNCHANGED <<caseRows, lock, row>>
  PROVE  TablesInv' /\ Grows(session, admitted, session', admitted')
BY TablesStand DEF TablesInv

\* A call carries the answer of its client until it may report.
LEMMA CarriesAnAnswer ==
  ASSUME CallsInv, NEW p \in Chats, At(p, "locked")
  PROVE  /\ chat[p].payload \in ChatAnswers /\ chat[p].payload \in Payloads
         /\ KeyOf(chat[p].payload) \in Keys
<1>1. chat[p].payload \in ChatAnswers
  BY DEF CallsInv, CallIsSound, At, Idle, ReportStages
<1>2. KeyOf(chat[p].payload) \in Keys
  BY <1>1, ChatKeyAssumption DEF KeyOf
<1> QED BY <1>1, <1>2, ChatAnswersAssumption

\* The admit of a chat call (ChatAdmit), on a row that may be behind: the call goes on
\* to report only if the receipt just stored says that nothing is left to ask.
LEMMA ChatAdmitKeepsGather ==
  ASSUME ~SolverMayGiveUp, ConcludingIr, GatherInv, NEW p \in Chats, ChatAdmit(p)
  PROVE  GatherInv'
<1> DEFINE key == KeyOf(chat[p].payload)
<1>1. At(p, "locked") /\ runs' = runs
  BY DEF ChatAdmit
<1>2. p \in Servers /\ chat[p].payload \in Payloads /\ key \in Keys
  BY <1>1, ChatsAssumption, CarriesAnAnswer DEF GatherInv
<1>3. PICK pv \in PolicyVersions :
        AdmitCommit(p, [payload |-> chat[p].payload, key |-> key,
                        expected |-> row[p].revision, pv |-> pv])
  BY DEF ChatAdmit
<1>4. /\ TablesInv' /\ Grows(session, admitted, session', admitted')
      /\ receipts'[key].op = "admit"
  <2> DEFINE c == [payload |-> chat[p].payload, key |-> key,
                   expected |-> row[p].revision, pv |-> pv]
  <2>1. c.key = key /\ c.payload = chat[p].payload /\ AdmitCommit(p, c)
    BY <1>3
  <2> HIDE DEF c, key
  <2> QED BY <1>2, <2>1, AdmitKeepsTables DEF GatherInv
<1>5. receipts'[key] # NoReceipt
  BY <1>4 DEF NoReceipt
<1>6. CASE receipts'[key].action = "ACQUIRE"
  <2>1. chat' = [chat EXCEPT ![p] = Idle]
    BY <1>6 DEF ChatAdmit
  <2>2. CallIsSound(session', admitted', Idle)
    BY DEF CallIsSound
  <2> QED BY <1>1, <1>4, <2>1, <2>2, OneCallMoves DEF GatherInv
<1>7. CASE receipts'[key].action # "ACQUIRE"
  <2>1. Goto(p, "terminal")
    BY <1>7 DEF ChatAdmit
  <2>2. Reportable(session', admitted', admitted')
    <3>1. session' # NoRow /\ Settled(session'.phi, admitted')
      BY <1>2, <1>4, <1>5, <1>7 DEF TablesInv
    <3> QED BY <3>1 DEF Reportable
  <2> QED BY <1>1, <1>4, <2>1, <2>2, GoingOn DEF GatherInv, At, AnswerStages
<1> QED BY <1>6, <1>7

\* The receipt found under the lock (ReplayUnderLock), if it does not ask for another
\* answer, tells of a settled case.
LEMMA ReplayKeepsGather ==
  ASSUME GatherInv, NEW p \in Chats, ReplayUnderLock(p)
  PROVE  GatherInv'
<1> DEFINE receipt == receipts[KeyOf(chat[p].payload)]
<1>1. At(p, "locked") /\ UNCHANGED <<caseRows, runs>> /\ receipt # NoReceipt
  BY DEF ReplayUnderLock
<1>2. KeyOf(chat[p].payload) \in Keys
  BY <1>1, CarriesAnAnswer DEF GatherInv
<1>3. \/ EndCall(p)
      \/ receipt.action # "ACQUIRE" /\ Goto(p, "terminal") /\ UNCHANGED <<row, lock>>
  BY DEF ReplayUnderLock
<1>4. ASSUME receipt.action # "ACQUIRE", Goto(p, "terminal"), UNCHANGED <<row, lock>>
      PROVE  GatherInv'
  <2>1. TablesInv' /\ Grows(session, admitted, session', admitted')
    BY <1>1, <1>4, NothingWritten DEF GatherInv
  <2>2. session # NoRow /\ Settled(session.phi, admitted)
    BY <1>1, <1>2, <1>4 DEF GatherInv, TablesInv
  <2>3. Reportable(session', admitted', admitted')
    BY <1>1, <2>2 DEF Reportable, caseRows
  <2> QED BY <1>1, <1>4, <2>1, <2>3, GoingOn DEF GatherInv, At, AnswerStages
<1> QED BY <1>1, <1>3, <1>4, EndCallKeepsGather

\* The lookups: each either ends the call or lets it go on (CheckIssued,
\* LookupReceipt, CheckRecorded).
LEMMA ReadingKeepsGather ==
  ASSUME GatherInv, NEW p \in Chats,
         CheckIssued(p) \/ LookupReceipt(p) \/ CheckRecorded(p)
  PROVE  GatherInv'
<1>1. UNCHANGED <<caseRows, runs>>
  BY DEF CheckIssued, LookupReceipt, CheckRecorded
<1>2. ASSUME NEW where, Goto(p, where), UNCHANGED <<row, lock>>,
             \/ At(p, "read") /\ where = "unissued"
             \/ At(p, "unissued") /\ where = "new"
             \/ At(p, "applied") /\ where = "record"
      PROVE  GatherInv'
  <2>1. TablesInv' /\ Grows(session, admitted, session', admitted')
    BY <1>1, <1>2, NothingWritten DEF GatherInv
  <2> QED BY <1>1, <1>2, <2>1, GoingOn DEF GatherInv, At, AnswerStages, ReportStages
<1>3. CASE EndCall(p)
  BY <1>1, <1>3, EndCallKeepsGather
<1> QED BY <1>2, <1>3 DEF CheckIssued, LookupReceipt, CheckRecorded

\* admitted_apply_envelope_for_session: the answers as they are now, by when others may
\* have added to them, settle the case as those did that ended the gather.
LEMMA ReadEnvelopeKeepsGather ==
  ASSUME GatherInv, NEW p \in Chats, ReadEnvelope(p)
  PROVE  GatherInv'
<1> DEFINE call == [at |-> "apply", payload |-> chat[p].payload, envelope |-> admitted]
<1>1. /\ At(p, "terminal") /\ UNCHANGED <<caseRows, lock, row, runs>>
      /\ chat' = [chat EXCEPT ![p] = call]
  BY DEF ReadEnvelope, vars, caseRows
<1>2. TablesInv' /\ Grows(session, admitted, session', admitted')
  BY <1>1, NothingWritten DEF GatherInv
<1>3. Reportable(session, admitted, admitted)
  BY <1>1 DEF GatherInv, CallsInv, CallIsSound, At, Idle, ReportStages
<1>4. Reportable(session', admitted', admitted)
  BY <1>2, <1>3, ReportableStands
<1>5. CallIsSound(session', admitted', call)
  <2>1. DOMAIN call = {"at", "payload", "envelope"} /\ call.at = "apply" /\ call.envelope = admitted
    OBVIOUS
  <2> HIDE DEF call
  <2> QED BY <1>4, <2>1 DEF CallIsSound, ReportStages
<1> HIDE DEF call
<1> QED BY <1>1, <1>2, <1>5, OneCallMoves DEF GatherInv

\* Apply persists its report on the answers read.
LEMMA PersistRunKeepsGather ==
  ASSUME GatherInv, NEW p \in Chats, PersistRun(p)
  PROVE  GatherInv'
<1>1. /\ At(p, "apply") /\ UNCHANGED <<caseRows, lock, row>>
      /\ runs' = Append(runs, chat[p].envelope) /\ Goto(p, "applied")
  BY DEF PersistRun, vars, caseRows
<1>2. TablesInv' /\ Grows(session, admitted, session', admitted')
  BY <1>1, NothingWritten DEF GatherInv
<1>3. DOMAIN chat[p] = {"at", "payload", "envelope"} /\ Reportable(session, admitted, chat[p].envelope)
  BY <1>1 DEF GatherInv, CallsInv, CallIsSound, At, Idle, AnswerStages
<1> DEFINE call == [chat[p] EXCEPT !.at = "applied"]
           envelope == chat[p].envelope
<1>4. CallIsSound(session', admitted', call)
  <2>1. DOMAIN call = {"at", "payload", "envelope"} /\ call.at = "applied" /\ call.envelope = chat[p].envelope
    BY <1>3
  <2>2. Reportable(session', admitted', chat[p].envelope)
    BY <1>2, <1>3, ReportableStands
  <2> HIDE DEF call
  <2> QED BY <2>1, <2>2 DEF CallIsSound, ReportStages
<1>5. CallsInv'
  <2>1. chat' = [chat EXCEPT ![p] = call]
    BY <1>1 DEF Goto
  <2> HIDE DEF call
  <2>2. DOMAIN chat' = Chats /\ \A s \in Chats : chat'[s] = IF s = p THEN call ELSE chat[s]
    BY <2>1 DEF GatherInv, CallsInv
  <2>3. \A s \in Chats : CallIsSound(session', admitted', chat[s])
    BY <1>2, CallStands DEF GatherInv, CallsInv
  <2> QED BY <1>4, <2>2, <2>3 DEF CallsInv
<1>6. RunsInv'
  <2>1. envelope \in SUBSET Assertions
    BY <1>3 DEF Reportable, GatherInv, TablesInv
  <2>2. \A i \in 1..Len(runs) : Reportable(session', admitted', runs[i])
    BY <1>2, ReportableStands DEF GatherInv, RunsInv
  <2>3. Reportable(session', admitted', envelope)
    BY <1>2, <1>3, ReportableStands
  <2>4. runs \in Seq(SUBSET Assertions) /\ runs' = Append(runs, envelope)
    BY <1>1 DEF GatherInv, RunsInv
  <2> HIDE DEF envelope
  <2>5. runs' \in Seq(SUBSET Assertions) /\ Len(runs') = Len(runs) + 1
        /\ \A i \in 1..Len(runs') : runs'[i] = IF i = Len(runs) + 1 THEN envelope ELSE runs[i]
    BY <2>1, <2>4
  <2>6. \A i \in 1..Len(runs') : i = Len(runs) + 1 \/ i \in 1..Len(runs)
    BY <2>4, <2>5
  <2> QED BY <2>2, <2>3, <2>5, <2>6 DEF RunsInv
<1> QED BY <1>2, <1>5, <1>6 DEF GatherInv

\* A call begins: chat_evaluate_start, which reports at once on a session that stopped as
\* it started, or chat_evaluate_continue, which loads the row without a lock.
LEMMA BeginningKeepsGather ==
  ASSUME ~SolverMayGiveUp, ConcludingIr, GatherInv, NEW p \in Chats, ChatStart(p) \/ Continue(p)
  PROVE  GatherInv'
<1>1. p \in Servers
  BY ChatsAssumption
<1>2. CASE ChatStart(p)
  <2> DEFINE call == IF session'.status = "STOPPED"
                     THEN [at |-> "terminal", payload |-> NoAnswer] ELSE Idle
  <2>1. Start /\ chat' = [chat EXCEPT ![p] = call] /\ runs' = runs
    BY <1>2 DEF ChatStart
  <2>2. /\ TablesInv' /\ Grows(session, admitted, session', admitted')
        /\ session'.status = "STOPPED" => Reportable(session', admitted', admitted')
    BY <2>1, StartKeepsTables DEF GatherInv
  <2>3. CallIsSound(session', admitted', call)
    BY <2>2 DEF CallIsSound, AnswerStages
  <2> HIDE DEF call
  <2> QED BY <2>1, <2>2, <2>3, OneCallMoves DEF GatherInv
<1>3. CASE Continue(p)
  <2>1. PICK x \in ChatAnswers : chat' = [chat EXCEPT ![p] = [at |-> "read", payload |-> x]]
    BY <1>3 DEF Continue
  <2>2. session # NoRow /\ UNCHANGED <<caseRows, lock, runs>> /\ row' = [row EXCEPT ![p] = session]
    BY <1>3 DEF Continue
  <2>3. DOMAIN row' = Servers /\ \A s \in Servers : row'[s] = IF s = p THEN session ELSE row[s]
    BY <2>2 DEF GatherInv, TablesInv
  <2>4. \A s \in Servers : /\ row'[s] \in {row[s], session, NoRow}
                           /\ lock' = s => row'[s] # NoRow
    BY <2>2, <2>3 DEF GatherInv, TablesInv
  <2>5. TablesInv' /\ Grows(session, admitted, session', admitted')
    BY <2>2, <2>3, <2>4, TablesStand DEF GatherInv
  <2>6. CallIsSound(session', admitted', [at |-> "read", payload |-> x])
    BY DEF CallIsSound, AnswerStages
  <2> QED BY <2>1, <2>2, <2>5, <2>6, OneCallMoves DEF GatherInv
<1> QED BY <1>2, <1>3

\* Every step of a chat call.
LEMMA ChatKeepsGather ==
  ASSUME ~SolverMayGiveUp, ConcludingIr, GatherInv, NEW p \in Chats,
         \/ ChatStart(p) \/ Continue(p) \/ ChatStep(p)
         \/ ChatLock(p) \/ RecordIssued(p) \/ Crash(p)
  PROVE  GatherInv'
<1>1. CASE ChatStart(p) \/ Continue(p)
  BY <1>1, BeginningKeepsGather
<1>2. CASE CheckIssued(p) \/ LookupReceipt(p) \/ CheckRecorded(p)
  BY <1>2, ReadingKeepsGather
<1>3. CASE ChatAdmit(p)
  BY <1>3, ChatAdmitKeepsGather
<1>4. CASE ReplayUnderLock(p)
  BY <1>4, ReplayKeepsGather
<1>5. CASE ReadEnvelope(p)
  BY <1>5, ReadEnvelopeKeepsGather
<1>6. CASE PersistRun(p)
  BY <1>6, PersistRunKeepsGather
<1>7. CASE ChatLock(p)
  <2>1. Lock(p) /\ Goto(p, "locked") /\ At(p, "new") /\ runs' = runs /\ p \in Servers
    BY <1>7, ChatsAssumption DEF ChatLock
  <2>2. TablesInv' /\ Grows(session, admitted, session', admitted')
    BY <2>1, LockingKeepsTables DEF GatherInv
  <2> QED BY <2>1, <2>2, GoingOn DEF GatherInv, At, AnswerStages
<1>8. CASE Refuse(p) \/ RecordIssued(p) \/ Crash(p)
  <2>1. EndCall(p) /\ UNCHANGED <<caseRows, runs>>
    BY <1>8 DEF Refuse, RecordIssued, Crash
  <2> QED BY <2>1, EndCallKeepsGather
<1> QED BY <1>1, <1>2, <1>3, <1>4, <1>5, <1>6, <1>7, <1>8 DEF ChatStep

\* Every step of a process that serves orchestrators.
LEMMA MutateKeepsGather ==
  ASSUME ~SolverMayGiveUp, ConcludingIr, GatherInv, NEW p \in Servers, Mutate(p),
         UNCHANGED chatVars
  PROVE  GatherInv'
<1>1. chat' = chat /\ runs' = runs
  BY DEF chatVars
<1>2. TablesInv' /\ Grows(session, admitted, session', admitted')
  <2>1. CASE Lock(p)
    BY <2>1, LockingKeepsTables DEF GatherInv
  <2>2. ASSUME NEW c \in Mutations(ClientKeys), AdmitCommit(p, c) \/ VerifyCommit(p, c)
        PROVE  TablesInv' /\ Grows(session, admitted, session', admitted')
    <3>1. c.key \in Keys /\ c.payload \in Payloads
      BY KeysAssumption DEF Mutations
    <3> QED BY <2>2, <3>1, AdmitKeepsTables, VerifyKeepsTables DEF GatherInv
  <2>3. CASE AbandonCommit(p)
    BY <2>3, AbandonKeepsTables DEF GatherInv
  <2>4. CASE RollBack(p)
    BY <2>4, EndingKeepsTables DEF GatherInv, RollBack, Close
  <2> QED BY <2>1, <2>2, <2>3, <2>4 DEF Mutate
<1> QED BY <1>1, <1>2, NoCallMoves DEF GatherInv

\* Every step of the gather.
LEMMA StepKeepsGather ==
  ASSUME ~SolverMayGiveUp, ConcludingIr, GatherInv, [ChatNext]_allVars
  PROVE  GatherInv'
<1>1. ASSUME NEW p \in Chats,
             \/ ChatStart(p) \/ Continue(p) \/ ChatStep(p)
             \/ ChatLock(p) \/ RecordIssued(p) \/ Crash(p)
      PROVE  GatherInv'
  BY <1>1, ChatKeepsGather
<1>2. CASE Start /\ UNCHANGED chatVars
  <2>1. TablesInv' /\ Grows(session, admitted, session', admitted')
    BY <1>2, StartKeepsTables DEF GatherInv
  <2> QED BY <1>2, <2>1, NoCallMoves DEF GatherInv, chatVars
<1>3. ASSUME NEW p \in Servers \ Chats, Mutate(p), UNCHANGED chatVars
      PROVE  GatherInv'
  BY <1>3, MutateKeepsGather
<1>4. ASSUME UNCHANGED <<caseRows, lock, row>>, chat' = chat, runs' = runs
      PROVE  GatherInv'
  <2>1. TablesInv' /\ Grows(session, admitted, session', admitted')
    BY <1>4, NothingWritten DEF GatherInv
  <2> QED BY <1>4, <2>1, NoCallMoves DEF GatherInv
<1>5. ASSUME NEW r \in Readers, Read(r), UNCHANGED chatVars
      PROVE  GatherInv'
  <2>1. UNCHANGED <<caseRows, lock, row>>
    BY <1>5 DEF Read, ReadRow, ReadAdmitted, ReadVerifiedAndAnswer, EndRead
  <2> QED BY <1>4, <1>5, <2>1 DEF chatVars
<1>6. CASE UNCHANGED allVars
  BY <1>4, <1>6 DEF allVars, vars, chatVars, caseRows
<1> QED BY <1>1, <1>2, <1>3, <1>5, <1>6 DEF ChatNext

\* So the invariant holds of the gather, when ANALYZE does not give up.
LEMMA GatherInvariant ==
  ASSUME ~SolverMayGiveUp, ConcludingIr
  PROVE  ChatSpec => []GatherInv
<1>1. ChatInit => GatherInv
  BY GatherBegins
<1>2. GatherInv /\ [ChatNext]_allVars => GatherInv'
  BY StepKeepsGather
<1> QED BY <1>1, <1>2, PTL DEF ChatSpec

\* A report is drawn from answers that leave ANALYZE nothing to acquire, although they
\* are read after the admit's commit and without the lock.
THEOREM ReportsAreOfFinishedCases ==
  ConcludingIr => (ChatSpec => []ReportsFinishedCases)
<1> SUFFICES ASSUME ConcludingIr
             PROVE  ChatSpec => []ReportsFinishedCases
  OBVIOUS
<1>1. CASE SolverMayGiveUp
  <2>1. ReportsFinishedCases
    BY <1>1 DEF ReportsFinishedCases
  <2> QED BY <2>1, PTL
<1>2. CASE ~SolverMayGiveUp
  <2>1. GatherInv => ReportsFinishedCases
    BY NothingToAsk DEF GatherInv, RunsInv, Reportable, ReportsFinishedCases
  <2>2. ChatSpec => []GatherInv
    BY <1>2, GatherInvariant
  <2> QED BY <2>1, <2>2, PTL
<1> QED BY <1>1, <1>2

\* However many reports racing calls persist for a session that chat started, from
\* whatever answers each has read, they come to one conclusion.
THEOREM ReportsComeToOneConclusion ==
  ConcludingIr => (ChatSpec => []ReportsAgree)
<1> SUFFICES ASSUME ConcludingIr
             PROVE  ChatSpec => []ReportsAgree
  OBVIOUS
<1>1. CASE SolverMayGiveUp
  <2>1. ReportsAgree
    BY <1>1 DEF ReportsAgree
  <2> QED BY <2>1, PTL
<1>2. CASE ~SolverMayGiveUp
  <2>1. GatherInv => ReportsAgree
    <3> SUFFICES ASSUME GatherInv, session # NoRow, session.phi = NoPhi,
                        NEW i \in 1..Len(runs)
                 PROVE  Conclusion(runs[i])
                          = Resolved(Models(Theories[NoPhi], Evidence(admitted)))
      BY DEF ReportsAgree
    <3>1. NoPhi \in Phis /\ admitted \subseteq Assertions
          /\ (\A a \in admitted : a.opt \in Ir.options[a.q])
          /\ \A a, b \in admitted : a.q = b.q => a = b
      BY DEF GatherInv, TablesInv, OneLiveAnswerPerQuestion
    <3>2. runs[i] \subseteq admitted /\ Settled(NoPhi, runs[i])
      BY DEF GatherInv, RunsInv, Reportable
    <3> QED BY <3>1, <3>2, SettledPartsAgree DEF Conclusion
  <2>2. ChatSpec => []GatherInv
    BY <1>2, GatherInvariant
  <2> QED BY <2>1, <2>2, PTL
<1> QED BY <1>1, <1>2
=============================================================================
