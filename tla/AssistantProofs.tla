-------------------------- MODULE AssistantProofs --------------------------
(***************************************************************************)
(* What an assistant's person can rely on, for every number of overlapping *)
(* calls and requests, every allowance and any number of trees.            *)
(*                                                                         *)
(* The calls: at each stage it is known of a call what it has seen and what*)
(* the meter says of it. A tree that is not usable for the plan as it was  *)
(* read can become usable only by a step after which it is usable for the  *)
(* plan as it is: so an open gate means there was an open moment.          *)
(*                                                                         *)
(* The plan: what has not come in beside the count is counted; only the    *)
(* holder of the slot adds to it, and while the plan stands the room it    *)
(* found is still there (Fits). A plan that ends or a choice counts anew.  *)
(***************************************************************************)
EXTENDS AssistantCall, PlanLifecycle, FiniteSetTheorems, TLAPS

(* The calls. What the variables hold.                                     *)

Holders == [there : BOOLEAN, pro : BOOLEAN, limbo : BOOLEAN, pin : {"none", "this", "other"}]
Trees == [there : BOOLEAN, listed : BOOLEAN, dormant : BOOLEAN, graph : Graphs,
          theory : Graphs \cup {Unbuilt}]
Reads == [graph : Graphs \cup {Unbuilt}, theory : Graphs \cup {Unbuilt}]

\* Stages of a call before its row can be in the meter, and all of them.
Before == {"unmade", "calling", "provisioning", "known", "open", "passed", "locked"}
Invocations ==
  [at : Before \cup {"working", "storing", "flushing", "done"}, tool : AllTools,
   user : Holders, read : Reads, outcome : Failed \cup {"none", "ok"}]

CallTypeOK ==
  /\ holder \in Holders /\ tree \in Trees
  /\ invoked \in [Calls -> Invocations]
  /\ meter \in [DOMAIN meter -> Nat]
  /\ seen \in [Calls -> [open : BOOLEAN, current : SUBSET Graphs]]

\* Only a choice lets a tree sleep: not while the plan is paid for or the choice
\* is due.
AwakeUnlessChosen ==
  /\ holder.pro => ~holder.limbo
  /\ holder.pro \/ holder.limbo => ~tree.dormant

OutcomesComeLast ==
  \A c \in Calls : invoked[c].at \in {"flushing", "done"} <=> invoked[c].outcome # "none"

WasOpen(c) ==
  invoked[c].tool.gated =>
    /\ IsAt(c, "known") /\ Usable(invoked[c].user, tree) => seen[c].open
    /\ invoked[c].at \in {"open", "passed", "locked", "working", "storing"} \/ Answered(c)
         => seen[c].open

WasCurrent(c) ==
  /\ IsAt(c, "open") /\ invoked[c].read.theory # Unbuilt /\ invoked[c].read.theory = invoked[c].read.graph
       => invoked[c].read.theory \in seen[c].current
  /\ invoked[c].tool.inSync /\ (invoked[c].at \in {"passed", "locked", "working", "storing"} \/ Answered(c))
       => invoked[c].read.theory \in seen[c].current

Charged(c) == Weighs(c) > 0 => c \in DOMAIN meter /\ meter[c] = Weighs(c)

Metered(c) ==
  /\ invoked[c].at \in Before => c \notin DOMAIN meter
  /\ invoked[c].at \in {"working", "storing"} \/ invoked[c].outcome \in {"ok", "error"} => Charged(c)
  /\ IsAt(c, "flushing") /\ invoked[c].outcome = "refused" => c \notin DOMAIN meter
  /\ invoked[c].outcome = "refused" /\ c \in DOMAIN meter => meter[c] = 0
  /\ c \in stored => invoked[c].outcome = "ok"

CallInv ==
  /\ CallTypeOK /\ AwakeUnlessChosen /\ OutcomesComeLast
  /\ \A c \in Calls : WasOpen(c) /\ WasCurrent(c) /\ Metered(c)
-----------------------------------------------------------------------------
\* What the tools weigh, and that only a tree that is opened is compared.
LEMMA ToolsAreTyped ==
  ASSUME NEW t \in AllTools
  PROVE  t.halves \in Nat /\ (t.inSync => t.gated)
<1>1. \E gated, stores, noted \in BOOLEAN, n \in {0, 2, 4, 5} :
         \/ t = Tool(gated, FALSE, n, stores, noted) \/ t = Tool(TRUE, TRUE, n, stores, noted)
  BY DEF AllTools, ListTrees, TemplateCheck, TemplateGet, ListConclusions, ValidateAnswers,
       EvaluateAnswers, WhatIf, HowToReach, DecisiveSupports, EditAffectsPath, InquireStart,
       InquireAdmit, InquireVerify, InquireNext
<1> QED BY <1>1 DEF Tool

\* Records of calls, as the actions write them.
LEMMA InvocationsAreTyped ==
  /\ Stranger \in Holders /\ Nothing \in Reads
  /\ \A t \in AllTools : /\ Invoked("calling", t, Stranger, Nothing, "none") \in Invocations
                         /\ Invoked("done", t, Stranger, Nothing, "lost") \in Invocations
                         /\ Invoked("unmade", t, Stranger, Nothing, "none") \in Invocations
BY DEF Stranger, Nothing, Holders, Reads, Invoked, Invocations, Failed, Before

\* Records of calls stay records when an action changes them.
LEMMA ChangesAreTyped ==
  ASSUME NEW x \in Invocations
  PROVE  /\ \A at \in Before \cup {"working", "storing", "flushing", "done"} :
              [x EXCEPT !.at = at] \in Invocations
         /\ \A at \in Before, u \in Holders : [x EXCEPT !.at = at, !.user = u] \in Invocations
         /\ \A at \in Before, r \in Reads : [x EXCEPT !.at = at, !.read = r] \in Invocations
         /\ \A o \in Failed \cup {"ok"}, u \in Holders, r \in Reads :
              [x EXCEPT !.at = "flushing", !.outcome = o, !.user = u, !.read = r] \in Invocations
BY DEF Invocations

\* One call turns into another record, the others stay.
LEMMA Becoming ==
  ASSUME CallTypeOK, NEW c \in Calls, NEW i \in Invocations, Become(c, i)
  PROVE  /\ invoked' \in [Calls -> Invocations] /\ invoked'[c] = i
         /\ \A d \in Calls \ {c} : invoked'[d] = invoked[d]
BY DEF CallTypeOK, Become

\* What has been seen is of its kind.
LEMMA SeenIsTyped ==
  ASSUME CallTypeOK, holder' \in Holders, tree' \in Trees, invoked' \in [Calls -> Invocations], Witness
  PROVE  seen' \in [Calls -> [open : BOOLEAN, current : SUBSET Graphs]]
<1> DEFINE Kind == [open : BOOLEAN, current : SUBSET Graphs]
           all(c) == [open    |-> seen[c].open \/ Usable(holder, tree)' \/ Usable(holder, tree),
                      current |-> seen[c].current \cup
                                   {t.theory : t \in {x \in {tree, tree'} : InSync(x)}}]
<1>1. Unseen \in Kind
  BY DEF Unseen
<1>2. \A t \in Trees : InSync(t) => t.theory \in Graphs
  BY DEF InSync, Trees
<1>3. ASSUME NEW c \in Calls
      PROVE  seen[c] \in Kind /\ all(c) \in Kind
  <2>1. seen[c] \in Kind
    BY <1>3 DEF CallTypeOK
  <2>2. {t.theory : t \in {x \in {tree, tree'} : InSync(x)}} \in SUBSET Graphs
    BY <1>2 DEF CallTypeOK
  <2>3. (seen[c].open \/ Usable(holder, tree)' \/ Usable(holder, tree)) \in BOOLEAN
    OBVIOUS
  <2> QED BY <2>1, <2>2, <2>3
<1>4. ASSUME NEW c \in Calls
      PROVE  seen'[c] \in Kind
  <2>1. \/ seen'[c] = Unseen \/ seen'[c] = seen[c] \/ seen'[c] = all(c)
    BY <1>4 DEF Witness
  <2> QED BY <1>1, <1>3, <1>4, <2>1
<1>5. seen' = [c \in Calls |-> seen'[c]]
  BY DEF Witness
<1> QED BY <1>4, <1>5

\* A call that has not failed forgets nothing, and while it is under way it sees
\* what is true before the step and after it.
LEMMA Witnessing ==
  ASSUME CallTypeOK, CallTypeOK', OutcomesComeLast, Witness, NEW c \in Calls,
         invoked'[c].outcome \notin Failed
  PROVE  /\ seen[c].open => seen'[c].open
         /\ seen[c].current \subseteq seen'[c].current
         /\ UnderWay(c) /\ invoked[c].outcome = "none" =>
              /\ Usable(holder, tree) \/ Usable(holder, tree)' => seen'[c].open
              /\ InSync(tree) => tree.theory \in seen'[c].current
              /\ InSync(tree') => tree'.theory \in seen'[c].current
<1> DEFINE all == [open    |-> seen[c].open \/ Usable(holder, tree)' \/ Usable(holder, tree),
                   current |-> seen[c].current \cup
                                {t.theory : t \in {x \in {tree, tree'} : InSync(x)}}]
<1>1. seen'[c] = IF Answered(c) \/ ~(UnderWay(c) \/ UnderWay(c)') THEN seen[c] ELSE all
  BY DEF Witness
<1>2. UnderWay(c) /\ invoked[c].outcome = "none" => ~Answered(c)
  BY DEF Answered
<1>3. /\ all.open = (seen[c].open \/ Usable(holder, tree)' \/ Usable(holder, tree))
      /\ seen[c].current \subseteq all.current
      /\ InSync(tree) => tree.theory \in all.current
      /\ InSync(tree') => tree'.theory \in all.current
  OBVIOUS
<1> HIDE DEF all
<1>4. CASE Answered(c) \/ ~(UnderWay(c) \/ UnderWay(c)')
  BY <1>1, <1>2, <1>4
<1>5. CASE ~(Answered(c) \/ ~(UnderWay(c) \/ UnderWay(c)'))
  <2>1. seen'[c] = all
    BY <1>1, <1>5
  <2> QED BY <1>3, <2>1
<1> QED BY <1>4, <1>5

\* A call that does not move, nor its tree, nor its row of the meter, keeps what
\* holds of it.
LEMMA OthersStand ==
  ASSUME CallTypeOK, CallTypeOK', OutcomesComeLast, Witness, NEW c \in Calls,
         WasOpen(c), WasCurrent(c), Metered(c),
         invoked'[c] = invoked[c], tree' = tree,
         (c \in DOMAIN meter') <=> (c \in DOMAIN meter),
         c \in DOMAIN meter => meter'[c] = meter[c],
         (c \in stored') <=> (c \in stored)
  PROVE  WasOpen(c)' /\ WasCurrent(c)' /\ Metered(c)'
<1>1. Metered(c)'
  BY DEF Metered, Charged, Weighs, IsAt
<1>2. CASE invoked[c].outcome \in Failed
  <2>1. invoked[c].at \in {"flushing", "done"} /\ ~Answered(c)
    BY <1>2 DEF OutcomesComeLast, Failed, Answered
  <2> QED BY <1>1, <2>1 DEF WasOpen, WasCurrent, IsAt, Answered
<1>3. CASE invoked[c].outcome \notin Failed
  <2>1. (seen[c].open => seen'[c].open) /\ seen[c].current \subseteq seen'[c].current
    BY <1>3, Witnessing
  <2> QED BY <1>1, <2>1 DEF WasOpen, WasCurrent, IsAt, Answered
<1> QED BY <1>2, <1>3

\* A call takes a step: what is left to show is what holds of itself.
LEMMA CallSteps ==
  ASSUME CallInv, NEW c \in Calls, NEW i \in Invocations, Become(c, i),
         tree' = tree, holder' \in Holders,
         holder'.pro = holder.pro, holder'.limbo = holder.limbo,
         meter' = meter \/ \E h \in Nat : meter' = WithRow(c, h),
         stored' \in {stored, stored \cup {c}}, Witness,
         i.at \in {"flushing", "done"} <=> i.outcome # "none",
         CallTypeOK' => WasOpen(c)' /\ WasCurrent(c)' /\ Metered(c)'
  PROVE  CallInv'
<1>1. /\ invoked' \in [Calls -> Invocations] /\ invoked'[c] = i
      /\ \A d \in Calls \ {c} : invoked'[d] = invoked[d]
  BY Becoming DEF CallInv
<1>2. /\ meter' \in [DOMAIN meter' -> Nat]
      /\ \A d \in Calls \ {c} : /\ (d \in DOMAIN meter') <=> (d \in DOMAIN meter)
                                /\ d \in DOMAIN meter => meter'[d] = meter[d]
  <2>1. CASE meter' = meter
    BY <2>1 DEF CallInv, CallTypeOK
  <2>2. CASE \E h \in Nat : meter' = WithRow(c, h)
    <3>1. PICK h \in Nat : meter' = WithRow(c, h)
      BY <2>2
    <3>2. meter \in [DOMAIN meter -> Nat]
      BY DEF CallInv, CallTypeOK
    <3> QED BY <3>1, <3>2 DEF WithRow
  <2> QED BY <2>1, <2>2
<1>3. CallTypeOK'
  <2>1. seen' \in [Calls -> [open : BOOLEAN, current : SUBSET Graphs]]
    BY <1>1, SeenIsTyped DEF CallInv, CallTypeOK
  <2> QED BY <1>1, <1>2, <2>1 DEF CallInv, CallTypeOK
<1>4. AwakeUnlessChosen'
  BY DEF CallInv, AwakeUnlessChosen
<1>5. OutcomesComeLast'
  BY <1>1 DEF CallInv, OutcomesComeLast
<1>6. ASSUME NEW d \in Calls
      PROVE  WasOpen(d)' /\ WasCurrent(d)' /\ Metered(d)'
  <2>1. CASE d = c
    BY <1>3, <2>1
  <2>2. CASE d # c
    <3>1. /\ invoked'[d] = invoked[d]
          /\ (d \in DOMAIN meter') <=> (d \in DOMAIN meter)
          /\ d \in DOMAIN meter => meter'[d] = meter[d]
          /\ (d \in stored') <=> (d \in stored)
      BY <1>1, <1>2, <2>2
    <3> QED BY <1>3, <3>1, OthersStand DEF CallInv
  <2> QED BY <2>1, <2>2
<1> QED BY <1>3, <1>4, <1>5, <1>6 DEF CallInv
-----------------------------------------------------------------------------
(* The steps of a call.                                                    *)

Concluded(c, outcome) ==
  [invoked[c] EXCEPT !.at = "flushing", !.outcome = outcome,
                     !.user = [Stranger EXCEPT !.there = invoked[c].user.there],
                     !.read = IF outcome = "ok" THEN @ ELSE Nothing]

\* What is kept of a call that ends, and of one that goes on.
LEMMA RecordsOfACall ==
  ASSUME CallTypeOK, NEW c \in Calls
  PROVE  /\ invoked[c] \in Invocations
         /\ \A o \in Failed \cup {"ok"} :
              LET i == Concluded(c, o)
              IN /\ i \in Invocations /\ i.at = "flushing" /\ i.outcome = o
                 /\ i.tool = invoked[c].tool
                 /\ o = "ok" => i.read = invoked[c].read
         /\ \A at \in Before \cup {"working", "storing", "flushing", "done"} :
              LET i == [invoked[c] EXCEPT !.at = at]
              IN /\ i \in Invocations /\ i.at = at /\ i.outcome = invoked[c].outcome
                 /\ i.tool = invoked[c].tool /\ i.user = invoked[c].user /\ i.read = invoked[c].read
<1>1. invoked[c] \in Invocations
  BY DEF CallTypeOK
<1>2. ASSUME NEW o \in Failed \cup {"ok"}
      PROVE  /\ Concluded(c, o) \in Invocations
             /\ Concluded(c, o).at = "flushing" /\ Concluded(c, o).outcome = o
             /\ Concluded(c, o).tool = invoked[c].tool
             /\ o = "ok" => Concluded(c, o).read = invoked[c].read
  <2> DEFINE u == [Stranger EXCEPT !.there = invoked[c].user.there]
             r == IF o = "ok" THEN invoked[c].read ELSE Nothing
  <2>1. u \in Holders /\ r \in Reads
    BY <1>1, InvocationsAreTyped DEF Invocations, Holders, Stranger
  <2>2. Concluded(c, o) = [invoked[c] EXCEPT !.at = "flushing", !.outcome = o, !.user = u, !.read = r]
    BY <1>1 DEF Concluded, Invocations
  <2> HIDE DEF u, r
  <2>3. Concluded(c, o) \in Invocations
    BY <1>1, <2>1, <2>2 DEF Invocations
  <2>4. /\ Concluded(c, o).at = "flushing" /\ Concluded(c, o).outcome = o
        /\ Concluded(c, o).tool = invoked[c].tool /\ Concluded(c, o).read = r
    BY <1>1, <2>2 DEF Invocations
  <2> QED BY <2>3, <2>4 DEF r
<1>3. ASSUME NEW at \in Before \cup {"working", "storing", "flushing", "done"}
      PROVE  LET i == [invoked[c] EXCEPT !.at = at]
             IN /\ i \in Invocations /\ i.at = at /\ i.outcome = invoked[c].outcome
                /\ i.tool = invoked[c].tool /\ i.user = invoked[c].user /\ i.read = invoked[c].read
  BY <1>1, ChangesAreTyped DEF Invocations
<1> QED BY <1>1, <1>2, <1>3

\* A call that is refused before it is charged.
LEMMA RefusingStep ==
  ASSUME CallInv, NEW c \in Calls, invoked[c].at \in Before, Conclude(c, "refused"),
         UNCHANGED <<World, meter, stored>>, Witness
  PROVE  CallInv'
<1> DEFINE i == Concluded(c, "refused")
<1>1. i \in Invocations /\ i.at = "flushing" /\ i.outcome = "refused"
  BY RecordsOfACall DEF CallInv, Failed
<1>2. Become(c, i)
  BY DEF Conclude, Concluded
<1> HIDE DEF i
<1>3. invoked'[c] = i
  BY <1>1, <1>2, Becoming DEF CallInv
<1>4. invoked[c].outcome = "none" /\ c \notin DOMAIN meter /\ c \notin stored
  BY DEF CallInv, OutcomesComeLast, Metered, Before
<1>5. WasOpen(c)' /\ WasCurrent(c)' /\ Metered(c)'
  BY <1>1, <1>3, <1>4 DEF WasOpen, WasCurrent, Metered, IsAt, Answered, Before, Charged
<1> QED BY <1>1, <1>2, <1>5, CallSteps DEF World, CallInv, CallTypeOK

\* mcp_invocation_scope opens.
LEMMA InvokeStep ==
  ASSUME CallInv, NEW c \in Calls, Invoke(c)
  PROVE  CallInv'
<1>1. PICK t \in ToolsUsed : Become(c, Invoked("calling", t, Stranger, Nothing, "none"))
  BY DEF Invoke
<1> DEFINE i == Invoked("calling", t, Stranger, Nothing, "none")
<1>2. i \in Invocations /\ i.at = "calling" /\ i.outcome = "none"
  BY InvocationsAreTyped, ToolsAssumption DEF Invoked
<1>3. Become(c, i)
  BY <1>1
<1> HIDE DEF i
<1>4. invoked'[c] = i
  BY <1>2, <1>3, Becoming DEF CallInv
<1>5. invoked[c].outcome = "none" /\ c \notin DOMAIN meter /\ c \notin stored
  BY DEF CallInv, OutcomesComeLast, Metered, Before, Invoke, IsAt
<1>6. WasOpen(c)' /\ WasCurrent(c)' /\ Metered(c)'
  BY <1>2, <1>4, <1>5 DEF WasOpen, WasCurrent, Metered, IsAt, Answered, Before, Charged, Invoke
<1> QED BY <1>2, <1>3, <1>6, CallSteps DEF World, CallInv, CallTypeOK, Invoke

\* The gate of the tree is entered with the user as read, or passed by.
LEMMA EnteringStep ==
  ASSUME CallInv, NEW c \in Calls, NEW u \in Holders, invoked[c].at \in {"calling", "provisioning"},
         Become(c, [invoked[c] EXCEPT !.at = IF invoked[c].tool.gated THEN "known" ELSE "passed",
                                      !.user = u]),
         u = holder', holder' = holder \/ holder' = [holder EXCEPT !.there = TRUE],
         UNCHANGED <<tree, meter, stored>>, Witness
  PROVE  CallInv'
<1> DEFINE at == IF invoked[c].tool.gated THEN "known" ELSE "passed"
           i  == [invoked[c] EXCEPT !.at = at, !.user = u]
<1>1. invoked[c] \in Invocations /\ holder \in Holders
  BY DEF CallInv, CallTypeOK
<1>2. /\ i \in Invocations /\ i.at = at /\ i.outcome = invoked[c].outcome
      /\ i.tool = invoked[c].tool /\ i.user = u
  <2>1. at \in Before
    BY DEF Before
  <2> HIDE DEF at
  <2> QED BY <1>1, <2>1 DEF Invocations
<1>3. Become(c, i)
  OBVIOUS
<1> HIDE DEF i
<1>4. invoked'[c] = i
  BY <1>2, <1>3, Becoming DEF CallInv
<1>5. invoked[c].outcome = "none" /\ c \notin DOMAIN meter /\ c \notin stored
  BY DEF CallInv, OutcomesComeLast, Metered, Before
<1>6. /\ at \in {"known", "passed"} /\ (at = "passed" => ~invoked[c].tool.gated)
      /\ invoked[c].tool.inSync => invoked[c].tool.gated
  BY <1>1, ToolsAreTyped DEF Invocations
<1>7. /\ holder' \in Holders /\ holder'.pro = holder.pro /\ holder'.limbo = holder.limbo
  BY <1>1 DEF Holders
<1> HIDE DEF at
<1>8. ASSUME CallTypeOK'
      PROVE  WasOpen(c)' /\ WasCurrent(c)' /\ Metered(c)'
  <2>1. UnderWay(c) /\ invoked'[c].outcome \notin Failed
    BY <1>2, <1>4, <1>5 DEF UnderWay, Failed
  <2>2. Usable(holder, tree)' => seen'[c].open
    BY <1>5, <1>8, <2>1, Witnessing DEF CallInv
  <2>3. WasOpen(c)'
    BY <1>2, <1>4, <1>5, <1>6, <2>2 DEF WasOpen, IsAt, Answered
  <2>4. WasCurrent(c)'
    BY <1>2, <1>4, <1>5, <1>6 DEF WasCurrent, IsAt, Answered
  <2>5. Metered(c)'
    BY <1>2, <1>4, <1>5, <1>6 DEF Metered, IsAt, Before, Charged
  <2> QED BY <2>3, <2>4, <2>5
<1> QED BY <1>2, <1>3, <1>5, <1>6, <1>7, <1>8, CallSteps

\* get_mcp_user finds the row, sends away, or goes on to provision one.
LEMMA AuthenticateStep ==
  ASSUME CallInv, NEW c \in Calls, Authenticate(c)
  PROVE  CallInv'
<1>1. CASE Conclude(c, "refused")
  BY <1>1, RefusingStep DEF Authenticate, IsAt, Before
<1>2. CASE /\ holder.there
           /\ Become(c, [invoked[c] EXCEPT !.at = IF invoked[c].tool.gated THEN "known" ELSE "passed",
                                           !.user = holder])
  <2>1. holder \in Holders
    BY DEF CallInv, CallTypeOK
  <2> QED BY <1>2, <2>1, EnteringStep DEF Authenticate, IsAt, World
<1>3. CASE MoveOn(c, "provisioning")
  <2> DEFINE i == [invoked[c] EXCEPT !.at = "provisioning"]
  <2>1. /\ i \in Invocations /\ i.at = "provisioning" /\ i.outcome = invoked[c].outcome
        /\ i.tool = invoked[c].tool
    BY RecordsOfACall DEF CallInv, Before
  <2>2. Become(c, i)
    BY <1>3 DEF MoveOn
  <2> HIDE DEF i
  <2>3. invoked'[c] = i
    BY <2>1, <2>2, Becoming DEF CallInv
  <2>4. invoked[c].outcome = "none" /\ c \notin DOMAIN meter /\ c \notin stored
    BY DEF CallInv, OutcomesComeLast, Metered, Before, Authenticate, IsAt
  <2>5. WasOpen(c)' /\ WasCurrent(c)' /\ Metered(c)'
    BY <2>1, <2>3, <2>4 DEF WasOpen, WasCurrent, Metered, IsAt, Answered, Before, Charged, Authenticate
  <2> QED BY <2>1, <2>2, <2>4, <2>5, CallSteps DEF World, CallInv, CallTypeOK, Authenticate
<1> QED BY <1>1, <1>2, <1>3 DEF Authenticate

\* resolve_local_user_for_clerk has a row, the user's own or the winner's.
LEMMA ProvisionStep ==
  ASSUME CallInv, NEW c \in Calls, Provision(c)
  PROVE  CallInv'
<1>1. holder' \in Holders /\ holder' = [holder EXCEPT !.there = TRUE]
  BY DEF CallInv, CallTypeOK, Holders, Provision
<1> QED BY <1>1, EnteringStep DEF Provision, IsAt

\* What the gates find open was so at this moment, or for the plan as it was read.
LEMMA LoadTreeStep ==
  ASSUME CallInv, NEW c \in Calls, LoadTree(c)
  PROVE  CallInv'
<1>1. CASE Usable(invoked[c].user, tree)
  <2> DEFINE r == [graph |-> tree.graph, theory |-> tree.theory]
             i == [invoked[c] EXCEPT !.at = "open", !.read = r]
  <2>1. invoked[c] \in Invocations /\ r \in Reads
    BY DEF CallInv, CallTypeOK, Trees, Reads
  <2>2. r.theory = tree.theory /\ r.graph = tree.graph
    OBVIOUS
  <2>3. Become(c, i) /\ UNCHANGED <<World, meter, stored>> /\ Witness /\ IsAt(c, "known")
    BY <1>1 DEF LoadTree
  <2> HIDE DEF r
  <2>4. /\ i \in Invocations /\ i.at = "open" /\ i.outcome = invoked[c].outcome
        /\ i.tool = invoked[c].tool /\ i.read = r
    BY <2>1 DEF Invocations, Before
  <2> HIDE DEF i
  <2>5. invoked'[c] = i
    BY <2>4, <2>3, Becoming DEF CallInv
  <2>6. invoked[c].outcome = "none" /\ c \notin DOMAIN meter /\ c \notin stored
    BY <2>3 DEF CallInv, OutcomesComeLast, Metered, Before, IsAt
  <2>7. ASSUME CallTypeOK'
        PROVE  WasOpen(c)' /\ WasCurrent(c)' /\ Metered(c)'
    <3>1. /\ seen[c].open => seen'[c].open
          /\ InSync(tree) => tree.theory \in seen'[c].current
      <4>1. UnderWay(c) /\ invoked'[c].outcome \notin Failed
        BY <2>4, <2>3, <2>5, <2>6 DEF UnderWay, Failed, IsAt
      <4> QED BY <2>3, <2>6, <2>7, <4>1, Witnessing DEF CallInv
    <3>2. WasOpen(c)'
      BY <1>1, <2>4, <2>3, <2>5, <2>6, <3>1 DEF WasOpen, IsAt, Answered, CallInv
    <3>3. WasCurrent(c)'
      BY <1>1, <2>4, <2>2, <2>5, <2>6, <3>1 DEF WasCurrent, IsAt, Answered, InSync, Usable
    <3>4. Metered(c)'
      BY <2>4, <2>3, <2>5, <2>6 DEF Metered, IsAt, Before
    <3> QED BY <3>2, <3>3, <3>4
  <2> QED BY <2>4, <2>3, <2>6, <2>7, CallSteps DEF World, CallInv, CallTypeOK
<1>2. CASE ~Usable(invoked[c].user, tree)
  BY <1>2, RefusingStep DEF LoadTree, IsAt, Before
<1> QED BY <1>1, <1>2

\* A call that only moves on, before its row is in the meter.
LEMMA MovingStep ==
  ASSUME CallInv, NEW c \in Calls, NEW at \in {"passed", "locked"}, MoveOn(c, at),
         \/ IsAt(c, "passed")
         \/ /\ IsAt(c, "open")
            /\ invoked[c].read.theory # Unbuilt
            /\ invoked[c].tool.inSync => invoked[c].read.theory = invoked[c].read.graph,
         UNCHANGED <<World, meter, stored>>, Witness
  PROVE  CallInv'
<1> DEFINE i == [invoked[c] EXCEPT !.at = at]
<1>1. /\ i \in Invocations /\ i.at = at /\ i.outcome = invoked[c].outcome
      /\ i.tool = invoked[c].tool /\ i.read = invoked[c].read
  BY RecordsOfACall DEF CallInv, Before
<1>2. Become(c, i)
  BY DEF MoveOn
<1> HIDE DEF i
<1>3. invoked'[c] = i
  BY <1>1, <1>2, Becoming DEF CallInv
<1>4. invoked[c].outcome = "none" /\ c \notin DOMAIN meter /\ c \notin stored
  BY DEF CallInv, OutcomesComeLast, Metered, Before, IsAt
<1>5. ASSUME CallTypeOK'
      PROVE  WasOpen(c)' /\ WasCurrent(c)' /\ Metered(c)'
  <2>1. (seen[c].open => seen'[c].open) /\ seen[c].current \subseteq seen'[c].current
    <3>1. invoked'[c].outcome \notin Failed
      BY <1>1, <1>3, <1>4 DEF Failed
    <3> QED BY <1>5, <3>1, Witnessing DEF CallInv
  <2>2. WasOpen(c) /\ WasCurrent(c)
    BY DEF CallInv
  <2>3. WasOpen(c)'
    BY <1>1, <1>3, <1>4, <2>1, <2>2 DEF WasOpen, IsAt, Answered
  <2>4. WasCurrent(c)'
    BY <1>1, <1>3, <1>4, <2>1, <2>2 DEF WasCurrent, IsAt, Answered
  <2>5. Metered(c)'
    BY <1>1, <1>3, <1>4 DEF Metered, IsAt, Before
  <2> QED BY <2>3, <2>4, <2>5
<1> QED BY <1>1, <1>2, <1>4, <1>5, CallSteps DEF World, CallInv, CallTypeOK

\* The artifact is refused unless it is of the graph that was read.
LEMMA LoadTheoryStep ==
  ASSUME CallInv, NEW c \in Calls, LoadTheory(c)
  PROVE  CallInv'
<1>1. CASE Conclude(c, "refused")
  BY <1>1, RefusingStep DEF LoadTheory, IsAt, Before
<1>2. CASE /\ invoked[c].read.theory # Unbuilt
           /\ invoked[c].tool.inSync => invoked[c].read.theory = invoked[c].read.graph
           /\ MoveOn(c, "passed")
  BY <1>2, MovingStep DEF LoadTheory
<1> QED BY <1>1, <1>2 DEF LoadTheory

\* Whoever gets the lock goes on uncharged.
LEMMA LockMeterStep ==
  ASSUME CallInv, NEW c \in Calls, LockMeter(c)
  PROVE  CallInv'
<1>1. CASE Conclude(c, "refused")
  BY <1>1, RefusingStep DEF LockMeter, IsAt, Before
<1>2. CASE MoveOn(c, "locked")
  BY <1>2, MovingStep DEF LockMeter
<1> QED BY <1>1, <1>2 DEF LockMeter

\* The work begins, charged in full if it weighs anything.
LEMMA BeginningStep ==
  ASSUME CallInv, NEW c \in Calls, MoveOn(c, "working"), invoked[c].at \in {"passed", "locked"},
         \/ meter' = WithRow(c, Weighs(c)) \/ (Weighs(c) = 0 /\ meter' = meter),
         UNCHANGED <<World, stored>>, Witness
  PROVE  CallInv'
<1> DEFINE i == [invoked[c] EXCEPT !.at = "working"]
<1>1. /\ i \in Invocations /\ i.at = "working" /\ i.outcome = invoked[c].outcome
      /\ i.tool = invoked[c].tool /\ i.read = invoked[c].read
  BY RecordsOfACall DEF CallInv
<1>2. Become(c, i)
  BY DEF MoveOn
<1> HIDE DEF i
<1>3. invoked'[c] = i
  BY <1>1, <1>2, Becoming DEF CallInv
<1>4. invoked[c].outcome = "none" /\ c \notin DOMAIN meter /\ c \notin stored
  BY DEF CallInv, OutcomesComeLast, Metered, Before
<1>5. Weighs(c)' = Weighs(c) /\ Weighs(c) \in Nat
  <2>1. invoked[c] \in Invocations
    BY DEF CallInv, CallTypeOK
  <2>2. Weighs(c) \in Nat
    BY <2>1, ToolsAreTyped DEF Invocations, Weighs
  <2> QED BY <1>1, <1>3, <2>2 DEF Weighs
<1>6. Charged(c)'
  BY <1>5 DEF Charged, WithRow
<1>7. ASSUME CallTypeOK'
      PROVE  WasOpen(c)' /\ WasCurrent(c)' /\ Metered(c)'
  <2>1. (seen[c].open => seen'[c].open) /\ seen[c].current \subseteq seen'[c].current
    <3>1. invoked'[c].outcome \notin Failed
      BY <1>1, <1>3, <1>4 DEF Failed
    <3> QED BY <1>7, <3>1, Witnessing DEF CallInv
  <2>2. WasOpen(c) /\ WasCurrent(c)
    BY DEF CallInv
  <2>3. WasOpen(c)'
    BY <1>1, <1>3, <1>4, <2>1, <2>2 DEF WasOpen, IsAt, Answered
  <2>4. WasCurrent(c)'
    BY <1>1, <1>3, <1>4, <2>1, <2>2 DEF WasCurrent, IsAt, Answered
  <2>5. Metered(c)'
    BY <1>1, <1>3, <1>4, <1>6 DEF Metered, IsAt, Before
  <2> QED BY <2>3, <2>4, <2>5
<1> QED BY <1>1, <1>2, <1>4, <1>5, <1>7, CallSteps DEF World, CallInv, CallTypeOK

\* reserve_mcp_quota writes the row or sends away.
LEMMA ReserveRowStep ==
  ASSUME CallInv, NEW c \in Calls, ReserveRow(c)
  PROVE  CallInv'
<1>1. CASE meter' = WithRow(c, Weighs(c)) /\ MoveOn(c, "working")
  <2>1. invoked[c].at \in {"passed", "locked"} /\ UNCHANGED <<World, stored>> /\ Witness
    BY DEF ReserveRow, IsAt
  <2>2. meter' = WithRow(c, Weighs(c)) \/ (Weighs(c) = 0 /\ meter' = meter)
    BY <1>1
  <2> QED BY <1>1, <2>1, <2>2, BeginningStep
<1>2. CASE Conclude(c, "refused") /\ UNCHANGED meter
  BY <1>2, RefusingStep DEF ReserveRow, IsAt, Before
<1> QED BY <1>1, <1>2 DEF ReserveRow

\* A tool that weighs nothing needs no row.
LEMMA UnmeteredStep ==
  ASSUME CallInv, NEW c \in Calls, Unmetered(c)
  PROVE  CallInv'
BY BeginningStep DEF Unmetered, IsAt

\* The work is done or has failed, or its run is about to be stored.
LEMMA EndingStep ==
  ASSUME CallInv, NEW c \in Calls, NEW o \in {"client error", "error", "ok"}, Conclude(c, o),
         invoked[c].at \in {"working", "storing"},
         stored' = stored \/ (o = "ok" /\ stored' = stored \cup {c}),
         UNCHANGED <<World, meter>>, Witness
  PROVE  CallInv'
<1> DEFINE i == Concluded(c, o)
<1>1. /\ i \in Invocations /\ i.at = "flushing" /\ i.outcome = o /\ i.tool = invoked[c].tool
      /\ o = "ok" => i.read = invoked[c].read
  <2>1. o \in Failed \cup {"ok"}
    BY DEF Failed
  <2> QED BY <2>1, RecordsOfACall DEF CallInv
<1>2. Become(c, i)
  BY DEF Conclude, Concluded
<1> HIDE DEF i
<1>3. invoked'[c] = i
  BY <1>1, <1>2, Becoming DEF CallInv
<1>4. /\ invoked[c].outcome = "none" /\ c \notin stored /\ Charged(c)
  BY DEF CallInv, OutcomesComeLast, Metered
<1>5. ASSUME CallTypeOK'
      PROVE  WasOpen(c)' /\ WasCurrent(c)' /\ Metered(c)'
  <2>1. Metered(c)'
    BY <1>1, <1>3, <1>4 DEF Metered, IsAt, Before, Charged, Weighs
  <2>2. CASE o # "ok"
    BY <1>1, <1>3, <2>1, <2>2 DEF WasOpen, WasCurrent, IsAt, Answered
  <2>3. CASE o = "ok"
    <3>1. (seen[c].open => seen'[c].open) /\ seen[c].current \subseteq seen'[c].current
      <4>1. invoked'[c].outcome \notin Failed
        BY <1>1, <1>3, <2>3 DEF Failed
      <4> QED BY <1>5, <4>1, Witnessing DEF CallInv
    <3>2. WasOpen(c) /\ WasCurrent(c)
      BY DEF CallInv
    <3>3. WasOpen(c)'
      BY <1>1, <1>3, <3>1, <3>2 DEF WasOpen, IsAt, Answered
    <3>4. WasCurrent(c)'
      BY <1>1, <1>3, <2>3, <3>1, <3>2 DEF WasCurrent, IsAt, Answered
    <3> QED BY <2>1, <3>3, <3>4
  <2> QED BY <2>2, <2>3
<1> QED BY <1>1, <1>2, <1>5, CallSteps DEF World, CallInv, CallTypeOK

\* The work ends, fails, or has a run to store.
LEMMA WorkStep ==
  ASSUME CallInv, NEW c \in Calls, Work(c)
  PROVE  CallInv'
<1>1. CASE \E o \in {"client error", "error", "ok"} : Conclude(c, o)
  <2>1. invoked[c].at \in {"working", "storing"} /\ UNCHANGED <<World, meter>> /\ Witness
    BY DEF Work, IsAt
  <2>2. PICK o \in {"client error", "error", "ok"} : Conclude(c, o)
    BY <1>1
  <2>3. stored' = stored \/ (o = "ok" /\ stored' = stored \cup {c})
    BY DEF Work
  <2> QED BY <2>1, <2>2, <2>3, EndingStep
<1>2. CASE MoveOn(c, "storing")
  <2> DEFINE i == [invoked[c] EXCEPT !.at = "storing"]
  <2>1. /\ i \in Invocations /\ i.at = "storing" /\ i.outcome = invoked[c].outcome
        /\ i.tool = invoked[c].tool /\ i.read = invoked[c].read
    BY RecordsOfACall DEF CallInv
  <2>2. Become(c, i)
    BY <1>2 DEF MoveOn
  <2> HIDE DEF i
  <2>3. invoked'[c] = i
    BY <2>1, <2>2, Becoming DEF CallInv
  <2>4. IsAt(c, "working") /\ UNCHANGED <<World, meter, stored>> /\ Witness
    BY DEF Work
  <2>5. invoked[c].outcome = "none" /\ c \notin stored /\ Charged(c)
    BY <2>4 DEF CallInv, OutcomesComeLast, Metered, IsAt
  <2>6. ASSUME CallTypeOK'
        PROVE  WasOpen(c)' /\ WasCurrent(c)' /\ Metered(c)'
    <3>1. (seen[c].open => seen'[c].open) /\ seen[c].current \subseteq seen'[c].current
      <4>1. invoked'[c].outcome \notin Failed
        BY <2>1, <2>3, <2>5 DEF Failed
      <4> QED BY <2>4, <2>6, <4>1, Witnessing DEF CallInv
    <3>2. WasOpen(c) /\ WasCurrent(c)
      BY DEF CallInv
    <3>3. WasOpen(c)'
      BY <2>1, <2>3, <2>4, <2>5, <3>1, <3>2 DEF WasOpen, IsAt, Answered
    <3>4. WasCurrent(c)'
      BY <2>1, <2>3, <2>4, <2>5, <3>1, <3>2 DEF WasCurrent, IsAt, Answered
    <3>5. Metered(c)'
      BY <2>1, <2>3, <2>4, <2>5 DEF Metered, IsAt, Before, Charged, Weighs
    <3> QED BY <3>3, <3>4, <3>5
  <2> QED BY <2>1, <2>2, <2>4, <2>5, <2>6, CallSteps DEF World, CallInv, CallTypeOK
<1> QED BY <1>1, <1>2 DEF Work

\* The run is stored with the answer, or the insert fails.
LEMMA StoreRunStep ==
  ASSUME CallInv, NEW c \in Calls, StoreRun(c)
  PROVE  CallInv'
<1>0. invoked[c].at \in {"working", "storing"} /\ UNCHANGED <<World, meter>> /\ Witness
  BY DEF StoreRun, IsAt
<1>1. CASE stored' = stored \cup {c} /\ Conclude(c, "ok")
  BY <1>0, <1>1, EndingStep
<1>2. CASE Conclude(c, "error") /\ UNCHANGED stored
  <2>1. stored' = stored \/ ("error" = "ok" /\ stored' = stored \cup {c})
    BY <1>2
  <2> QED BY <1>0, <1>2, <2>1, EndingStep
<1> QED BY <1>1, <1>2 DEF StoreRun

\* The row gets its outcome, or is written now, or the update fails.
LEMMA FlushingStep ==
  ASSUME CallInv, NEW c \in Calls, IsAt(c, "flushing"), MoveOn(c, "done"),
         \/ meter' = meter
         \/ meter' = Noting(c, IF invoked[c].outcome = "client error" THEN 0 ELSE Weighs(c)),
         UNCHANGED <<World, stored>>, Witness
  PROVE  CallInv'
<1> DEFINE i == [invoked[c] EXCEPT !.at = "done"]
           halves == IF invoked[c].outcome = "client error" THEN 0 ELSE Weighs(c)
<1>1. /\ i \in Invocations /\ i.at = "done" /\ i.outcome = invoked[c].outcome
      /\ i.tool = invoked[c].tool /\ i.read = invoked[c].read
  BY RecordsOfACall DEF CallInv
<1>2. Become(c, i)
  BY DEF MoveOn
<1> HIDE DEF i
<1>3. invoked'[c] = i
  BY <1>1, <1>2, Becoming DEF CallInv
<1>4. invoked[c].outcome # "none" /\ Metered(c)
  BY DEF CallInv, OutcomesComeLast, IsAt
<1>5. Weighs(c)' = Weighs(c) /\ Weighs(c) \in Nat /\ halves \in Nat
  <2>1. invoked[c] \in Invocations
    BY DEF CallInv, CallTypeOK
  <2>2. Weighs(c) \in Nat
    BY <2>1, ToolsAreTyped DEF Invocations, Weighs
  <2> QED BY <1>1, <1>3, <2>2 DEF Weighs
<1>6. /\ invoked[c].outcome = "refused" => c \notin DOMAIN meter
      /\ invoked[c].outcome \in {"ok", "error"} => Charged(c) /\ halves = Weighs(c)
  BY <1>4 DEF Metered, IsAt
<1>7. \/ meter' = meter
      \/ c \in DOMAIN meter /\ meter' = WithRow(c, halves)
      \/ c \notin DOMAIN meter /\ meter' = WithRow(c, 0)
  BY DEF Noting
<1> HIDE DEF halves
<1>8. Metered(c)'
  <2>1. /\ ~IsAt(c, "flushing")' /\ invoked'[c].at \notin Before \cup {"working", "storing"}
        /\ invoked'[c].outcome = invoked[c].outcome
    BY <1>1, <1>3 DEF IsAt, Before
  <2>2. invoked[c].outcome = "refused" /\ c \in DOMAIN meter' => meter'[c] = 0
    BY <1>6, <1>7 DEF WithRow
  <2>3. invoked[c].outcome \in {"ok", "error"} => Charged(c)'
    BY <1>5, <1>6, <1>7 DEF WithRow, Charged
  <2> QED BY <1>4, <2>1, <2>2, <2>3 DEF Metered
<1>9. ASSUME CallTypeOK'
      PROVE  WasOpen(c)' /\ WasCurrent(c)'
  <2>1. CASE ~Answered(c)
    BY <1>1, <1>3, <2>1 DEF WasOpen, WasCurrent, IsAt, Answered
  <2>2. CASE Answered(c)
    <3>1. (seen[c].open => seen'[c].open) /\ seen[c].current \subseteq seen'[c].current
      <4>1. invoked'[c].outcome \notin Failed
        BY <1>1, <1>3, <2>2 DEF Failed, Answered
      <4> QED BY <1>9, <4>1, Witnessing DEF CallInv
    <3>2. WasOpen(c) /\ WasCurrent(c)
      BY DEF CallInv
    <3>3. WasOpen(c)'
      BY <1>1, <1>3, <2>2, <3>1, <3>2 DEF WasOpen, IsAt, Answered
    <3>4. WasCurrent(c)'
      BY <1>1, <1>3, <2>2, <3>1, <3>2 DEF WasCurrent, IsAt, Answered
    <3> QED BY <3>3, <3>4
  <2> QED BY <2>1, <2>2
<1>10. meter' = meter \/ \E h \in Nat : meter' = WithRow(c, h)
  BY <1>5, <1>7
<1> QED BY <1>1, <1>2, <1>4, <1>8, <1>9, <1>10, CallSteps DEF World, CallInv, CallTypeOK

\* The process stops; what was reserved stays.
LEMMA LostStep ==
  ASSUME CallInv, NEW c \in Calls, Lost(c)
  PROVE  CallInv'
<1> DEFINE i == Invoked("done", invoked[c].tool, Stranger, Nothing, "lost")
<1>1. invoked[c].tool \in AllTools
  BY DEF CallInv, CallTypeOK, Invocations
<1>2. i \in Invocations /\ i.at = "done" /\ i.outcome = "lost"
  BY <1>1, InvocationsAreTyped DEF Invoked
<1>3. Become(c, i)
  BY DEF Lost
<1> HIDE DEF i
<1>4. invoked'[c] = i
  BY <1>2, <1>3, Becoming DEF CallInv
<1>5. c \notin stored
  BY DEF CallInv, OutcomesComeLast, Metered, Lost, UnderWay, IsAt
<1>6. WasOpen(c)' /\ WasCurrent(c)' /\ Metered(c)'
  BY <1>2, <1>4, <1>5 DEF WasOpen, WasCurrent, Metered, IsAt, Answered, Before, Lost
<1> QED BY <1>2, <1>3, <1>6, CallSteps DEF World, CallInv, CallTypeOK, Lost
-----------------------------------------------------------------------------
(* What happens to the tree and to the plan. A tree becomes usable for a   *)
(* plan as it was once read only when it is usable under the plan as it is.*)

\* The tree or the plan changes, and every call stands.
LEMMA WorldSteps ==
  ASSUME CallInv, Meanwhile, holder' \in Holders, tree' \in Trees, AwakeUnlessChosen',
         \A u \in Holders : Usable(u, tree') /\ ~Usable(u, tree) => Usable(holder', tree')
  PROVE  CallInv'
<1>1. UNCHANGED <<invoked, meter, stored>> /\ Witness
  BY DEF Meanwhile
<1>2. CallTypeOK'
  <2>1. seen' \in [Calls -> [open : BOOLEAN, current : SUBSET Graphs]]
    BY <1>1, SeenIsTyped DEF CallInv, CallTypeOK
  <2> QED BY <1>1, <2>1 DEF CallInv, CallTypeOK
<1>3. OutcomesComeLast'
  BY <1>1 DEF CallInv, OutcomesComeLast
<1>4. ASSUME NEW c \in Calls
      PROVE  WasOpen(c)' /\ WasCurrent(c)' /\ Metered(c)'
  <2>1. WasOpen(c) /\ WasCurrent(c) /\ Metered(c) /\ invoked[c] \in Invocations
    BY DEF CallInv, CallTypeOK
  <2>2. Metered(c)'
    BY <1>1, <2>1 DEF Metered, Charged, Weighs, IsAt
  <2>3. CASE invoked[c].outcome \in Failed
    <3>1. invoked[c].at \in {"flushing", "done"} /\ ~Answered(c)
      BY <2>3 DEF CallInv, OutcomesComeLast, Failed, Answered
    <3> QED BY <1>1, <2>2, <3>1 DEF WasOpen, WasCurrent, IsAt, Answered
  <2>4. CASE invoked[c].outcome \notin Failed
    <3>1. /\ seen[c].open => seen'[c].open
          /\ seen[c].current \subseteq seen'[c].current
          /\ UnderWay(c) /\ invoked[c].outcome = "none" =>
               (Usable(holder, tree) \/ Usable(holder, tree)' => seen'[c].open)
      BY <1>1, <1>2, <2>4, Witnessing DEF CallInv
    <3>2. WasCurrent(c)'
      BY <1>1, <2>1, <3>1 DEF WasCurrent, IsAt, Answered
    <3>3. ASSUME IsAt(c, "known"), Usable(invoked[c].user, tree'), invoked[c].tool.gated
          PROVE  seen'[c].open
      <4>1. UnderWay(c) /\ invoked[c].outcome = "none"
        BY <3>3 DEF CallInv, OutcomesComeLast, UnderWay, IsAt
      <4>2. invoked[c].user \in Holders
        BY <2>1 DEF Invocations
      <4>3. CASE Usable(invoked[c].user, tree)
        BY <2>1, <3>1, <3>3, <4>3 DEF WasOpen
      <4>4. CASE ~Usable(invoked[c].user, tree)
        BY <3>1, <3>3, <4>1, <4>2, <4>4 DEF Usable, Live
      <4> QED BY <4>3, <4>4
    <3>4. WasOpen(c)'
      BY <1>1, <2>1, <3>1, <3>3 DEF WasOpen, IsAt, Answered, Usable, Live
    <3> QED BY <2>2, <3>2, <3>4
  <2> QED BY <2>3, <2>4
<1> QED BY <1>2, <1>3, <1>4 DEF CallInv

\* Whoever lists a tree has it live.
LEMMA ChangeTreeStep ==
  ASSUME CallInv, ChangeTree
  PROVE  CallInv'
<1>1. holder \in Holders /\ tree \in Trees /\ AwakeUnlessChosen /\ Live(holder, tree)
  BY DEF CallInv, CallTypeOK, ChangeTree
<1>2. /\ tree' \in Trees /\ tree'.there = tree.there /\ tree'.dormant = tree.dormant
  BY <1>1 DEF ChangeTree, Trees
<1>3. holder' = holder /\ Live(holder', tree')
  BY <1>1, <1>2 DEF ChangeTree, Live
<1>4. AwakeUnlessChosen'
  BY <1>1, <1>2, <1>3 DEF AwakeUnlessChosen
<1>5. \A u \in Holders : Usable(u, tree') /\ ~Usable(u, tree) => Usable(holder', tree')
  BY <1>3 DEF Usable
<1> QED BY <1>1, <1>2, <1>3, <1>4, <1>5, WorldSteps DEF ChangeTree

\* A tree that is gone is usable for nobody.
LEMMA DeleteTreeStep ==
  ASSUME CallInv, DeleteTree
  PROVE  CallInv'
<1>1. holder \in Holders /\ tree \in Trees /\ AwakeUnlessChosen
  BY DEF CallInv, CallTypeOK
<1>2. /\ tree' \in Trees /\ tree'.there = FALSE /\ tree'.dormant = tree.dormant
      /\ holder' \in Holders /\ holder'.pro = holder.pro /\ holder'.limbo = holder.limbo
  BY <1>1 DEF DeleteTree, Trees, Holders
<1>3. AwakeUnlessChosen'
  BY <1>1, <1>2 DEF AwakeUnlessChosen
<1>4. \A u \in Holders : ~Usable(u, tree')
  BY <1>2 DEF Usable
<1> QED BY <1>2, <1>3, <1>4, WorldSteps DEF DeleteTree

\* A plan that ends wakes nothing, a choice wakes nothing that slept, and a plan that is
\* taken up again leaves every tree live.
LEMMA ChangePlanStep ==
  ASSUME CallInv, ChangePlan
  PROVE  CallInv'
<1>1. holder \in Holders /\ tree \in Trees /\ AwakeUnlessChosen /\ Meanwhile
  BY DEF CallInv, CallTypeOK, ChangePlan
\* The plan ends.
<1>2. CASE /\ holder.pro
           /\ \/ holder' = [holder EXCEPT !.pro = FALSE, !.limbo = TRUE]
              \/ \E pin \in {"none", "other"} \cup (IF tree.there THEN {"this"} ELSE {}) :
                   holder' = [holder EXCEPT !.pro = FALSE, !.pin = pin]
           /\ UNCHANGED tree
  <2>1. holder' \in Holders /\ ~holder'.pro /\ tree' = tree
    BY <1>1, <1>2 DEF Holders
  <2>2. AwakeUnlessChosen'
    BY <1>1, <1>2, <2>1 DEF AwakeUnlessChosen
  <2> QED BY <1>1, <2>1, <2>2, WorldSteps
\* The choice is made.
<1>3. CASE /\ holder.limbo
           /\ holder' = [holder EXCEPT !.limbo = FALSE]
           /\ \E dormant \in {FALSE, tree.there} : tree' = [tree EXCEPT !.dormant = dormant]
  <2>1. /\ holder' \in Holders /\ ~holder'.pro /\ ~holder'.limbo
        /\ tree' \in Trees /\ tree'.there = tree.there /\ tree'.listed = tree.listed /\ ~tree.dormant
    BY <1>1, <1>3 DEF Holders, Trees, AwakeUnlessChosen
  <2>2. AwakeUnlessChosen'
    BY <2>1 DEF AwakeUnlessChosen
  <2>3. \A u \in Holders : Usable(u, tree') => Usable(u, tree)
    BY <2>1 DEF Usable, Live
  <2> QED BY <1>1, <2>1, <2>2, <2>3, WorldSteps
\* The plan is taken up again.
<1>4. CASE /\ ~holder.pro
           /\ holder' = [holder EXCEPT !.pro = TRUE, !.limbo = FALSE, !.pin = "none"]
           /\ tree' = [tree EXCEPT !.dormant = FALSE]
  <2>1. /\ holder' \in Holders /\ holder'.pro /\ ~holder'.limbo /\ tree' \in Trees /\ ~tree'.dormant
    BY <1>1, <1>4 DEF Holders, Trees
  <2>2. AwakeUnlessChosen'
    BY <2>1 DEF AwakeUnlessChosen
  <2>3. \A u \in Holders : Usable(u, tree') => Usable(holder', tree')
    BY <2>1 DEF Usable, Live
  <2> QED BY <1>1, <2>1, <2>2, <2>3, WorldSteps
<1> QED BY <1>2, <1>3, <1>4 DEF ChangePlan
-----------------------------------------------------------------------------
\* Whatever calls overlap, and whatever is done meanwhile: what holds of a call at
\* every stage (the gates of reasoning_fastmcp.py, reserve_mcp_quota, flush).
THEOREM CallInvariant == CallSpec => []CallInv
<1>1. ASSUME CallInit
      PROVE  CallInv
  <2>1. CallTypeOK /\ AwakeUnlessChosen
    <3>1. holder \in Holders /\ Unmade \in Invocations
      <4>1. ListTrees \in AllTools
        BY DEF AllTools
      <4>2. Unmade \in Invocations
        BY <4>1, InvocationsAreTyped DEF Unmade
      <4>3. \A h \in Holders : [h EXCEPT !.there = TRUE, !.pro = TRUE] \in Holders
        BY DEF Holders
      <4>4. Subscriber \in Holders
        BY <4>3, InvocationsAreTyped DEF Subscriber
      <4>5. holder \in Holders
        BY <1>1, <4>4, InvocationsAreTyped DEF CallInit
      <4> QED BY <4>2, <4>5
    <3>2. tree \in Trees /\ ~tree.dormant /\ ~holder.limbo
      <4>1. tree \in [there : {TRUE}, listed : {TRUE}, dormant : {FALSE}, graph : Graphs, theory : Graphs]
        BY <1>1 DEF CallInit
      <4>2. holder \in {Stranger, Subscriber}
        BY <1>1 DEF CallInit
      <4>3. ~Stranger.limbo /\ ~Subscriber.limbo
        <5>1. \A h \in Holders : [h EXCEPT !.there = TRUE, !.pro = TRUE].limbo = h.limbo
          BY DEF Holders
        <5>2. ~Stranger.limbo
          BY DEF Stranger
        <5> QED BY <5>1, <5>2, InvocationsAreTyped DEF Subscriber
      <4>4. ~holder.limbo
        BY <4>2, <4>3
      <4> QED BY <4>1, <4>4 DEF Trees
    <3>3. Unseen \in [open : BOOLEAN, current : SUBSET Graphs]
      BY DEF Unseen
    <3>4. invoked \in [Calls -> Invocations] /\ seen \in [Calls -> [open : BOOLEAN, current : SUBSET Graphs]]
      BY <1>1, <3>1, <3>3 DEF CallInit
    <3>5. meter \in [DOMAIN meter -> Nat]
      BY <1>1 DEF CallInit
    <3> QED BY <3>1, <3>2, <3>4, <3>5 DEF CallTypeOK, AwakeUnlessChosen
  <2>2. ASSUME NEW c \in Calls
        PROVE  /\ invoked[c].at = "unmade" /\ invoked[c].outcome = "none"
               /\ c \notin DOMAIN meter /\ c \notin stored
    BY <1>1 DEF CallInit, Unmade, Invoked
  <2> QED BY <2>1, <2>2 DEF CallInv, OutcomesComeLast, WasOpen, WasCurrent, Metered, IsAt, Answered
<1>2. ASSUME CallInv, [CallNext]_callVars
      PROVE  CallInv'
  <2>1. CASE UNCHANGED callVars
    BY <1>2, <2>1 DEF callVars, CallInv, CallTypeOK, AwakeUnlessChosen, OutcomesComeLast, WasOpen,
       WasCurrent, Metered, Charged, Weighs, IsAt, Answered, Usable, Live
  <2>2. ASSUME NEW c \in Calls, Answering(c)
        PROVE  CallInv'
    <3>1. CASE Invoke(c)          BY <1>2, <3>1, InvokeStep
    <3>2. CASE Authenticate(c)    BY <1>2, <3>2, AuthenticateStep
    <3>3. CASE Provision(c)       BY <1>2, <3>3, ProvisionStep
    <3>4. CASE ProvisionFails(c)  BY <1>2, <3>4, RefusingStep DEF ProvisionFails, IsAt, Before
    <3>5. CASE LoadTree(c)        BY <1>2, <3>5, LoadTreeStep
    <3>6. CASE LoadTheory(c)      BY <1>2, <3>6, LoadTheoryStep
    <3>7. CASE LockMeter(c)       BY <1>2, <3>7, LockMeterStep
    <3>8. CASE ReserveRow(c)      BY <1>2, <3>8, ReserveRowStep
    <3>9. CASE Unmetered(c)       BY <1>2, <3>9, UnmeteredStep
    <3>10. CASE Work(c)           BY <1>2, <3>10, WorkStep
    <3>11. CASE StoreRun(c)       BY <1>2, <3>11, StoreRunStep
    <3>12. CASE Flush(c)          BY <1>2, <3>12, FlushingStep DEF Flush
    <3>13. CASE FlushFails(c)     BY <1>2, <3>13, FlushingStep DEF FlushFails
    <3>14. CASE Lost(c)           BY <1>2, <3>14, LostStep
    <3> QED BY <2>2, <3>1, <3>2, <3>3, <3>4, <3>5, <3>6, <3>7, <3>8, <3>9, <3>10, <3>11, <3>12,
               <3>13, <3>14 DEF Answering
  <2> QED BY <1>2, <2>1, <2>2, ChangeTreeStep, DeleteTreeStep, ChangePlanStep DEF CallNext
<1> QED BY <1>1, <1>2, PTL DEF CallSpec

\* A tree's answer is given only if at one moment of the call the person could use
\* the tree (_mcp_load_owner_reasoning_context).
THEOREM AnswersComeFromUsableTrees == CallSpec => []AnsweredTreesWereUsable
<1>1. CallInv => AnsweredTreesWereUsable
  BY DEF CallInv, WasOpen, AnsweredTreesWereUsable
<1> QED BY <1>1, CallInvariant, PTL

\* An answer is of a theory published for what the tree said at one moment of the
\* call (the stale_theory check).
THEOREM AnswersAreOfOneMoment == CallSpec => []AnswersAreOfTheTree
<1>1. CallInv => AnswersAreOfTheTree
  BY DEF CallInv, WasCurrent, AnswersAreOfTheTree
<1> QED BY <1>1, CallInvariant, PTL

\* Refused calls cost nothing; answers, errors of the server and stored runs have
\* been charged in full (reserve_mcp_quota, effective_quota_weight_for_outcome).
THEOREM ChargesFollowTheWork == CallSpec => []MeterFollowsTheWork
<1>1. CallInv => MeterFollowsTheWork
  BY DEF CallInv, Metered, Charged, MeterFollowsTheWork
<1> QED BY <1>1, CallInvariant, PTL
-----------------------------------------------------------------------------
(* The trees under the plan.                                               *)

\* What the variables hold.
Row ==
  [there : BOOLEAN, root : {0} \cup Ids, current : BOOLEAN, dormant : BOOLEAN,
   fixture : {"none"} \cup Fixtures]

Errands ==
  [at : {"idle", "reserving", "room", "full", "versioning", "deleting", "settling"},
   kind : {"none", "draft", "version", "delete", "end", "pick", "upgrade", "sample", "acme"},
   pro : BOOLEAN, saw : SUBSET Ids,
   read : [limbo : BOOLEAN, pin : {0} \cup Ids, asleep : SUBSET Ids]]

PlanTypeOK ==
  /\ account \in [pro : BOOLEAN, limbo : BOOLEAN, pin : {0} \cup Ids]
  /\ rows \in [Ids -> Row]
  /\ errand \in [PlanRequests -> Errands]

\* The first version of a family is there as long as any of its versions is.
RootsStand ==
  \A t \in Ids : rows[t].there =>
    /\ rows[t].root \in Ids
    /\ rows[rows[t].root].there /\ rows[rows[t].root].root = rows[t].root

\* One request has the slot.
OneAtATime == \A q, r \in PlanRequests : Holds(q) /\ Holds(r) => q = r

\* Who is after the slot makes a tree or restores one.
CalledFor ==
  \A r \in PlanRequests :
    errand[r].at \in {"reserving", "room", "full"} => errand[r].kind \in {"draft", "sample", "acme"}

\* A request that has not been overtaken works with the plan as it is, and
\* the room it found is there.
Fits ==
  \A r \in PlanRequests \ spanning :
    /\ errand[r].at = "reserving" => errand[r].pro = account.pro
    /\ errand[r].at = "room" => Cardinality(Counted(account.pro) \ beside) + 1 <= Cap(account.pro)

\* While a choice is due what counts still fits the paid plan.
FitsInLimbo == account.limbo => Cardinality(Counted(account.pro) \ beside) <= ProTrees

PInv ==
  /\ PlanTypeOK /\ RootsStand /\ OneAtATime /\ CalledFor /\ Fits /\ FitsInLimbo
  /\ InventoryWithinPlan

-----------------------------------------------------------------------------
(* Counting.                                                               *)

\* A part of the trees has a size, no larger than that of the trees it is of.
LEMMA PartsAreSmaller ==
  ASSUME NEW S \in SUBSET Ids, NEW R \in SUBSET S
  PROVE  /\ IsFiniteSet(S) /\ Cardinality(S) \in Nat /\ Cardinality(R) \in Nat
         /\ Cardinality(R) <= Cardinality(S)
<1>1. IsFiniteSet(Ids)
  BY PlanAssumption, FS_Interval DEF Ids
<1>2. IsFiniteSet(S)
  BY <1>1, FS_Subset
<1>3. Cardinality(R) <= Cardinality(S) /\ IsFiniteSet(R)
  BY <1>2, FS_Subset
<1> QED BY <1>2, <1>3, FS_CardinalityType

\* One more tree is at most one more.
LEMMA OneMore ==
  ASSUME NEW S \in SUBSET Ids, NEW t \in Ids, NEW R \in SUBSET (S \cup {t})
  PROVE  Cardinality(R) <= Cardinality(S) + 1 /\ Cardinality(R) \in Nat
<1>1. S \cup {t} \in SUBSET Ids
  OBVIOUS
<1>2. IsFiniteSet(S) /\ Cardinality(S) \in Nat
  BY PartsAreSmaller
<1>3. Cardinality(S \cup {t}) = Cardinality(S) \/ Cardinality(S \cup {t}) = Cardinality(S) + 1
  BY <1>2, FS_AddElement
<1>4. Cardinality(R) <= Cardinality(S \cup {t}) /\ Cardinality(R) \in Nat
  BY <1>1, PartsAreSmaller
<1>5. Cardinality(S \cup {t}) \in Nat
  BY <1>1, PartsAreSmaller
<1> QED BY <1>2, <1>3, <1>4, <1>5

\* What counts is some of the trees, and fewer count on the free plan.
LEMMA CountedAreTrees ==
  /\ OpenRoots \subseteq Roots /\ Roots \subseteq Ids
  /\ \A p \in BOOLEAN : Counted(p) \subseteq Ids /\ OpenRoots \subseteq Counted(p)
BY DEF Counted, OpenRoots, Roots
-----------------------------------------------------------------------------
(* What a step does to the requests.                                       *)

\* A step is the turn of one request.
LEMMA Turning ==
  ASSUME PlanTypeOK, NEW r \in PlanRequests, NEW e, Turns(r, e)
  PROVE  errand'[r] = e /\ \A q \in PlanRequests \ {r} : errand'[q] = errand[q]
BY DEF PlanTypeOK, Turns

\* Who takes the slot finds it free, and makes a tree or restores one.
LEMMA TurnsStayApart ==
  ASSUME PlanTypeOK, OneAtATime, CalledFor, NEW r \in PlanRequests, NEW e, Turns(r, e),
         e.at \in {"room", "full"} => \A q \in PlanRequests : ~Holds(q),
         e.at \in {"reserving", "room", "full"} => e.kind \in {"draft", "sample", "acme"}
  PROVE  OneAtATime' /\ CalledFor'
<1>1. errand'[r] = e /\ \A q \in PlanRequests \ {r} : errand'[q] = errand[q]
  BY Turning
<1>2. ASSUME NEW q \in PlanRequests, NEW p \in PlanRequests, Holds(q)', Holds(p)'
      PROVE  q = p
  BY <1>1, <1>2 DEF OneAtATime, Holds
<1>3. CalledFor'
  BY <1>1 DEF CalledFor
<1> QED BY <1>2, <1>3 DEF OneAtATime

-----------------------------------------------------------------------------
(* What a step does to the count.                                          *)

\* Where nothing comes into the count and the plan stands, all fits as before.
LEMMA NothingAdded ==
  ASSUME PInv, NEW r \in PlanRequests, NEW e, Turns(r, e), PlanTypeOK',
         account'.pro = account.pro, account'.limbo = account.limbo,
         \A p \in BOOLEAN : (Counted(p) \ beside)' \subseteq Counted(p) \ beside,
         spanning \ {r} \subseteq spanning',
         r \notin spanning' =>
           /\ e.at = "reserving" => e.pro = account.pro
           /\ e.at = "room" => Cardinality(Counted(account.pro) \ beside) + 1 <= Cap(account.pro)
  PROVE  Fits' /\ FitsInLimbo' /\ InventoryWithinPlan'
<1>1. errand'[r] = e /\ \A q \in PlanRequests \ {r} : errand'[q] = errand[q]
  BY Turning DEF PInv
<1>2. account.pro \in BOOLEAN
  BY DEF PInv, PlanTypeOK
<1>3. \A p \in BOOLEAN :
        /\ Cardinality((Counted(p) \ beside)') <= Cardinality(Counted(p) \ beside)
        /\ Cardinality((Counted(p) \ beside)') \in Nat /\ Cardinality(Counted(p) \ beside) \in Nat
  <2> SUFFICES ASSUME NEW p \in BOOLEAN
               PROVE  /\ Cardinality((Counted(p) \ beside)') <= Cardinality(Counted(p) \ beside)
                      /\ Cardinality((Counted(p) \ beside)') \in Nat
                      /\ Cardinality(Counted(p) \ beside) \in Nat
    OBVIOUS
  <2>1. Counted(p) \ beside \in SUBSET Ids
    BY CountedAreTrees
  <2>2. (Counted(p) \ beside)' \in SUBSET (Counted(p) \ beside)
    OBVIOUS
  <2> QED BY <2>1, <2>2, PartsAreSmaller
<1>4. \A p \in BOOLEAN : Cap(p) \in Nat
  BY PlanAssumption DEF Cap
<1>5. ASSUME NEW q \in PlanRequests \ spanning'
      PROVE  /\ errand'[q].at = "reserving" => errand'[q].pro = account'.pro
             /\ errand'[q].at = "room" =>
                  Cardinality((Counted(account.pro) \ beside)') + 1 <= Cap(account'.pro)
  <2>1. CASE q = r
    <3>1. r \notin spanning' /\ errand'[q] = e
      BY <1>1, <2>1
    <3>2. /\ e.at = "reserving" => e.pro = account.pro
          /\ e.at = "room" => Cardinality(Counted(account.pro) \ beside) + 1 <= Cap(account.pro)
      BY <3>1
    <3> QED BY <1>2, <1>3, <1>4, <3>1, <3>2
  <2>2. CASE q # r
    <3>1. q \notin spanning /\ errand'[q] = errand[q]
      BY <1>1, <2>2
    <3>2. /\ errand[q].at = "reserving" => errand[q].pro = account.pro
          /\ errand[q].at = "room" =>
               Cardinality(Counted(account.pro) \ beside) + 1 <= Cap(account.pro)
      BY <3>1 DEF PInv, Fits
    <3> QED BY <1>2, <1>3, <1>4, <3>1, <3>2
  <2> QED BY <2>1, <2>2
<1>6. Fits'
  BY <1>5 DEF Fits, Counted, Roots, OpenRoots
<1>7. FitsInLimbo'
  <2>1. ASSUME account'.limbo
        PROVE  Cardinality((Counted(account.pro) \ beside)') <= ProTrees
    <3>1. Cardinality(Counted(account.pro) \ beside) <= ProTrees
      BY <2>1 DEF PInv, FitsInLimbo
    <3>2. ProTrees \in Nat
      BY PlanAssumption
    <3>3. /\ Cardinality((Counted(account.pro) \ beside)') <= Cardinality(Counted(account.pro) \ beside)
          /\ Cardinality((Counted(account.pro) \ beside)') \in Nat
          /\ Cardinality(Counted(account.pro) \ beside) \in Nat
      <4>1. account'.pro \in BOOLEAN
        BY <1>2
      <4> QED BY <1>2, <1>3, <4>1
    <3> QED BY <3>1, <3>2, <3>3
  <2> QED BY <2>1, Zenon DEF FitsInLimbo
<1>8. InventoryWithinPlan'
  <2>1. ASSUME ~account'.limbo
        PROVE  Cardinality((Counted(account.pro) \ beside)') <= Cap(account'.pro)
    <3>1. Cardinality(Counted(account.pro) \ beside) <= Cap(account.pro)
      BY <2>1 DEF PInv, InventoryWithinPlan
    <3> QED BY <1>2, <1>3, <1>4, <3>1
  <2> QED BY <2>1 DEF InventoryWithinPlan, Counted, Roots, OpenRoots
<1> QED BY <1>6, <1>7, <1>8
\* One tree more fits if its request holds the slot with room, and has not been
\* overtaken.
LEMMA OneAdded ==
  ASSUME PInv, NEW r \in PlanRequests, Finish(r), UNCHANGED account, PlanTypeOK',
         Stands(r, "room"), r \notin spanning,
         NEW t \in Ids,
         \A p \in BOOLEAN : (Counted(p) \ beside)' \subseteq (Counted(p) \ beside) \cup {t}
  PROVE  Fits' /\ FitsInLimbo' /\ InventoryWithinPlan'
<1>1. errand'[r] = Free /\ \A q \in PlanRequests \ {r} : errand'[q] = errand[q]
  BY Turning DEF PInv, Finish
<1>2. account.pro \in BOOLEAN /\ \A p \in BOOLEAN : Cap(p) \in Nat /\ Cap(p) <= ProTrees
  BY PlanAssumption DEF PInv, PlanTypeOK, Cap
<1>3. /\ Cardinality((Counted(account.pro) \ beside)') <= Cap(account.pro)
      /\ Cardinality((Counted(account.pro) \ beside)') \in Nat
  <2> DEFINE before == Counted(account.pro) \ beside
             after  == (Counted(account.pro) \ beside)'
  <2>1. before \in SUBSET Ids /\ after \in SUBSET (before \cup {t})
    BY <1>2, CountedAreTrees
  <2>2. Cardinality(before) + 1 <= Cap(account.pro)
    BY DEF PInv, Fits, Stands
  <2>3. Cardinality(before) \in Nat
    BY <2>1, PartsAreSmaller
  <2> HIDE DEF before, after
  <2>4. Cardinality(after) <= Cardinality(before) + 1 /\ Cardinality(after) \in Nat
    BY <2>1, OneMore
  <2>5. Cardinality(after) <= Cap(account.pro)
    BY <1>2, <2>2, <2>3, <2>4
  <2> QED BY <2>4, <2>5 DEF after
<1>4. Fits'
  <2> SUFFICES ASSUME NEW q \in PlanRequests \ spanning'
               PROVE  /\ errand'[q].at = "reserving" => errand'[q].pro = account'.pro
                      /\ errand'[q].at # "room"
    BY DEF Fits
  <2>1. CASE q = r
    BY <1>1, <2>1 DEF Free, Errand
  <2>2. CASE q # r
    <3>1. q \notin spanning /\ errand'[q] = errand[q]
      BY <1>1, <2>2 DEF Finish
    <3>2. ~Holds(q)
      BY <2>2 DEF PInv, OneAtATime, Holds, Stands
    <3> QED BY <3>1, <3>2 DEF PInv, Fits, Holds
  <2> QED BY <2>1, <2>2
<1>5. FitsInLimbo'
  <2>1. Cardinality((Counted(account.pro) \ beside)') <= ProTrees
    BY <1>2, <1>3, PlanAssumption
  <2> QED BY <2>1 DEF FitsInLimbo
<1>6. InventoryWithinPlan'
  BY <1>3 DEF InventoryWithinPlan
<1> QED BY <1>4, <1>5, <1>6

\* Whoever is under way when the plan changes has been overtaken.
LEMMA AllOvertaken ==
  ASSUME PlanTypeOK, NEW r \in PlanRequests, Settle(r)
  PROVE  Fits'
<1>1. errand'[r] = Free /\ \A q \in PlanRequests \ {r} : errand'[q] = errand[q]
  BY Turning DEF Settle
<1> SUFFICES ASSUME NEW q \in PlanRequests \ spanning'
             PROVE  errand'[q].at \notin {"reserving", "room"}
  BY DEF Fits
<1>2. CASE q = r
  BY <1>1, <1>2 DEF Free, Errand
<1>3. CASE q # r
  BY <1>1, <1>3 DEF Settle, Stands
<1> QED BY <1>2, <1>3

-----------------------------------------------------------------------------
(* Types and families.                                                     *)

\* What the variables hold stays of its kind when one request takes its turn.
LEMMA TurnsKeepTypes ==
  ASSUME PlanTypeOK, NEW r \in PlanRequests, NEW e \in Errands, Turns(r, e)
  PROVE  errand' \in [PlanRequests -> Errands]
BY DEF PlanTypeOK, Turns

\* Nobody's errand, and one that is opened.
LEMMA ErrandsAreTyped ==
  /\ Free \in Errands
  /\ \A kind \in {"draft", "sample", "acme"}, p \in BOOLEAN :
       Errand("reserving", kind, p, {}, Unread) \in Errands
  /\ \A S \in SUBSET Ids :
       /\ Errand("versioning", "version", FALSE, S, Unread) \in Errands
       /\ Errand("deleting", "delete", FALSE, S, Unread) \in Errands
  /\ \A S \in SUBSET Ids, kind \in {"end", "pick", "upgrade"}, limbo \in BOOLEAN,
        pin \in {0} \cup Ids, A \in SUBSET Ids :
       Errand("settling", kind, FALSE, S, [limbo |-> limbo, pin |-> pin, asleep |-> A]) \in Errands
BY DEF Free, Errand, Errands, Unread

\* Rows stay rows when a flag is set.
LEMMA RowsAreTyped ==
  /\ Absent \in Row
  /\ \A root \in {0} \cup Ids, f \in {"none", "sample", "acme"} : Tree(root, f) \in Row
  /\ \A x \in Row :
       /\ x.root \in {0} \cup Ids /\ x.dormant \in BOOLEAN
       /\ \A b \in BOOLEAN : [x EXCEPT !.current = b] \in Row /\ [x EXCEPT !.dormant = b] \in Row
<1>1. Absent \in Row
  BY DEF Absent, Row, Fixtures
<1>2. \A root \in {0} \cup Ids, f \in {"none", "sample", "acme"} : Tree(root, f) \in Row
  BY DEF Tree, Row, Fixtures
<1>3. ASSUME NEW x \in Row, NEW b \in BOOLEAN
      PROVE  /\ x.root \in {0} \cup Ids /\ x.dormant \in BOOLEAN
             /\ [x EXCEPT !.current = b] \in Row
             /\ [x EXCEPT !.dormant = b] \in Row
  BY DEF Row
<1> QED BY <1>1, <1>2, <1>3

\* What becomes of the rows when a version is made: nothing, or the original is
\* current no more and the new row joins its family.
LEMMA VersionsMade ==
  ASSUME PlanTypeOK, NEW r \in PlanRequests, CreateVersion(r)
  PROVE  \/ UNCHANGED rows
         \/ \E t, n \in Ids :
              /\ rows[t].there /\ ~rows[n].there
              /\ rows' = [u \in Ids |-> IF u = n THEN Tree(rows[t].root, "none")
                                       ELSE IF u = t THEN [rows[t] EXCEPT !.current = FALSE]
                                       ELSE rows[u]]
<1>1. PICK t \in errand[r].saw :
        IF ~rows[t].there
        THEN UNCHANGED rows
        ELSE \E n \in Unused :
               rows' = [rows EXCEPT ![t].current = FALSE, ![n] = Tree(rows[t].root, "none")]
  BY DEF CreateVersion
<1>2. t \in Ids
  BY DEF PlanTypeOK, Errands
<1>3. CASE ~rows[t].there
  BY <1>1, <1>3
<1>4. CASE rows[t].there
  <2>1. PICK n \in Unused :
          rows' = [rows EXCEPT ![t].current = FALSE, ![n] = Tree(rows[t].root, "none")]
    BY <1>1, <1>4
  <2>2. n \in Ids /\ ~rows[n].there
    BY DEF Unused
  <2>3. rows = [u \in Ids |-> rows[u]]
    BY DEF PlanTypeOK
  <2>4. rows' = [u \in Ids |-> IF u = n THEN Tree(rows[t].root, "none")
                              ELSE IF u = t THEN [rows[t] EXCEPT !.current = FALSE]
                              ELSE rows[u]]
    BY <1>2, <2>1, <2>2, <2>3
  <2> QED BY <1>2, <1>4, <2>2, <2>4
<1> QED BY <1>3, <1>4

\* A change of the plan writes what it is to write or leaves what is there.
LEMMA FlagsAreTyped ==
  ASSUME PlanTypeOK, NEW r \in PlanRequests,
         NEW pro \in BOOLEAN, NEW limbo \in BOOLEAN, NEW pin \in {0} \cup Ids,
         Flags(r, pro, limbo, pin)
  PROVE  /\ account' \in [pro : BOOLEAN, limbo : BOOLEAN, pin : {0} \cup Ids]
         /\ account'.pro = pro
<1> DEFINE newLimbo == Changed(limbo, errand[r].read.limbo, account.limbo)
           newPin   == Changed(pin, errand[r].read.pin, account.pin)
<1>1. account.limbo \in BOOLEAN /\ account.pin \in {0} \cup Ids
  BY DEF PlanTypeOK
<1>2. newLimbo \in BOOLEAN /\ newPin \in {0} \cup Ids
  BY <1>1 DEF Changed
<1>3. account' = [pro |-> pro, limbo |-> newLimbo, pin |-> newPin]
  BY DEF Flags
<1> HIDE DEF newLimbo, newPin
<1> QED BY <1>2, <1>3

\* The trees that are put to sleep or woken, and nothing else of any tree.
LEMMA SleepersStay ==
  ASSUME PlanTypeOK, NEW r \in PlanRequests, NEW asleep, Sleeps(r, asleep)
  PROVE  /\ rows' \in [Ids -> Row]
         /\ \A t \in Ids :
              /\ rows'[t].there = rows[t].there /\ rows'[t].current = rows[t].current
              /\ rows'[t].root = rows[t].root
              /\ rows'[t].dormant = IF t \in Listed(r) /\ (t \in asleep) # (t \in errand[r].read.asleep)
                                    THEN t \in asleep ELSE rows[t].dormant
<1> DEFINE written == {t \in Listed(r) : (t \in asleep) # (t \in errand[r].read.asleep)}
<1>0. rows' = [t \in Ids |-> IF t \in written THEN [rows[t] EXCEPT !.dormant = t \in asleep]
                                             ELSE rows[t]]
  BY DEF Sleeps
<1>a. \A t : t \in written <=> t \in Listed(r) /\ (t \in asleep) # (t \in errand[r].read.asleep)
  OBVIOUS
<1> HIDE DEF written
<1>1. \A t \in Ids :
        rows'[t] = IF t \in written THEN [rows[t] EXCEPT !.dormant = t \in asleep] ELSE rows[t]
  BY <1>0
<1>2. \A t \in Ids : rows[t] \in Row
  BY DEF PlanTypeOK
<1>3. ASSUME NEW t \in Ids
      PROVE  [rows[t] EXCEPT !.dormant = t \in asleep] \in Row
  <2>1. \A b \in BOOLEAN : [rows[t] EXCEPT !.dormant = b] \in Row
    BY <1>2, RowsAreTyped
  <2>2. (t \in asleep) \in BOOLEAN
    OBVIOUS
  <2> QED BY <2>1, <2>2, Zenon
<1>4. rows' \in [Ids -> Row]
  <2>1. rows' = [t \in Ids |-> rows'[t]]
    BY <1>0
  <2>2. \A t \in Ids : rows'[t] \in Row
    BY <1>1, <1>2, <1>3
  <2> QED BY <2>1, <2>2
<1>5. ASSUME NEW t \in Ids
      PROVE  /\ rows'[t].there = rows[t].there /\ rows'[t].current = rows[t].current
             /\ rows'[t].root = rows[t].root
             /\ rows'[t].dormant = IF t \in written THEN t \in asleep ELSE rows[t].dormant
  <2>1. CASE t \in written
    <3>1. rows'[t] = [rows[t] EXCEPT !.dormant = t \in asleep] /\ rows[t] \in Row
      BY <1>1, <1>2, <2>1
    <3> QED BY <2>1, <3>1 DEF Row
  <2>2. CASE ~t \in written
    <3>1. rows'[t] = rows[t]
      BY <1>1, <2>2
    <3> QED BY <2>2, <3>1
  <2> QED BY <2>1, <2>2
<1> QED BY <1>a, <1>4, <1>5

\* Every step of a request, of the sample and of the plan keeps the types.
LEMMA StepKeepsTypes ==
  ASSUME PlanTypeOK, PlanNext
  PROVE  PlanTypeOK'
<1> PICK r \in PlanRequests :
      \/ BeginDraft(r) \/ BeginFixture(r) \/ ReserveSlot(r)
      \/ InsertDraft(r) \/ InsertFixture(r) \/ Restore(r)
      \/ OpenVersion(r) \/ CreateVersion(r) \/ OpenDeletion(r) \/ DeleteFamily(r)
      \/ OpenPlanChange(r) \/ EndPlan(r) \/ Pick(r) \/ Upgrade(r)
      \/ Abort(r)
  BY DEF PlanNext
<1> DEFINE Accounts == [pro : BOOLEAN, limbo : BOOLEAN, pin : {0} \cup Ids]
<1>a. /\ account \in Accounts /\ account.pro \in BOOLEAN
      /\ rows \in [Ids -> Row] /\ \A t \in Ids : rows[t] \in Row
      /\ errand[r] \in Errands
  BY DEF PlanTypeOK
<1>b. \A t \in Ids, x \in Row : [rows EXCEPT ![t] = x] \in [Ids -> Row]
  BY <1>a
<1>c. ASSUME NEW e \in Errands, Turns(r, e), account' \in Accounts, rows' \in [Ids -> Row]
      PROVE  PlanTypeOK'
  BY <1>c, TurnsKeepTypes DEF PlanTypeOK
<1>1. CASE BeginDraft(r)
  BY <1>1, <1>a, <1>c, ErrandsAreTyped DEF BeginDraft, Starts
<1>2. CASE BeginFixture(r)
  BY <1>2, <1>a, <1>c, ErrandsAreTyped DEF BeginFixture, Starts, Fixtures
<1>3. CASE ReserveSlot(r)
  <2>1. \A at \in {"room", "full"} : [errand[r] EXCEPT !.at = at] \in Errands
    BY <1>a DEF Errands
  <2> QED BY <1>3, <1>a, <1>c, <2>1 DEF ReserveSlot, Step
<1>4. ASSUME NEW f \in {"none", "sample", "acme"}, Add(r, f), Finish(r), UNCHANGED account
      PROVE  PlanTypeOK'
  <2>1. rows' \in [Ids -> Row]
    <3>1. CASE UNCHANGED rows
      BY <1>a, <3>1
    <3>2. CASE \E t \in Unused : rows' = [rows EXCEPT ![t] = Tree(t, f)]
      <4>1. PICK t \in Ids : rows' = [rows EXCEPT ![t] = Tree(t, f)]
        BY <3>2 DEF Unused
      <4>2. Tree(t, f) \in Row
        BY RowsAreTyped
      <4> QED BY <1>b, <4>1, <4>2
    <3> QED BY <1>4, <3>1, <3>2 DEF Add
  <2> QED BY <1>4, <1>a, <1>c, <2>1, ErrandsAreTyped DEF Finish
<1>5. CASE InsertDraft(r)
  BY <1>4, <1>5 DEF InsertDraft
<1>6. CASE InsertFixture(r)
  BY <1>4, <1>6 DEF InsertFixture, Fixtures
<1>7. CASE Restore(r)
  <2>1. \A t \in Ids : [rows[t] EXCEPT !.current = TRUE] \in Row
    BY <1>a, RowsAreTyped
  <2>2. rows' \in [Ids -> Row]
    <3>1. CASE UNCHANGED rows
      BY <1>a, <3>1
    <3>2. CASE \E t \in Ids : rows' = [rows EXCEPT ![t].current = TRUE]
      BY <1>b, <2>1, <3>2
    <3> QED BY <1>7, <3>1, <3>2 DEF Restore, Fixture
  <2> QED BY <1>7, <1>a, <1>c, <2>2, ErrandsAreTyped DEF Restore, Finish
<1>8. CASE OpenVersion(r)
  BY <1>8, <1>a, <1>c, ErrandsAreTyped DEF OpenVersion, Starts
<1>9. CASE CreateVersion(r)
  <2>1. \A t \in Ids : [rows[t] EXCEPT !.current = FALSE] \in Row
    BY <1>a, RowsAreTyped
  <2>2. \A t \in Ids : Tree(rows[t].root, "none") \in Row
    BY <1>a, RowsAreTyped
  <2>3. rows' \in [Ids -> Row]
    <3>1. CASE rows' = rows
      BY <1>a, <3>1
    <3>2. CASE rows' # rows
      <4>1. PICK t \in Ids, n \in Ids :
              rows' = [u \in Ids |-> IF u = n THEN Tree(rows[t].root, "none")
                                    ELSE IF u = t THEN [rows[t] EXCEPT !.current = FALSE]
                                    ELSE rows[u]]
        BY <1>9, <3>2, VersionsMade
      <4> QED BY <1>a, <2>1, <2>2, <4>1
    <3> QED BY <3>1, <3>2
  <2> QED BY <1>9, <1>a, <1>c, <2>3, ErrandsAreTyped DEF CreateVersion, Finish
<1>10. CASE OpenDeletion(r)
  BY <1>10, <1>a, <1>c, ErrandsAreTyped DEF OpenDeletion, Starts, Family
<1>11. CASE DeleteFamily(r)
  <2>1. rows' \in [Ids -> Row]
    <3>1. CASE UNCHANGED rows
      BY <1>a, <3>1
    <3>2. CASE rows' = [t \in Ids |-> IF t \in errand[r].saw THEN Absent ELSE rows[t]]
      BY <1>a, <3>2, RowsAreTyped
    <3> QED BY <1>11, <3>1, <3>2 DEF DeleteFamily
  <2>2. account' \in Accounts
    BY <1>11, <1>a DEF DeleteFamily
  <2> QED BY <1>11, <1>c, <2>1, <2>2, ErrandsAreTyped DEF DeleteFamily, Finish
<1>12. CASE OpenPlanChange(r)
  <2>1. account.limbo \in BOOLEAN /\ account.pin \in {0} \cup Ids
    BY <1>a
  <2>2. Roots \in SUBSET Ids /\ Roots \ OpenRoots \in SUBSET Ids
    BY DEF Roots
  <2> QED BY <1>12, <1>a, <1>c, <2>1, <2>2, ErrandsAreTyped DEF OpenPlanChange, Starts
<1>13. Listed(r) \in SUBSET Ids
  BY <1>a DEF Listed, Errands
<1>14. ASSUME NEW pro \in BOOLEAN, NEW limbo \in BOOLEAN, NEW pin \in {0} \cup Ids,
              Flags(r, pro, limbo, pin), rows' \in [Ids -> Row], Settle(r)
       PROVE  PlanTypeOK'
  <2>1. account' \in Accounts
    BY <1>14, FlagsAreTyped
  <2> QED BY <1>14, <1>c, <2>1, ErrandsAreTyped DEF Settle
<1>15. CASE EndPlan(r)
  <2>1. PICK limbo \in BOOLEAN, pin \in {0} \cup Ids : Flags(r, FALSE, limbo, pin)
    BY <1>13, <1>15 DEF EndPlan
  <2>2. rows' \in [Ids -> Row]
    BY <1>15, <1>a, SleepersStay DEF EndPlan
  <2> QED BY <1>14, <1>15, <2>1, <2>2 DEF EndPlan
<1>16. CASE Pick(r)
  <2>1. PICK pin \in {0} \cup Ids : Flags(r, account.pro, FALSE, pin)
    BY <1>13, <1>16 DEF Pick
  <2>2. rows' \in [Ids -> Row]
    BY <1>16, SleepersStay DEF Pick
  <2> QED BY <1>14, <1>16, <1>a, <2>1, <2>2 DEF Pick
<1>17. CASE Upgrade(r)
  <2>1. \A t \in Ids : [rows[t] EXCEPT !.dormant = FALSE] \in Row
    BY <1>a, RowsAreTyped
  <2>2. rows' \in [Ids -> Row]
    BY <1>17, <2>1 DEF Upgrade
  <2> QED BY <1>14, <1>17, <2>2 DEF Upgrade
<1>18. CASE Abort(r)
  BY <1>18, <1>a, <1>c, ErrandsAreTyped DEF Abort, Finish
<1> QED BY <1>1, <1>2, <1>3, <1>5, <1>6, <1>7, <1>8, <1>9, <1>10, <1>11, <1>12,
           <1>15, <1>16, <1>17, <1>18
-----------------------------------------------------------------------------
(* What a step does to the rows.                                           *)

\* A row that stays what it was keeps its family's first version.
LEMMA SameFamilies ==
  ASSUME RootsStand, PlanTypeOK,
         \A t \in Ids : rows'[t].there = rows[t].there /\ rows'[t].root = rows[t].root
  PROVE  RootsStand'
BY DEF RootsStand

\* Only what has become a counted row comes into the count.
LEMMA CountGrowsBy ==
  ASSUME NEW X,
         \A t \in Ids \ X :
           rows'[t].there /\ rows'[t].current /\ rows'[t].root = t =>
             /\ rows[t].there /\ rows[t].current /\ rows[t].root = t
             /\ rows'[t].dormant = rows[t].dormant
  PROVE  \A p \in BOOLEAN : Counted(p)' \subseteq Counted(p) \cup X
<1>1. Roots' \subseteq Roots \cup X
  BY DEF Roots
<1>2. OpenRoots' \subseteq OpenRoots \cup X
  <2> SUFFICES ASSUME NEW t \in Ids, t \in Roots', ~rows'[t].dormant, t \notin X
               PROVE  t \in OpenRoots
    BY DEF OpenRoots, Roots
  <2> QED BY <1>1 DEF OpenRoots, Roots
<1> QED BY <1>1, <1>2 DEF Counted

\* What becomes of the rows when a tree is added: nothing, or a new row is the
\* first of its family; where the request has been overtaken, beside the count.
LEMMA TreesAdded ==
  ASSUME PlanTypeOK, NEW r \in PlanRequests, NEW f, Add(r, f)
  PROVE  \/ UNCHANGED <<rows, beside>>
         \/ \E t \in Ids :
              /\ ~Stands(r, "full") /\ ~rows[t].there
              /\ rows' = [u \in Ids |-> IF u = t THEN Tree(t, f) ELSE rows[u]]
              /\ beside' = IF r \in spanning THEN beside \cup {t} ELSE beside
<1>1. CASE Stands(r, "full")
  BY <1>1 DEF Add
<1>2. CASE ~Stands(r, "full")
  <2>1. PICK t \in Unused : /\ rows' = [rows EXCEPT ![t] = Tree(t, f)]
                            /\ beside' = IF Overtaken(r) THEN beside \cup {t} ELSE beside
    BY <1>2 DEF Add
  <2>2. t \in Ids /\ ~rows[t].there
    BY DEF Unused
  <2>3. rows = [u \in Ids |-> rows[u]]
    BY DEF PlanTypeOK
  <2>4. rows' = [u \in Ids |-> IF u = t THEN Tree(t, f) ELSE rows[u]]
    BY <2>1, <2>2, <2>3
  <2> QED BY <1>2, <2>1, <2>2, <2>4 DEF Overtaken
<1> QED BY <1>1, <1>2

\* What becomes of them when a fixture is restored: nothing, or one row is
\* current again; beside the count but for the ACME example that has found room.
LEMMA FixturesRestored ==
  ASSUME PlanTypeOK, CalledFor, NEW r \in PlanRequests, Restore(r)
  PROVE  \/ UNCHANGED <<rows, beside>>
         \/ \E t \in Ids :
              /\ rows[t].there
              /\ rows' = [u \in Ids |-> IF u = t THEN [rows[t] EXCEPT !.current = TRUE] ELSE rows[u]]
              /\ \/ rows[t].current /\ beside' = beside
                 \/ beside' = beside \cup {t}
                 \/ ~Stands(r, "full") /\ r \notin spanning /\ beside' = beside
<1>1. PICK t \in Fixture(errand[r].kind) :
        IF errand[r].kind = "acme" /\ ~rows[t].current /\ Stands(r, "full")
        THEN UNCHANGED <<rows, beside>>
        ELSE /\ rows' = [rows EXCEPT ![t].current = TRUE]
             /\ beside' = IF ~rows[t].current /\ (errand[r].kind = "sample" \/ Overtaken(r))
                          THEN beside \cup {t} ELSE beside
  BY DEF Restore
<1>2. t \in Ids /\ rows[t].there
  BY DEF Fixture
<1>3. errand[r].kind = "acme" \/ errand[r].kind = "sample"
  <2>1. rows[t] \in Row /\ rows[t].fixture = errand[r].kind
    BY <1>2 DEF Fixture, PlanTypeOK
  <2>2. rows[t].fixture \in {"none", "sample", "acme"}
    BY <2>1 DEF Row, Fixtures
  <2>3. errand[r].kind \in {"draft", "sample", "acme"}
    BY DEF Restore, Holds, CalledFor
  <2> QED BY <2>1, <2>2, <2>3
<1>4. CASE UNCHANGED <<rows, beside>>
  BY <1>4
<1>5. CASE ~UNCHANGED <<rows, beside>>
  <2>1. rows' = [rows EXCEPT ![t].current = TRUE]
    BY <1>1, <1>5
  <2>2. rows = [u \in Ids |-> rows[u]]
    BY DEF PlanTypeOK
  <2>3. rows' = [u \in Ids |-> IF u = t THEN [rows[t] EXCEPT !.current = TRUE] ELSE rows[u]]
    BY <1>2, <2>1, <2>2
  <2> QED BY <1>1, <1>2, <1>3, <1>5, <2>3 DEF Overtaken
<1> QED BY <1>4, <1>5

\* What becomes of them when a family is deleted: nothing, or the rows go and
\* no row of their families is left.
LEMMA FamiliesDeleted ==
  ASSUME PlanTypeOK, NEW r \in PlanRequests, DeleteFamily(r)
  PROVE  \/ UNCHANGED <<account, rows, beside>>
         \/ \E family \in SUBSET Ids :
              /\ rows' = [t \in Ids |-> IF t \in family THEN Absent ELSE rows[t]]
              /\ \A u \in Ids \ family, t \in family : rows[u].there => rows[u].root # rows[t].root
              /\ account'.pro = account.pro /\ account'.limbo = account.limbo
              /\ beside' = beside \ family
<1> DEFINE family == errand[r].saw
<1>1. family \in SUBSET Ids
  BY DEF PlanTypeOK, Errands
<1>2. CASE UNCHANGED <<account, rows, beside>>
  BY <1>2
<1>3. CASE ~UNCHANGED <<account, rows, beside>>
  <2>1. /\ ~\E u \in Ids \ family : rows[u].there /\ rows[u].root \in {rows[t].root : t \in family}
        /\ rows' = [t \in Ids |-> IF t \in family THEN Absent ELSE rows[t]]
        /\ account' = [account EXCEPT !.pin = IF @ \in family THEN 0 ELSE @]
        /\ beside' = beside \ family
    BY <1>3 DEF DeleteFamily
  <2>2. account'.pro = account.pro /\ account'.limbo = account.limbo
    BY <2>1 DEF PlanTypeOK
  <2>3. \A u \in Ids \ family, t \in family : rows[u].there => rows[u].root # rows[t].root
    BY <2>1
  <2> QED BY <1>1, <2>1, <2>2, <2>3
<1> QED BY <1>2, <1>3

\* The first versions of all families stay, or go with them.
LEMMA StepKeepsFamilies ==
  ASSUME PlanTypeOK, CalledFor, RootsStand, PlanNext
  PROVE  RootsStand'
<1> PICK r \in PlanRequests :
      \/ BeginDraft(r) \/ BeginFixture(r) \/ ReserveSlot(r)
      \/ InsertDraft(r) \/ InsertFixture(r) \/ Restore(r)
      \/ OpenVersion(r) \/ CreateVersion(r) \/ OpenDeletion(r) \/ DeleteFamily(r)
      \/ OpenPlanChange(r) \/ EndPlan(r) \/ Pick(r) \/ Upgrade(r)
      \/ Abort(r)
  BY DEF PlanNext
<1>1. CASE UNCHANGED rows
  BY <1>1, SameFamilies
<1>2. ASSUME NEW f, Add(r, f)
      PROVE  RootsStand'
  <2>1. CASE UNCHANGED rows
    BY <1>1, <2>1
  <2>2. CASE ~UNCHANGED rows
    <3>1. PICK t \in Ids : /\ ~rows[t].there
                           /\ rows' = [u \in Ids |-> IF u = t THEN Tree(t, f) ELSE rows[u]]
      BY <1>2, <2>2, TreesAdded
    <3>2. rows'[t].there /\ rows'[t].root = t
      BY <3>1 DEF Tree
    <3>3. \A u \in Ids \ {t} : rows'[u] = rows[u]
      BY <3>1
    <3> QED BY <3>1, <3>2, <3>3 DEF RootsStand
  <2> QED BY <2>1, <2>2
<1>3. CASE Restore(r)
  <2>1. CASE UNCHANGED rows
    BY <1>1, <2>1
  <2>2. CASE ~UNCHANGED rows
    <3>1. PICK t \in Ids :
            rows' = [u \in Ids |-> IF u = t THEN [rows[t] EXCEPT !.current = TRUE] ELSE rows[u]]
      BY <1>3, <2>2, FixturesRestored
    <3>2. rows[t] \in Row
      BY DEF PlanTypeOK
    <3>3. \A u \in Ids : rows'[u].there = rows[u].there /\ rows'[u].root = rows[u].root
      BY <3>1, <3>2 DEF Row
    <3> QED BY <3>3, SameFamilies
  <2> QED BY <2>1, <2>2
<1>4. CASE CreateVersion(r)
  <2>1. CASE UNCHANGED rows
    BY <1>1, <2>1
  <2>2. CASE ~UNCHANGED rows
    <3>1. PICK t \in Ids, n \in Ids :
            /\ rows[t].there /\ ~rows[n].there
            /\ rows' = [u \in Ids |-> IF u = n THEN Tree(rows[t].root, "none")
                                    ELSE IF u = t THEN [rows[t] EXCEPT !.current = FALSE]
                                    ELSE rows[u]]
      BY <1>4, <2>2, VersionsMade
    <3>2. rows[t] \in Row
      BY DEF PlanTypeOK
    <3>3. \A u \in Ids \ {n} : rows'[u].there = rows[u].there /\ rows'[u].root = rows[u].root
      BY <3>1, <3>2 DEF Row
    <3>4. rows'[n].there /\ rows'[n].root = rows[t].root
      BY <3>1 DEF Tree
    <3>5. rows[t].root \in Ids \ {n} /\ rows[rows[t].root].there
          /\ rows[rows[t].root].root = rows[t].root
      BY <3>1 DEF RootsStand
    <3>6. ASSUME NEW u \in Ids, rows'[u].there
          PROVE  /\ rows'[u].root \in Ids
                 /\ rows'[rows'[u].root].there /\ rows'[rows'[u].root].root = rows'[u].root
      <4>1. CASE u = n
        BY <3>3, <3>4, <3>5, <4>1
      <4>2. CASE u # n
        BY <3>1, <3>3, <3>6, <4>2 DEF RootsStand
      <4> QED BY <4>1, <4>2
    <3> QED BY <3>6 DEF RootsStand
  <2> QED BY <2>1, <2>2
<1>5. CASE DeleteFamily(r)
  <2>1. CASE UNCHANGED rows
    BY <1>1, <2>1
  <2>2. CASE ~UNCHANGED rows
    <3>1. PICK family \in SUBSET Ids :
            /\ rows' = [t \in Ids |-> IF t \in family THEN Absent ELSE rows[t]]
            /\ \A u \in Ids \ family, t \in family : rows[u].there => rows[u].root # rows[t].root
      BY <1>5, <2>2, FamiliesDeleted
    <3>2. \A u \in family : ~rows'[u].there
      BY <3>1 DEF Absent
    <3>3. \A u \in Ids \ family : rows'[u] = rows[u]
      BY <3>1
    <3> QED BY <3>1, <3>2, <3>3 DEF RootsStand
  <2> QED BY <2>1, <2>2
<1>6. CASE Pick(r) \/ (EndPlan(r) /\ ~UNCHANGED rows)
  <2>1. PICK asleep : Sleeps(r, asleep)
    BY <1>6, Zenon DEF Pick, EndPlan
  <2>2. \A t \in Ids : rows'[t].there = rows[t].there /\ rows'[t].root = rows[t].root
    BY <2>1, SleepersStay
  <2> QED BY <2>2, SameFamilies
<1>7. CASE Upgrade(r)
  <2>1. \A t \in Ids : rows'[t].there = rows[t].there /\ rows'[t].root = rows[t].root
    BY <1>7 DEF Upgrade, PlanTypeOK, Row
  <2> QED BY <2>1, SameFamilies
<1> QED BY <1>1, <1>2, <1>3, <1>4, <1>5, <1>6, <1>7
        DEF BeginDraft, BeginFixture, ReserveSlot, InsertDraft, InsertFixture, OpenVersion,
            OpenDeletion, OpenPlanChange, EndPlan, Abort, Starts
-----------------------------------------------------------------------------
(* The step.                                                               *)

\* The slot stays with one request.
LEMMA StepKeepsTurns ==
  ASSUME PlanTypeOK, OneAtATime, CalledFor, PlanNext
  PROVE  OneAtATime' /\ CalledFor'
<1> PICK r \in PlanRequests :
      \/ BeginDraft(r) \/ BeginFixture(r) \/ ReserveSlot(r)
      \/ InsertDraft(r) \/ InsertFixture(r) \/ Restore(r)
      \/ OpenVersion(r) \/ CreateVersion(r) \/ OpenDeletion(r) \/ DeleteFamily(r)
      \/ OpenPlanChange(r) \/ EndPlan(r) \/ Pick(r) \/ Upgrade(r)
      \/ Abort(r)
  BY DEF PlanNext
<1>a. ASSUME Turns(r, Free)
      PROVE  OneAtATime' /\ CalledFor'
  BY <1>a, TurnsStayApart DEF Free, Errand
<1>b. ASSUME NEW at \in {"versioning", "deleting", "settling"}, NEW kind, NEW S, NEW read,
             Turns(r, Errand(at, kind, FALSE, S, read))
      PROVE  OneAtATime' /\ CalledFor'
  BY <1>b, TurnsStayApart DEF Errand
<1>c. ASSUME NEW kind \in {"draft", "sample", "acme"},
             Turns(r, Errand("reserving", kind, account.pro, {}, Unread))
      PROVE  OneAtATime' /\ CalledFor'
  BY <1>c, TurnsStayApart DEF Errand
<1>1. CASE BeginDraft(r) \/ BeginFixture(r)
  BY <1>1, <1>c DEF BeginDraft, BeginFixture, Fixtures, Starts
<1>2. CASE ReserveSlot(r)
  <2>1. PICK at \in {"room", "full"} : Turns(r, [errand[r] EXCEPT !.at = at])
    BY <1>2 DEF ReserveSlot, Step
  <2> DEFINE e == [errand[r] EXCEPT !.at = at]
  <2>2. errand[r] \in Errands
    BY DEF PlanTypeOK
  <2>3. e.at = at /\ e.kind = errand[r].kind
    BY <2>2 DEF Errands
  <2>4. e.kind \in {"draft", "sample", "acme"}
    BY <1>2, <2>3 DEF ReserveSlot, Stands, CalledFor
  <2>5. \A q \in PlanRequests : ~Holds(q)
    BY <1>2 DEF ReserveSlot
  <2>6. Turns(r, e)
    BY <2>1
  <2> HIDE DEF e
  <2> QED BY <2>3, <2>4, <2>5, <2>6, TurnsStayApart
<1>3. CASE InsertDraft(r) \/ InsertFixture(r) \/ Restore(r) \/ CreateVersion(r) \/ Abort(r)
        \/ DeleteFamily(r)
  BY <1>3, <1>a DEF InsertDraft, InsertFixture, Restore, CreateVersion, Abort, DeleteFamily, Finish
<1>4. CASE OpenVersion(r)
  BY <1>4, <1>b DEF OpenVersion, Starts
<1>5. CASE OpenDeletion(r)
  BY <1>5, <1>b DEF OpenDeletion, Starts
<1>6. CASE OpenPlanChange(r)
  BY <1>6, <1>b DEF OpenPlanChange, Starts
<1>7. CASE EndPlan(r) \/ Pick(r) \/ Upgrade(r)
  BY <1>7, <1>a DEF EndPlan, Pick, Upgrade, Settle
<1> QED BY <1>1, <1>2, <1>3, <1>4, <1>5, <1>6, <1>7

\* Where the rows stay, so does the count.
LEMMA SameCount ==
  ASSUME UNCHANGED <<rows, beside>>
  PROVE  \A p \in BOOLEAN : (Counted(p) \ beside)' \subseteq Counted(p) \ beside
BY DEF Counted, OpenRoots, Roots

\* Adding and restoring: by the holder of the slot, who has found room or adds
\* beside the count.
LEMMA MadeTreesFit ==
  ASSUME PInv, PlanTypeOK', NEW r \in PlanRequests, Holds(r), Finish(r), UNCHANGED account,
         \/ \A p \in BOOLEAN : (Counted(p) \ beside)' \subseteq Counted(p) \ beside
         \/ /\ ~Stands(r, "full") /\ r \notin spanning
            /\ \E t \in Ids : \A p \in BOOLEAN :
                 (Counted(p) \ beside)' \subseteq (Counted(p) \ beside) \cup {t}
  PROVE  Fits' /\ FitsInLimbo' /\ InventoryWithinPlan'
<1>1. CASE \A p \in BOOLEAN : (Counted(p) \ beside)' \subseteq Counted(p) \ beside
  <2>1. Free.at = "idle"
    BY DEF Free, Errand
  <2> QED BY <1>1, <2>1, NothingAdded DEF Finish
<1>2. ASSUME ~Stands(r, "full"), r \notin spanning,
             NEW t \in Ids,
             \A p \in BOOLEAN : (Counted(p) \ beside)' \subseteq (Counted(p) \ beside) \cup {t}
      PROVE  Fits' /\ FitsInLimbo' /\ InventoryWithinPlan'
  <2>1. Stands(r, "room")
    BY <1>2 DEF Holds, Stands
  <2> QED BY <1>2, <2>1, OneAdded
<1> QED BY <1>1, <1>2
\* What a tree's addition puts into the count.
LEMMA AdditionsFit ==
  ASSUME PInv, PlanTypeOK', NEW r \in PlanRequests, Holds(r), Finish(r), UNCHANGED account,
         NEW f, Add(r, f)
  PROVE  Fits' /\ FitsInLimbo' /\ InventoryWithinPlan'
<1>1. CASE UNCHANGED <<rows, beside>>
  BY <1>1, SameCount, MadeTreesFit
<1>2. CASE ~UNCHANGED <<rows, beside>>
  <2>1. PICK t \in Ids :
          /\ ~Stands(r, "full") /\ ~rows[t].there
          /\ rows' = [u \in Ids |-> IF u = t THEN Tree(t, f) ELSE rows[u]]
          /\ beside' = IF r \in spanning THEN beside \cup {t} ELSE beside
    BY <1>2, TreesAdded DEF PInv
  <2>2. \A p \in BOOLEAN : Counted(p)' \subseteq Counted(p) \cup {t}
    <3>1. \A u \in Ids \ {t} : rows'[u] = rows[u]
      BY <2>1
    <3> QED BY <3>1, CountGrowsBy
  <2>3. CASE r \in spanning
    <3>1. \A p \in BOOLEAN : (Counted(p) \ beside)' \subseteq Counted(p) \ beside
      BY <2>1, <2>2, <2>3
    <3> QED BY <3>1, MadeTreesFit
  <2>4. CASE r \notin spanning
    <3>1. \A p \in BOOLEAN : (Counted(p) \ beside)' \subseteq (Counted(p) \ beside) \cup {t}
      BY <2>1, <2>2, <2>4
    <3> QED BY <2>1, <2>4, <3>1, MadeTreesFit
  <2> QED BY <2>3, <2>4
<1> QED BY <1>1, <1>2

\* What the restoration of a fixture does.
LEMMA RestorationsFit ==
  ASSUME PInv, PlanTypeOK', NEW r \in PlanRequests, Restore(r)
  PROVE  Fits' /\ FitsInLimbo' /\ InventoryWithinPlan'
<1>1. Holds(r) /\ Finish(r) /\ UNCHANGED account
  BY DEF Restore
<1>2. CASE UNCHANGED <<rows, beside>>
  BY <1>1, <1>2, SameCount, MadeTreesFit
<1>3. CASE ~UNCHANGED <<rows, beside>>
  <2>1. PICK t \in Ids :
          /\ rows[t].there
          /\ rows' = [u \in Ids |-> IF u = t THEN [rows[t] EXCEPT !.current = TRUE] ELSE rows[u]]
          /\ \/ rows[t].current /\ beside' = beside
             \/ beside' = beside \cup {t}
             \/ ~Stands(r, "full") /\ r \notin spanning /\ beside' = beside
    BY <1>3, FixturesRestored DEF PInv
  <2>2. \A u \in Ids \ {t} : rows'[u] = rows[u]
    BY <2>1
  <2>3. \A p \in BOOLEAN : Counted(p)' \subseteq Counted(p) \cup {t}
    BY <2>2, CountGrowsBy
  <2>4. CASE rows[t].current /\ beside' = beside
    <3>1. rows'[t] = rows[t]
      BY <2>1, <2>4 DEF PInv, PlanTypeOK, Row
    <3>2. \A p \in BOOLEAN : Counted(p)' \subseteq Counted(p) \cup {}
      BY <2>2, <3>1, CountGrowsBy
    <3>3. \A p \in BOOLEAN : (Counted(p) \ beside)' \subseteq Counted(p) \ beside
      BY <2>4, <3>2
    <3> QED BY <1>1, <3>3, MadeTreesFit
  <2>5. CASE beside' = beside \cup {t}
    <3>1. \A p \in BOOLEAN : (Counted(p) \ beside)' \subseteq Counted(p) \ beside
      BY <2>3, <2>5
    <3> QED BY <1>1, <3>1, MadeTreesFit
  <2>6. CASE ~Stands(r, "full") /\ r \notin spanning /\ beside' = beside
    <3>1. \A p \in BOOLEAN : (Counted(p) \ beside)' \subseteq (Counted(p) \ beside) \cup {t}
      BY <2>3, <2>6
    <3> QED BY <1>1, <2>6, <3>1, MadeTreesFit
  <2> QED BY <2>1, <2>4, <2>5, <2>6
<1> QED BY <1>2, <1>3

\* A version takes its original out of the count, and is not the first of its
\* family; a deletion takes its trees out.
LEMMA VersionsAndDeletionsFit ==
  ASSUME PInv, PlanTypeOK', NEW r \in PlanRequests, CreateVersion(r) \/ DeleteFamily(r)
  PROVE  Fits' /\ FitsInLimbo' /\ InventoryWithinPlan'
<1>1. Finish(r) /\ Free.at = "idle"
  BY DEF CreateVersion, DeleteFamily, Free, Errand
<1>2. ASSUME account'.pro = account.pro, account'.limbo = account.limbo,
             \A p \in BOOLEAN : (Counted(p) \ beside)' \subseteq Counted(p) \ beside
      PROVE  Fits' /\ FitsInLimbo' /\ InventoryWithinPlan'
  BY <1>1, <1>2, NothingAdded DEF Finish
<1>3. CASE UNCHANGED <<account, rows, beside>>
  BY <1>2, <1>3, SameCount
<1>4. CASE CreateVersion(r) /\ ~UNCHANGED rows
  <2>1. PICK t \in Ids, n \in Ids :
          /\ rows[t].there /\ ~rows[n].there
          /\ rows' = [u \in Ids |-> IF u = n THEN Tree(rows[t].root, "none")
                                  ELSE IF u = t THEN [rows[t] EXCEPT !.current = FALSE]
                                  ELSE rows[u]]
    BY <1>4, VersionsMade DEF PInv
  <2>2. rows'[n].root = rows[t].root /\ rows[t].root # n
    BY <2>1 DEF Tree, PInv, RootsStand
  <2>3. rows[t] \in Row /\ t # n
    BY <2>1 DEF PInv, PlanTypeOK
  <2>4. rows'[t].current = FALSE
    BY <2>1, <2>3 DEF Row
  <2>5. \A u \in Ids \ {t, n} : rows'[u] = rows[u]
    BY <2>1
  <2>6. \A p \in BOOLEAN : Counted(p)' \subseteq Counted(p) \cup {}
    BY <2>2, <2>4, <2>5, CountGrowsBy
  <2>7. UNCHANGED <<account, beside>>
    BY <1>4 DEF CreateVersion
  <2> QED BY <1>2, <2>6, <2>7
<1>5. CASE DeleteFamily(r) /\ ~UNCHANGED <<account, rows, beside>>
  <2>1. PICK family \in SUBSET Ids :
          /\ rows' = [t \in Ids |-> IF t \in family THEN Absent ELSE rows[t]]
          /\ account'.pro = account.pro /\ account'.limbo = account.limbo
          /\ beside' = beside \ family
    BY <1>5, FamiliesDeleted DEF PInv
  <2>2. \A u \in family : ~rows'[u].there
    BY <2>1 DEF Absent
  <2>3. \A u \in Ids \ family : rows'[u] = rows[u]
    BY <2>1
  <2>4. \A p \in BOOLEAN : Counted(p)' \subseteq Counted(p) \cup {}
    BY <2>2, <2>3, CountGrowsBy
  <2>5. \A p \in BOOLEAN : Counted(p)' \cap family = {}
    BY <2>2 DEF Counted, OpenRoots, Roots
  <2>6. \A p \in BOOLEAN : (Counted(p) \ beside)' \subseteq Counted(p) \ beside
    BY <2>1, <2>4, <2>5
  <2> QED BY <1>2, <2>1, <2>6
<1> QED BY <1>3, <1>4, <1>5 DEF CreateVersion
\* The plan ends, a choice is made, the plan is taken up again: what then counts
\* was counted before or has been listed.
LEMMA PlanChangesFit ==
  ASSUME PInv, PlanTypeOK', NEW r \in PlanRequests, EndPlan(r) \/ Pick(r) \/ Upgrade(r)
  PROVE  Fits' /\ FitsInLimbo' /\ InventoryWithinPlan'
<1>1. Fits'
  BY AllOvertaken DEF PInv, EndPlan, Pick, Upgrade
<1>2. Listed(r) \in SUBSET Ids /\ OpenRoots \subseteq Roots /\ Roots \in SUBSET Ids
  BY CountedAreTrees DEF PInv, PlanTypeOK, Errands, Listed
<1>3. ASSUME NEW S \in SUBSET Ids, NEW n \in Nat, Cardinality(S) <= n,
             NEW R \in SUBSET S
      PROVE  Cardinality(R) <= n
  BY <1>3, PartsAreSmaller
<1>4. FreeTrees \in Nat /\ ProTrees \in Nat /\ FreeTrees <= ProTrees
  BY PlanAssumption
<1>5. account.pro \in BOOLEAN /\ account'.pro \in BOOLEAN /\ account.limbo \in BOOLEAN
  BY DEF PInv, PlanTypeOK
<1>6. \A p \in BOOLEAN : Cap(p) \in Nat /\ Cap(p) <= ProTrees
  BY <1>4 DEF Cap
<1>7. /\ Counted(account.pro) \ beside \in SUBSET Ids
      /\ Cardinality(Counted(account.pro) \ beside) <= ProTrees
  <2>1. Counted(account.pro) \ beside \in SUBSET Ids
    BY <1>2 DEF Counted
  <2>2. Cardinality(Counted(account.pro) \ beside) \in Nat
    BY <2>1, PartsAreSmaller
  <2>3. CASE account.limbo
    BY <2>1, <2>3 DEF PInv, FitsInLimbo
  <2>4. CASE ~account.limbo
    <3>1. Cardinality(Counted(account.pro) \ beside) <= Cap(account.pro)
      BY <2>4 DEF PInv, InventoryWithinPlan
    <3> QED BY <1>4, <1>5, <1>6, <2>1, <2>2, <3>1
  <2> QED BY <2>3, <2>4
<1>8. OpenRoots \ beside \in SUBSET Ids /\ Cardinality(OpenRoots \ beside) <= ProTrees
  <2>1. OpenRoots \ beside \in SUBSET (Counted(account.pro) \ beside)
    BY <1>2 DEF Counted
  <2> QED BY <1>2, <1>3, <1>4, <1>7, <2>1
<1>9. ASSUME NEW S \in SUBSET Ids, (Counted(account.pro) \ beside)' \subseteq S,
             \/ Cardinality(S) <= Cap(account'.pro)
             \/ account'.limbo /\ Cardinality(S) <= ProTrees
      PROVE  FitsInLimbo' /\ InventoryWithinPlan'
  <2> DEFINE after == (Counted(account.pro) \ beside)'
             cap   == Cap(account'.pro)
  <2>1. after \in SUBSET S /\ cap \in Nat /\ cap <= ProTrees
    BY <1>5, <1>6, <1>9
  <2>2. cap = Cap(account.pro)'
    BY DEF Cap
  <2> HIDE DEF after, cap
  <2>3. /\ Cardinality(S) \in Nat /\ Cardinality(after) \in Nat
        /\ Cardinality(after) <= Cardinality(S)
    BY <2>1, PartsAreSmaller
  <2>4. Cardinality(after) <= cap \/ (account'.limbo /\ Cardinality(after) <= ProTrees)
    BY <1>4, <1>9, <2>1, <2>3 DEF cap
  <2>5. Cardinality(after) <= ProTrees
    BY <1>4, <2>1, <2>3, <2>4
  <2> QED BY <2>2, <2>4, <2>5 DEF FitsInLimbo, InventoryWithinPlan, after
<1>10. ASSUME NEW S \in SUBSET Ids, Cardinality(S) <= FreeTrees, ~account'.pro,
              (OpenRoots \ beside)' \subseteq S
       PROVE  FitsInLimbo' /\ InventoryWithinPlan'
  <2>1. (Counted(account.pro) \ beside)' \subseteq S /\ Cap(account'.pro) = FreeTrees
    BY <1>10 DEF Counted, Cap
  <2> QED BY <1>9, <1>10, <2>1
<1>11. CASE EndPlan(r) /\ Cardinality(Listed(r)) > FreeTrees
  <2>1. /\ Flags(r, FALSE, TRUE, 0) /\ UNCHANGED rows
        /\ beside' = IF account'.limbo THEN beside ELSE beside \cup OpenRoots
    BY <1>11 DEF EndPlan
  <2>2. ~account'.pro
    BY <2>1 DEF Flags
  <2>3. (Counted(account.pro) \ beside)' = OpenRoots \ beside'
    BY <2>1, <2>2 DEF Counted, OpenRoots, Roots
  <2>4. CASE account'.limbo
    BY <1>1, <1>8, <1>9, <2>1, <2>3, <2>4
  <2>5. CASE ~account'.limbo
    <3>1. (OpenRoots \ beside)' \subseteq {}
      BY <2>1, <2>5 DEF OpenRoots, Roots
    <3>2. Cardinality({}) = 0
      BY FS_EmptySet
    <3> QED BY <1>1, <1>4, <1>10, <2>2, <3>1, <3>2
  <2> QED BY <2>4, <2>5
<1>12. CASE EndPlan(r) /\ ~(Cardinality(Listed(r)) > FreeTrees)
  <2>1. Sleeps(r, {}) /\ beside' = beside \cup Missed(r)
    BY <1>12 DEF EndPlan
  <2>2. ~account'.pro
    <3>1. PICK pin : Flags(r, FALSE, FALSE, pin)
      BY <1>12 DEF EndPlan
    <3> QED BY <3>1 DEF Flags
  <2>3. \A t \in Ids :
          /\ rows'[t].there = rows[t].there /\ rows'[t].current = rows[t].current
          /\ rows'[t].root = rows[t].root
          /\ t \notin Listed(r) => rows'[t].dormant = rows[t].dormant
    BY <2>1, SleepersStay DEF PInv
  <2>4. OpenRoots' \subseteq OpenRoots \cup Listed(r)
    BY <2>3 DEF OpenRoots, Roots
  <2>5. (OpenRoots \ beside)' \subseteq Listed(r)
    BY <2>1, <2>4 DEF Missed
  <2>6. Cardinality(Listed(r)) <= FreeTrees
    <3>1. Cardinality(Listed(r)) \in Nat
      BY <1>2, PartsAreSmaller
    <3> QED BY <1>4, <1>12, <3>1
  <2> QED BY <1>1, <1>2, <1>10, <2>2, <2>5, <2>6
<1>13. CASE Pick(r)
  <2>1. PICK chosen \in SUBSET Listed(r) :
          /\ Cardinality(chosen) = FreeTrees
          /\ Sleeps(r, Listed(r) \ chosen)
          /\ beside' = beside \cup Missed(r) \cup (Woken(r) \ chosen)
    BY <1>13 DEF Pick
  <2>2. account'.pro = account.pro
    BY <1>13 DEF Pick, Flags
  <2> DEFINE asleep == Listed(r) \ chosen
  <2>3. \A t \in Ids :
          /\ rows'[t].there = rows[t].there /\ rows'[t].current = rows[t].current
          /\ rows'[t].root = rows[t].root
          /\ rows'[t].dormant = IF t \in Listed(r) /\ (t \in asleep) # (t \in errand[r].read.asleep)
                                THEN t \in asleep ELSE rows[t].dormant
    BY <2>1, SleepersStay DEF PInv
  <2>4. Roots' = Roots
    BY <2>3 DEF Roots
  <2>5. CASE account.pro
    <3>1. (Counted(account.pro) \ beside)' \subseteq Counted(account.pro) \ beside
      BY <2>1, <2>2, <2>4, <2>5 DEF Counted
    <3>2. Cap(account'.pro) = ProTrees
      BY <2>2, <2>5 DEF Cap
    <3> QED BY <1>1, <1>7, <1>9, <3>1, <3>2
  <2>6. CASE ~account.pro
    <3>1. ASSUME NEW t \in OpenRoots', t \notin chosen
          PROVE  t \in Missed(r) \cup (Woken(r) \ chosen)
      <4>1. t \in Ids /\ t \in Roots /\ ~rows'[t].dormant
        BY <2>4 DEF OpenRoots, Roots
      <4>2. CASE t \notin Listed(r)
        <5>1. ~rows[t].dormant
          BY <2>3, <4>1, <4>2
        <5> QED BY <4>1, <4>2, <5>1 DEF Missed, OpenRoots
      <4>3. CASE t \in Listed(r)
        <5>1. t \in asleep
          BY <3>1, <4>3
        <5>2. t \in errand[r].read.asleep /\ ~rows[t].dormant
          BY <2>3, <4>1, <4>3, <5>1
        <5> QED BY <3>1, <4>1, <5>2 DEF Woken, OpenRoots
      <4> QED BY <4>2, <4>3
    <3>2. (OpenRoots \ beside)' \subseteq chosen
      BY <2>1, <3>1
    <3>3. chosen \in SUBSET Ids /\ Cardinality(chosen) <= FreeTrees
      BY <1>2, <1>4, <2>1
    <3> QED BY <1>1, <1>10, <2>2, <2>6, <3>2, <3>3
  <2> QED BY <1>5, <2>5, <2>6
<1>14. CASE Upgrade(r)
  <2>1. account'.pro /\ beside' = beside \cup (Roots \ OpenRoots)
    BY <1>14 DEF Upgrade, Flags
  <2>2. \A t \in Ids : rows'[t] = [rows[t] EXCEPT !.dormant = FALSE]
    BY <1>14 DEF Upgrade
  <2>3. \A t \in Ids :
          /\ rows'[t].there = rows[t].there /\ rows'[t].current = rows[t].current
          /\ rows'[t].root = rows[t].root
    BY <2>2 DEF PInv, PlanTypeOK, Row
  <2>4. Roots' = Roots
    BY <2>3 DEF Roots
  <2>5. (Counted(account.pro) \ beside)' \subseteq OpenRoots \ beside /\ Cap(account'.pro) = ProTrees
    BY <2>1, <2>4 DEF Counted, Cap
  <2> QED BY <1>1, <1>8, <1>9, <2>5
<1> QED BY <1>11, <1>12, <1>13, <1>14

\* What counts goes on fitting, one action after the other.
LEMMA StepKeepsFit ==
  ASSUME PInv, PlanTypeOK', PlanNext
  PROVE  Fits' /\ FitsInLimbo' /\ InventoryWithinPlan'
<1> PICK r \in PlanRequests :
      \/ BeginDraft(r) \/ BeginFixture(r) \/ ReserveSlot(r)
      \/ InsertDraft(r) \/ InsertFixture(r) \/ Restore(r)
      \/ OpenVersion(r) \/ CreateVersion(r) \/ OpenDeletion(r) \/ DeleteFamily(r)
      \/ OpenPlanChange(r) \/ EndPlan(r) \/ Pick(r) \/ Upgrade(r)
      \/ Abort(r)
  BY DEF PlanNext
<1>2. ASSUME NEW e, Starts(r, e), e.at # "room",
             e.at = "reserving" => e.pro = account.pro
      PROVE  Fits' /\ FitsInLimbo' /\ InventoryWithinPlan'
  <2>1. \A p \in BOOLEAN : (Counted(p) \ beside)' \subseteq Counted(p) \ beside
    BY <1>2, SameCount DEF Starts
  <2> QED BY <1>2, <2>1, NothingAdded DEF Starts
<1>3. CASE BeginDraft(r) \/ BeginFixture(r)
  BY <1>2, <1>3 DEF BeginDraft, BeginFixture, Errand
<1>4. CASE OpenVersion(r) \/ OpenDeletion(r) \/ OpenPlanChange(r)
  BY <1>2, <1>4 DEF OpenVersion, OpenDeletion, OpenPlanChange, Errand
<1>5. CASE ReserveSlot(r)
  <2> DEFINE at == IF Room(errand[r].pro) THEN "room" ELSE "full"
             e == [errand[r] EXCEPT !.at = at]
  <2>1. errand[r] \in Errands
    BY DEF PInv, PlanTypeOK
  <2>2. e.at = at /\ errand[r].pro \in BOOLEAN
    BY <2>1 DEF Errands
  <2>3. Turns(r, e) /\ UNCHANGED <<account, rows, beside, spanning>> /\ errand[r].at = "reserving"
    BY <1>5 DEF ReserveSlot, Step, Stands
  <2>4. ASSUME r \notin spanning', at = "room"
        PROVE  Cardinality(Counted(account.pro) \ beside) + 1 <= Cap(account.pro)
    <3>1. errand[r].pro = account.pro
      BY <2>3, <2>4 DEF PInv, Fits
    <3>2. Cardinality(Counted(account.pro)) + 1 <= Cap(account.pro)
      BY <2>4, <3>1 DEF Room
    <3>3. Counted(account.pro) \in SUBSET Ids
      BY <2>2, <3>1, CountedAreTrees
    <3>4. /\ Cardinality(Counted(account.pro) \ beside) <= Cardinality(Counted(account.pro))
          /\ Cardinality(Counted(account.pro)) \in Nat
          /\ Cardinality(Counted(account.pro) \ beside) \in Nat
      BY <3>3, PartsAreSmaller
    <3>5. Cap(account.pro) \in Nat
      BY PlanAssumption DEF Cap
    <3> QED BY <3>2, <3>4, <3>5
  <2>5. at # "reserving"
    OBVIOUS
  <2>6. \A p \in BOOLEAN : (Counted(p) \ beside)' \subseteq Counted(p) \ beside
    BY <2>3, SameCount
  <2> HIDE DEF e, at
  <2> QED BY <2>2, <2>3, <2>4, <2>5, <2>6, NothingAdded
<1>6. CASE InsertDraft(r) \/ InsertFixture(r)
  BY <1>6, AdditionsFit DEF InsertDraft, InsertFixture
<1>7. CASE Restore(r)
  BY <1>7, RestorationsFit
<1>8. CASE CreateVersion(r) \/ DeleteFamily(r)
  BY <1>8, VersionsAndDeletionsFit
<1>9. CASE EndPlan(r) \/ Pick(r) \/ Upgrade(r)
  BY <1>9, PlanChangesFit
<1>10. CASE Abort(r)
  <2>1. \A p \in BOOLEAN : (Counted(p) \ beside)' \subseteq Counted(p) \ beside
    BY <1>10, SameCount DEF Abort
  <2>2. Free.at = "idle"
    BY DEF Free, Errand
  <2> QED BY <1>10, <2>1, <2>2, NothingAdded DEF Abort, Finish
<1> QED BY <1>3, <1>4, <1>5, <1>6, <1>7, <1>8, <1>9, <1>10

\* Every step of a request, of the sample's restoration or of the plan keeps
\* the invariant.
LEMMA StepKeepsPInv ==
  ASSUME PInv, [PlanNext]_planVars
  PROVE  PInv'
<1>1. CASE UNCHANGED planVars
  BY <1>1 DEF planVars, PInv, PlanTypeOK, RootsStand, OneAtATime, Holds, Stands, CalledFor, Fits,
              FitsInLimbo, InventoryWithinPlan, Counted, OpenRoots, Roots
<1>2. CASE PlanNext
  <2>1. PlanTypeOK' /\ RootsStand' /\ OneAtATime' /\ CalledFor'
    BY <1>2, StepKeepsTypes, StepKeepsFamilies, StepKeepsTurns DEF PInv
  <2>2. Fits' /\ FitsInLimbo' /\ InventoryWithinPlan'
    BY <1>2, <2>1, StepKeepsFit
  <2> QED BY <2>1, <2>2 DEF PInv
<1> QED BY <1>1, <1>2

\* The trees, the plan and the requests under way stay in PInv.
THEOREM PlanInvariant == PlanSpec => []PInv
<1>1. PlanInit => PInv
  <2> SUFFICES ASSUME PlanInit
               PROVE  PInv
    OBVIOUS
  <2>1. PlanTypeOK
    BY RowsAreTyped, ErrandsAreTyped DEF PlanInit, PlanTypeOK
  <2>2. \A r \in PlanRequests : errand[r].at = "idle"
    BY DEF PlanInit, Free, Errand
  <2>3. Roots = {} /\ RootsStand
    BY DEF PlanInit, Roots, Absent, RootsStand
  <2>4. \A p \in BOOLEAN : Counted(p) \ beside = {}
    BY <2>3 DEF Counted, OpenRoots
  <2>5. account.pro \in BOOLEAN /\ ~account.limbo
    BY DEF PlanInit
  <2>6. Cardinality(Counted(account.pro) \ beside) = 0 /\ Cap(account.pro) \in Nat
    BY <2>4, <2>5, FS_EmptySet, PlanAssumption DEF Cap
  <2>7. InventoryWithinPlan
    BY <2>6 DEF InventoryWithinPlan
  <2>8. OneAtATime /\ CalledFor /\ Fits /\ FitsInLimbo
    BY <2>2, <2>5 DEF OneAtATime, CalledFor, Fits, FitsInLimbo, Holds, Stands
  <2> QED BY <2>1, <2>3, <2>7, <2>8 DEF PInv
<1>2. PInv /\ [PlanNext]_planVars => PInv'
  BY StepKeepsPInv
<1> QED BY <1>1, <1>2, PTL DEF PlanSpec

\* However many requests make, restore, copy and delete trees while the plan
\* ends, is chosen for or taken up again, by requests that may overlap too, what
\* counts fits the plan, but for what came in beside the count.
THEOREM TreesFitThePlan == PlanSpec => []InventoryWithinPlan
<1>1. PInv => InventoryWithinPlan
  BY DEF PInv
<1> QED BY <1>1, PlanInvariant, PTL
=============================================================================
