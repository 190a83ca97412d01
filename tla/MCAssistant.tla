----------------------------- MODULE MCAssistant -----------------------------
(* What an assistant connects to, seen three times: a gather in chat and   *)
(* an orchestrator on one session, tool calls whose tree and plan change   *)
(* under them, and the person's trees under the plan. The three share no   *)
(* variable; the initial state says which of them moves.                   *)
EXTENDS MCChatGather, AssistantCall, PlanLifecycle

MCToolsUsed == {EvaluateAnswers, HowToReach, ListConclusions, TemplateGet}

MCKindsTogether ==
  {{"draft", "sample", "end", "pick", "upgrade"},
   {"draft", "acme", "version", "end", "pick", "upgrade"},
   {"draft", "delete", "end", "pick", "upgrade"},
   {"draft", "version", "delete", "end", "upgrade"}}

MCSymmetry == MCSymmetryOfChats \cup Permutations(Calls) \cup Permutations(PlanRequests)

ChatOver ==
  /\ session = NoRow /\ admitted = {} /\ verified = {}
  /\ receipts = [k \in Keys |-> NoReceipt] /\ lock = "over"
  /\ row = [p \in Servers |-> NoRow] /\ reading = [r \in Readers |-> NoRead]
  /\ chat = [p \in Chats |-> Idle] /\ runs = <<>> /\ issued = 0

CallsOver ==
  /\ holder = Stranger /\ tree = [there |-> FALSE] /\ changes = MaxChanges
  /\ invoked = [c \in Calls |-> [Unmade EXCEPT !.at = "done"]]
  /\ meter = <<>> /\ stored = {} /\ seen = [c \in Calls |-> Unseen]

PlanOver ==
  /\ kinds = {}
  /\ account = [pro |-> TRUE, limbo |-> FALSE, pin |-> 0] /\ rows = [t \in Ids |-> Absent]
  /\ errand = [r \in PlanRequests |-> [Free EXCEPT !.at = "over"]]
  /\ beside = {} /\ spanning = {}

AssistantInit ==
  \/ ChatInit /\ CallsOver /\ PlanOver
  \/ ChatOver /\ CallInit /\ PlanOver
  \/ ChatOver /\ CallsOver /\ PlanInit

\* Every call has been made.
CallsMade ==
  /\ lock = "over" /\ PlanOver /\ \A c \in Calls : IsAt(c, "done")
  /\ UNCHANGED <<allVars, callVars, planVars>>

AssistantNext ==
  \/ lock # "over" /\ ChatNext /\ UNCHANGED <<callVars, planVars>>
  \/ CallNext /\ UNCHANGED <<allVars, planVars>>
  \/ CallsMade
  \/ ~PlanOver /\ PlanNext /\ UNCHANGED <<allVars, callVars>>

AssistantSpec == AssistantInit /\ [][AssistantNext]_<<allVars, callVars, planVars>>
=============================================================================
