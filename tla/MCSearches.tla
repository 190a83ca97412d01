----------------------------- MODULE MCSearches -----------------------------
(* What runs with nothing beside it: the in-process inquiry, its S_R       *)
(* search, and of Apply decisive support, repair and the edit tools. They  *)
(* share no variable; the initial state says which runs, the others are    *)
(* done.                                                                   *)
(*                                                                         *)
(* The families are all up-closed ones over four answers: adding an answer *)
(* to a set that resolves leaves it resolved, as long as it is consistent. *)
EXTENDS MCInquireLoop, DecisiveSupport, AnswerEdit

MCFamilies ==
  {F \in {{S \in SUBSET Admitted : \E B \in basis : B \subseteq S} :
            basis \in {X \in SUBSET (SUBSET Admitted) : Cardinality(X) <= 4}} :
     Admitted \in F}

\* Trees of three questions and of two.
MCEditCases == {c \in MCCases : c.ir # Narrow}

\* Conclusions 11 and 12 with titles of their own, and with one for both.
MCTitlings == {[c \in {11, 12} |-> IF c = 11 THEN "t1" ELSE t] : t \in {"t1", "t2"}}

SupportIdle ==
  /\ resolves = SUBSET Admitted /\ current = {} /\ todo = {} /\ tried = {}
  /\ calls = 0 /\ phase = "done" /\ result = NoResult

DecisiveIdle ==
  /\ entails = {} /\ consistent = TRUE /\ stage = "done" /\ verdict = "none"
  /\ kept = {} /\ left = {} /\ supports = {} /\ passed = {}

RepairIdle ==
  /\ request = [most |-> 0, locked |-> {}, answers |-> {}, mode |-> "none"]
  /\ progress = "done" /\ freeing = 0 /\ freed = {} /\ plans = {}
  /\ reply = [code |-> "none", plans |-> {}]

LoopIdle ==
  /\ case = CHOOSE c \in LoopCases : TRUE
  /\ admitted = {} /\ verified = {} /\ pv = NoPolicy /\ outcome = "none"
  /\ directive = [action |-> "STOP", reason |-> "none"]

EditIdle ==
  /\ edit = [tool |-> "none", ir |-> Redundant, phi |-> NoPhi,
             given |-> {}, override |-> {}, title |-> <<>>]
  /\ turn = "done" /\ evalBefore = NoReport("none") /\ evalAfter = NoReport("none")
  /\ standing = {} /\ lost = {} /\ told = NothingTold

searchVars == <<vars, decisiveVars, repairVars, editVars>>
allVars == <<searchVars, loopVars>>

SearchesInit ==
  \/ Init /\ DecisiveIdle /\ RepairIdle /\ EditIdle /\ LoopIdle
  \/ SupportIdle /\ DecisiveInit /\ RepairIdle /\ EditIdle /\ LoopIdle
  \/ SupportIdle /\ DecisiveIdle /\ RepairInit /\ EditIdle /\ LoopIdle
  \/ SupportIdle /\ DecisiveIdle /\ RepairIdle /\ EditInit /\ LoopIdle
  \/ SupportIdle /\ DecisiveIdle /\ RepairIdle /\ EditIdle /\ LoopInit

SearchesNext ==
  \/ Next /\ UNCHANGED <<decisiveVars, repairVars, editVars, loopVars>>
  \/ DecisiveNext /\ UNCHANGED <<vars, repairVars, editVars, loopVars>>
  \/ RepairNext /\ UNCHANGED <<vars, decisiveVars, editVars, loopVars>>
  \/ EditNext /\ UNCHANGED <<vars, decisiveVars, repairVars, loopVars>>
  \/ LoopNext /\ UNCHANGED searchVars

SearchesSpec ==
  /\ SearchesInit /\ [][SearchesNext]_allVars
  /\ WF_vars(Next) /\ WF_loopVars(LoopNext)
=============================================================================
