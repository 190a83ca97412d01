-------------------------- MODULE ResolvingSupport --------------------------
(***************************************************************************)
(* The search for S_R, the smallest part of the admitted answers that      *)
(* still resolves the case: delete answers greedily for an upper bound,    *)
(* then enumerate the combinations up to that width. Every test is one     *)
(* solver call, counted against a budget of its own; a call may time out.  *)
(*                                                                         *)
(* Only one thing about the tree matters here: which subsets of the        *)
(* admitted questions resolve to the conclusion. That family is a variable *)
(* chosen once, and the search is checked for every family.                *)
(***************************************************************************)
EXTENDS InquireKernel

CONSTANTS
  Admitted,      \* the admitted questions, naturals in the order of their ids
  Families,      \* the families of resolving subsets of Admitted considered
  MaxSatCalls    \* max_resolving_support_sat_calls

ASSUME AdmittedAssumption == IsFiniteSet(Admitted) /\ Admitted \subseteq Nat
ASSUME FamiliesAssumption ==
  \* The search starts from a base that is resolved.
  \A F \in Families : F \subseteq SUBSET Admitted /\ Admitted \in F
ASSUME MaxSatCallsAssumption == MaxSatCalls \in Nat \ {0}

VARIABLES
  resolves,   \* the family: the subsets that resolve to the conclusion
  current,    \* _greedy_upper_bound: what greedy deletion has left
  todo,       \* questions of current not yet tried in this pass
  tried,      \* combinations the enumeration has refuted
  calls,      \* support_base.sat_calls
  phase,      \* "greedy", "enumerate", "done"
  result      \* [status, pairs] once done

vars == <<resolves, current, todo, tried, calls, phase, result>>

NoResult == [status |-> "none", pairs |-> {}]

Init ==
  /\ resolves \in Families
  /\ current = Admitted /\ todo = Admitted
  /\ tried = {} /\ calls = 0
  /\ phase = "greedy" /\ result = NoResult

Finish(status, pairs) ==
  /\ phase' = "done"
  /\ result' = [status |-> status, pairs |-> pairs]

\* _resolved_same_c refuses the call once the budget is used up ...
BudgetSpent ==
  /\ calls >= MaxSatCalls
  /\ Finish("budget", {})
  /\ UNCHANGED <<resolves, current, todo, tried, calls>>

\* ... and spends one call otherwise, which may come back unknown.
TimesOut ==
  /\ calls < MaxSatCalls
  /\ calls' = calls + 1
  /\ Finish("timeout", {})
  /\ UNCHANGED <<resolves, current, todo, tried>>

Probe == calls < MaxSatCalls /\ calls' = calls + 1

\* One deletion tried; a success starts the pass over on what is left.
GreedyProbe ==
  /\ phase = "greedy" /\ todo # {}
  /\ LET q == Least(todo)
         candidate == current \ {q}
     IN  \/ /\ Probe
            /\ current' = IF candidate \in resolves THEN candidate ELSE current
            /\ todo' = IF candidate \in resolves THEN candidate ELSE todo \ {q}
            /\ UNCHANGED <<resolves, tried, phase, result>>
         \/ TimesOut
         \/ BudgetSpent

\* Mutant: what the greedy pass has left is returned as the support.
GreedyIsTaken ==
  /\ phase = "greedy" /\ todo = {}
  /\ Finish("ok", current)
  /\ UNCHANGED <<resolves, current, todo, tried, calls>>

GreedyEnds ==
  /\ phase = "greedy" /\ todo = {}
  /\ phase' = "enumerate"
  /\ UNCHANGED <<resolves, current, todo, tried, calls, result>>

\* Mutant: combinations as wide as the upper bound are left out.
UntriedBelowBound == {S \in SUBSET Admitted : Cardinality(S) < Cardinality(current)} \ tried

Untried == {S \in SUBSET Admitted : Cardinality(S) <= Cardinality(current)} \ tried

\* The next combination in order is tested.
EnumerateProbe(S) ==
  /\ \A R \in Untried \ {S} : Precedes(S, R)
  /\ \/ /\ Probe
        /\ S \in resolves
        /\ Finish("ok", S)
        /\ UNCHANGED <<resolves, current, todo, tried>>
     \/ /\ Probe
        /\ S \notin resolves
        /\ tried' = tried \cup {S}
        /\ UNCHANGED <<resolves, current, todo, phase, result>>
     \/ TimesOut
     \/ BudgetSpent

\* The fall-through return at the end of resolving_support.
EnumerateEnds ==
  /\ Untried = {}
  /\ Finish("unknown", {})
  /\ UNCHANGED <<resolves, current, todo, tried, calls>>

Enumerate ==
  /\ phase = "enumerate"
  /\ EnumerateEnds \/ \E S \in Untried : EnumerateProbe(S)

Next == GreedyProbe \/ GreedyEnds \/ Enumerate

Spec == Init /\ [][Next]_vars /\ WF_vars(Next)

-----------------------------------------------------------------------------
TypeOK ==
  /\ resolves \in Families
  /\ current \subseteq Admitted /\ todo \subseteq current
  /\ tried \subseteq SUBSET Admitted
  /\ calls \in 0..MaxSatCalls
  /\ phase \in {"greedy", "enumerate", "done"}
  /\ result \in [status : {"none", "ok", "budget", "timeout", "unknown"},
                 pairs : SUBSET Admitted]

\* An "ok" answer is the exact S_R: it resolves, and it comes before every
\* other resolving subset, so none is smaller ("Exact min-cardinality S_R",
\* resolving_support). VERIFY is only asked for the answers in it.
SupportIsFirstSmallest ==
  result.status = "ok" =>
    /\ result.pairs \in resolves
    /\ \A R \in resolves \ {result.pairs} : Precedes(result.pairs, R)

\* The upper bound greedy deletion returns is never too low: the enumeration
\* always meets a resolving set, and "unknown" is never answered.
NeverUnknown == result.status # "unknown"
=============================================================================
