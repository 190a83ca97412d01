-------------------------- MODULE DecisiveSupport --------------------------
(***************************************************************************)
(* Decisive support (runtime/decisive_support.py): which answers force a   *)
(* conclusion by themselves. Up to top_k inclusion-minimal parts of the    *)
(* answers, the first of them by deleting answers until none can go, the   *)
(* others by enumerating combinations of growing size. One action per      *)
(* entailment query; a query may time out or find the budget used up,      *)
(* which ends the call with an error.                                      *)
(*                                                                         *)
(* As in ResolvingSupport the tree only matters through a family: the      *)
(* parts of the answers that entail the target. More answers entail more,  *)
(* and a part of consistent answers is consistent.                         *)
(***************************************************************************)
EXTENDS ResolvingSupport

CONSTANT TopSupports   \* top_k

ASSUME TopSupportsAssumption == TopSupports \in Nat \ {0}
ASSUME UpClosedAssumption ==
  \A F \in Families : \A S \in F : \A R \in SUBSET Admitted : S \subseteq R => R \in F

VARIABLES
  entails,     \* the parts of the answers that entail the target
  consistent,  \* the answers and the assumptions have a model
  stage,       \* "base", "shrink", "enumerate", "check", "done"
  kept,        \* what deletion has left; the combination being checked
  left,        \* answers of kept whose removal has not been tried
  supports,    \* the supports found, as sets of questions
  passed,      \* combinations the enumeration has gone by
  verdict      \* how the call ended

decisiveVars == <<entails, consistent, stage, kept, left, supports, passed, verdict>>

DecisiveInit ==
  /\ entails \in Families \cup {{}}
  /\ consistent \in BOOLEAN
  /\ stage = "base" /\ verdict = "none"
  /\ kept = {} /\ left = {} /\ supports = {} /\ passed = {}

Conclude(how) ==
  /\ stage' = "done" /\ verdict' = how
  /\ UNCHANGED <<entails, consistent, kept, left, supports, passed>>

QueryFails == stage # "done" /\ Conclude("gave_up")

\* Mutant: entailment is read off the first UNSAT, which a contradiction
\* answers as well.
EstablishByQuery ==
  /\ stage = "base"
  /\ IF ~consistent \/ Admitted \in entails
     THEN /\ stage' = "shrink" /\ kept' = Admitted /\ left' = Admitted
          /\ UNCHANGED <<entails, consistent, supports, passed, verdict>>
     ELSE Conclude("target_not_entailed")

\* All answers together: nothing follows from a contradiction, and without
\* entailment there is nothing to explain.
Establish ==
  /\ stage = "base"
  /\ \/ ~consistent /\ Conclude("inconsistent")
     \/ consistent /\ Admitted \notin entails /\ Conclude("target_not_entailed")
     \/ /\ consistent /\ Admitted \in entails
        /\ stage' = "shrink" /\ kept' = Admitted /\ left' = Admitted
        /\ UNCHANGED <<entails, consistent, supports, passed, verdict>>

\* One deletion; a success starts over on what is left.
Shrink ==
  /\ stage = "shrink"
  /\ \E q \in left :
       /\ \A p \in left : q <= p
       /\ IF kept \ {q} \in entails
          THEN kept' = kept \ {q} /\ left' = kept \ {q}
          ELSE left' = left \ {q} /\ UNCHANGED kept
  /\ UNCHANGED <<entails, consistent, stage, supports, passed, verdict>>

Shrunk ==
  /\ stage = "shrink" /\ left = {}
  /\ supports' = {kept}
  /\ IF TopSupports = 1 \/ Admitted = {}
     THEN stage' = "done" /\ verdict' = "ok"
     ELSE stage' = "enumerate" /\ UNCHANGED verdict
  /\ UNCHANGED <<entails, consistent, kept, left, passed>>

Open == {S \in (SUBSET Admitted) \ passed : \A F \in supports : ~(F \subseteq S)}

\* The next combination in order is tested.
Enumerating(S) ==
  /\ stage = "enumerate" /\ Cardinality(supports) < TopSupports
  /\ \A R \in Open \ {S} : Precedes(S, R)
  /\ \/ /\ S \notin entails
        /\ passed' = passed \cup {S}
        /\ UNCHANGED <<stage, kept, left>>
     \/ /\ S \in entails
        /\ stage' = "check" /\ kept' = S /\ left' = S
        /\ UNCHANGED passed
  /\ UNCHANGED <<entails, consistent, supports, verdict>>

\* _is_inclusion_minimal: one answer left out at a time.
CheckMinimal ==
  /\ stage = "check"
  /\ \E q \in left :
       /\ \A p \in left : q <= p
       /\ IF kept \ {q} \in entails
          THEN stage' = "enumerate" /\ passed' = passed \cup {kept} /\ UNCHANGED left
          ELSE left' = left \ {q} /\ UNCHANGED <<stage, passed>>
  /\ UNCHANGED <<entails, consistent, kept, supports, verdict>>

IsMinimal ==
  /\ stage = "check" /\ left = {}
  /\ supports' = supports \cup {kept}
  /\ stage' = "enumerate"
  /\ UNCHANGED <<entails, consistent, kept, left, passed, verdict>>

EnumerationEnds ==
  /\ stage = "enumerate"
  /\ Cardinality(supports) >= TopSupports \/ Open = {}
  /\ Conclude("ok")

DecisiveNext ==
  \/ Establish \/ Shrink \/ Shrunk
  \/ \E S \in Open : Enumerating(S)
  \/ CheckMinimal \/ IsMinimal \/ EnumerationEnds \/ QueryFails

DecisiveSpec == DecisiveInit /\ [][DecisiveNext]_decisiveVars

-----------------------------------------------------------------------------
DecisiveTypeOK ==
  /\ entails \in Families \cup {{}}
  /\ consistent \in BOOLEAN
  /\ stage \in {"base", "shrink", "enumerate", "check", "done"}
  /\ kept \subseteq Admitted /\ left \subseteq kept
  /\ supports \subseteq SUBSET Admitted /\ passed \subseteq SUBSET Admitted
  /\ verdict \in {"none", "gave_up", "inconsistent", "target_not_entailed", "ok"}

MinimalParts == {S \in entails : \A R \in entails : R \subseteq S => R = S}

\* An answered call (find_minimal_decisive_supports) names parts of
\* consistent answers that force the target and of which nothing can be left
\* out; at most top_k, and all there are when it names fewer.
SupportsAreDecisive ==
  verdict = "ok" =>
    /\ consistent
    /\ supports # {} /\ supports \subseteq MinimalParts
    /\ Cardinality(supports) <= TopSupports
    /\ Cardinality(supports) < TopSupports => supports = MinimalParts
=============================================================================
