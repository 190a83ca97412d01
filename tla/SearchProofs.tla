---------------------------- MODULE SearchProofs ----------------------------
(***************************************************************************)
(* What the solver-driven searches conclude is so. First ANALYZE: the      *)
(* search for the resolving support is exact for every family of resolving *)
(* parts and every budget, and the two ways the in-process inquiry ends    *)
(* with a claim about the case are proofs of it, for every tree, every     *)
(* extractor and every verification policy. Then Apply: decisive supports  *)
(* are minimal and all there are unless there are top_k, a repair plan     *)
(* reaches the target under the locks and, where the search is exact, no   *)
(* smaller edit does, and what the edit tools say of a kept path and of an *)
(* unchanged outcome stands. That the searches end is left to TLC.         *)
(***************************************************************************)
EXTENDS DecisiveSupport, AnswerEdit, InquireLoop, KernelProofs

-----------------------------------------------------------------------------
(* The first combination.                                                  *)

\* Least does what its name says.
LEMMA LeastIsLeast ==
  ASSUME NEW S, S \subseteq Nat, S # {}
  PROVE  Least(S) \in S /\ \A x \in S : Least(S) <= x
BY LeastNumber DEF Least

\* Of two combinations one comes before the other ...
LEMMA PrecedesIsTotal ==
  ASSUME NEW A, IsFiniteSet(A), A \subseteq Nat,
         NEW S \in SUBSET A, NEW R \in SUBSET A, S # R
  PROVE  Precedes(S, R) \/ Precedes(R, S)
<1>1. Cardinality(S) \in Nat /\ Cardinality(R) \in Nat
  BY FS_Subset, FS_CardinalityType
<1>2. (S \cup R) \ (S \cap R) = (R \cup S) \ (R \cap S)
  OBVIOUS
<1>3. Least((S \cup R) \ (S \cap R)) \in (S \cup R) \ (S \cap R)
  BY LeastIsLeast
<1>4. CASE Least((S \cup R) \ (S \cap R)) \in S
  BY <1>1, <1>4 DEF Precedes
<1>5. CASE Least((S \cup R) \ (S \cap R)) \in R
  BY <1>1, <1>2, <1>5 DEF Precedes
<1> QED BY <1>3, <1>4, <1>5

\* ... and what precedes one that precedes a third precedes that.
LEMMA PrecedesIsTransitive ==
  ASSUME NEW A, IsFiniteSet(A), A \subseteq Nat,
         NEW S \in SUBSET A, NEW R \in SUBSET A, NEW U \in SUBSET A,
         Precedes(S, R), Precedes(R, U), S # R, R # U
  PROVE  Precedes(S, U) /\ S # U
<1> DEFINE SR == (S \cup R) \ (S \cap R)
           RU == (R \cup U) \ (R \cap U)
           SU == (S \cup U) \ (S \cap U)
<1>1. Cardinality(S) \in Nat /\ Cardinality(R) \in Nat /\ Cardinality(U) \in Nat
  BY FS_Subset, FS_CardinalityType
<1>2. CASE Cardinality(S) < Cardinality(R) \/ Cardinality(R) < Cardinality(U)
  <2>1. Cardinality(S) < Cardinality(U)
    BY <1>1, <1>2 DEF Precedes
  <2>2. S # U
    BY <1>1, <2>1
  <2> QED BY <2>1, <2>2 DEF Precedes
<1>3. CASE ~(Cardinality(S) < Cardinality(R) \/ Cardinality(R) < Cardinality(U))
  <2>1. /\ Cardinality(S) = Cardinality(U)
        /\ Least(SR) \in S /\ Least(RU) \in R
    BY <1>3 DEF Precedes
  <2>2. /\ Least(SR) \in SR /\ \A x \in SR : Least(SR) <= x
        /\ Least(RU) \in RU /\ \A x \in RU : Least(RU) <= x
    <3>1. SR # {} /\ RU # {} /\ SR \subseteq Nat /\ RU \subseteq Nat
      OBVIOUS
    <3> QED BY <3>1, LeastIsLeast
  <2> DEFINE a == Least(SR)
             b == Least(RU)
  <2>3. a \in Nat /\ b \in Nat /\ a \in S /\ a \notin R /\ b \in R /\ b \notin U
    BY <2>1, <2>2
  <2> HIDE DEF a, b
  <2>4. \E c \in SU : c \in S /\ \A x \in SU : c <= x
    <3>1. CASE a < b
      <4>1. a \notin RU
        BY <2>2, <2>3, <3>1 DEF b
      <4>2. a \in SU
        BY <2>3, <4>1
      <4>3. ASSUME NEW x \in SU
            PROVE  a <= x
        <5>1. x \in Nat /\ (x \in SR \/ x \in RU)
          OBVIOUS
        <5>2. x \in SR => a <= x
          BY <2>2 DEF a
        <5>3. x \in RU => b <= x
          BY <2>2 DEF b
        <5> HIDE DEF SR, RU, SU
        <5> QED BY <2>3, <3>1, <5>1, <5>2, <5>3
      <4> QED BY <2>3, <4>2, <4>3
    <3>2. CASE b < a
      <4>1. b \notin SR
        BY <2>2, <2>3, <3>2 DEF a
      <4>2. b \in SU /\ b \in S
        BY <2>3, <4>1
      <4>3. ASSUME NEW x \in SU
            PROVE  b <= x
        <5>1. x \in Nat /\ (x \in SR \/ x \in RU)
          OBVIOUS
        <5> QED BY <2>2, <2>3, <3>2, <5>1 DEF a, b
      <4> QED BY <2>3, <4>2, <4>3
    <3> QED BY <2>3, <3>1, <3>2
  <2>5. SU # {} /\ SU \subseteq Nat
    BY <2>4
  <2>6. Least(SU) \in S
    <3>1. Least(SU) \in SU /\ \A x \in SU : Least(SU) <= x
      BY <2>5, LeastIsLeast
    <3>2. PICK c \in SU : c \in S /\ \A x \in SU : c <= x
      BY <2>4
    <3>3. Least(SU) \in Nat /\ c \in Nat /\ Least(SU) <= c /\ c <= Least(SU)
      BY <2>5, <3>1, <3>2
    <3>4. Least(SU) = c
      BY <3>3
    <3> QED BY <3>2, <3>4
  <2> QED BY <2>1, <2>5, <2>6 DEF Precedes
<1> QED BY <1>2, <1>3

\* A family of combinations that is not empty has a first one.
LEMMA FirstCombinationExists ==
  ASSUME NEW A, IsFiniteSet(A), A \subseteq Nat,
         NEW F, F \subseteq SUBSET A, F # {}
  PROVE  /\ FirstCombination(F) \in F
         /\ \A R \in F \ {FirstCombination(F)} : Precedes(FirstCombination(F), R)
<1> DEFINE First(G, S) == S \in G /\ \A R \in G \ {S} : Precedes(S, R)
           N == {n \in Nat : \A G \in SUBSET (SUBSET A) :
                   IsFiniteSet(G) /\ Cardinality(G) = n + 1 => \E S : First(G, S)}
<1>1. 0 \in N
  <2> SUFFICES ASSUME NEW G \in SUBSET (SUBSET A), IsFiniteSet(G), Cardinality(G) = 0 + 1
               PROVE  \E S : First(G, S)
    OBVIOUS
  <2>1. PICK S : G = {S}
    BY FS_Singleton
  <2> QED BY <2>1
<1>2. ASSUME NEW n \in N
      PROVE  n + 1 \in N
  <2>0. n \in Nat /\ n + 1 \in Nat /\ ((n + 1) + 1) - 1 = n + 1
    OBVIOUS
  <2> SUFFICES ASSUME NEW G \in SUBSET (SUBSET A), IsFiniteSet(G), Cardinality(G) = (n + 1) + 1
               PROVE  \E S : First(G, S)
    BY <2>0
  <2>1. PICK x : x \in G
    BY FS_EmptySet
  <2>2. IsFiniteSet(G \ {x}) /\ Cardinality(G \ {x}) = n + 1 /\ G \ {x} \in SUBSET (SUBSET A)
    <3>1. IsFiniteSet(G \ {x}) /\ Cardinality(G \ {x}) = Cardinality(G) - 1
      BY <2>1, FS_RemoveElement
    <3> QED BY <2>0, <3>1
  <2>3. PICK S : First(G \ {x}, S)
    BY <2>2
  <2>4. S \in SUBSET A /\ x \in SUBSET A /\ S # x /\ S \in G
    BY <2>1, <2>3
  <2>5. CASE Precedes(S, x)
    <3>1. First(G, S)
      BY <2>3, <2>5
    <3> QED BY <3>1
  <2>6. CASE Precedes(x, S)
    <3>1. ASSUME NEW R \in G \ {x}
          PROVE  Precedes(x, R)
      <4>1. R = S \/ Precedes(S, R)
        BY <2>3
      <4>2. R \in SUBSET A
        OBVIOUS
      <4> QED BY <2>4, <2>6, <4>1, <4>2, PrecedesIsTransitive
    <3> QED BY <2>1, <3>1
  <2> QED BY <2>4, <2>5, <2>6, PrecedesIsTotal
<1>3. N = Nat
  BY <1>1, <1>2, SetInduction
<1>4. IsFiniteSet(F)
  BY FS_SUBSET, FS_Subset
<1>5. Cardinality(F) \in Nat \ {0}
  BY <1>4, FS_CardinalityType, FS_EmptySet
<1>6. Cardinality(F) - 1 \in N /\ (Cardinality(F) - 1) + 1 = Cardinality(F)
  BY <1>3, <1>5
<1>7. \E S : First(F, S)
  BY <1>4, <1>6
<1> QED BY <1>7 DEF FirstCombination

-----------------------------------------------------------------------------
(* The search for the resolving support.                                   *)

\* Greedy deletion never leaves the family, and the enumeration only leaves
\* behind what does not resolve.
SearchIsSound ==
  /\ current \in resolves
  /\ tried \cap resolves = {}

\* A search that is not over has no result.
NoEarlyResult == phase # "done" => result = NoResult

\* The inductive invariant.
SInv == TypeOK /\ SearchIsSound /\ NoEarlyResult /\ SupportIsFirstSmallest /\ NeverUnknown

\* Combinations of the admitted answers have a size.
LEMMA SizeOfCombination ==
  ASSUME NEW S \in SUBSET Admitted
  PROVE  Cardinality(S) \in Nat
<1>1. IsFiniteSet(S)
  BY AdmittedAssumption, FS_Subset
<1> QED BY <1>1, FS_CardinalityType

\* Every resolving set is a combination of the admitted answers.
LEMMA ResolvingSetsAreCombinations ==
  ASSUME TypeOK
  PROVE  resolves \subseteq SUBSET Admitted /\ Admitted \in resolves
BY FamiliesAssumption DEF TypeOK

\* The first combination not tried, if it resolves, precedes every other one
\* that resolves: a combination is either not tried yet, and then follows in
\* the order, or tried, and then does not resolve, or wider than the bound.
LEMMA FirstUntriedIsSmallest ==
  ASSUME SInv, NEW S \in Untried, S \in resolves,
         \A R \in Untried \ {S} : Precedes(S, R),
         NEW R \in resolves \ {S}
  PROVE  Precedes(S, R)
<1>1. R \in SUBSET Admitted /\ S \in SUBSET Admitted /\ current \in SUBSET Admitted
  BY ResolvingSetsAreCombinations DEF SInv, TypeOK, Untried
<1>2. CASE R \in Untried
  BY <1>2
<1>3. CASE R \notin Untried
  <2>1. R \notin tried
    BY DEF SInv, SearchIsSound
  <2>2. ~(Cardinality(R) <= Cardinality(current))
    BY <1>1, <1>3, <2>1 DEF Untried
  <2>3. Cardinality(S) <= Cardinality(current)
    BY DEF Untried
  <2>4. Cardinality(S) < Cardinality(R)
    BY <1>1, <2>2, <2>3, SizeOfCombination
  <2> QED BY <2>4 DEF Precedes
<1> QED BY <1>2, <1>3

\* The set greedy deletion has left is always among the untried.
LEMMA BoundIsUntried ==
  ASSUME SInv
  PROVE  current \in Untried
<1>1. current \in SUBSET Admitted /\ current \notin tried
  BY DEF SInv, TypeOK, SearchIsSound
<1>2. Cardinality(current) <= Cardinality(current)
  BY <1>1, SizeOfCombination
<1> QED BY <1>1, <1>2 DEF Untried

\* Running out of budget or time decides nothing.
LEMMA GivingUpIsSound ==
  ASSUME SInv, TimesOut \/ BudgetSpent
  PROVE  SInv'
<1>1. PICK s \in {"timeout", "budget"} : Finish(s, {})
  BY DEF TimesOut, BudgetSpent
<1>2. /\ phase' = "done" /\ result' = [status |-> s, pairs |-> {}]
      /\ UNCHANGED <<resolves, current, todo, tried>>
  BY <1>1 DEF Finish, TimesOut, BudgetSpent
<1>3. calls' \in 0..MaxSatCalls
  BY MaxSatCallsAssumption DEF SInv, TypeOK, TimesOut, BudgetSpent
<1>4. TypeOK'
  BY <1>2, <1>3 DEF SInv, TypeOK
<1>5. SupportIsFirstSmallest' /\ NeverUnknown' /\ NoEarlyResult'
  BY <1>2 DEF SupportIsFirstSmallest, NeverUnknown, NoEarlyResult
<1>6. SearchIsSound'
  BY <1>2 DEF SInv, SearchIsSound
<1> QED BY <1>4, <1>5, <1>6 DEF SInv

\* A probe spends a call within the budget.
LEMMA ProbeWithinBudget ==
  ASSUME SInv, Probe
  PROVE  calls' \in 0..MaxSatCalls
BY MaxSatCallsAssumption DEF SInv, TypeOK, Probe

\* Every step of the search preserves the invariant.
LEMMA StepKeepsSearchSound ==
  ASSUME SInv, [Next]_vars
  PROVE  SInv'
<1>1. CASE GreedyProbe
  <2> DEFINE q == Least(todo)
             candidate == current \ {q}
  <2>1. CASE TimesOut \/ BudgetSpent
    BY <2>1, GivingUpIsSound
  <2>2. CASE /\ Probe
             /\ current' = IF candidate \in resolves THEN candidate ELSE current
             /\ todo' = IF candidate \in resolves THEN candidate ELSE todo \ {q}
             /\ UNCHANGED <<resolves, tried, phase, result>>
    <3>1. calls' \in 0..MaxSatCalls
      BY <2>2, ProbeWithinBudget
    <3>2. /\ current' \subseteq Admitted /\ todo' \subseteq current'
          /\ current' \in resolves
      BY <2>2 DEF SInv, TypeOK, SearchIsSound
    <3> QED BY <2>2, <3>1, <3>2 DEF SInv, TypeOK, SearchIsSound, NoEarlyResult,
                                  SupportIsFirstSmallest, NeverUnknown
  <2> QED BY <1>1, <2>1, <2>2 DEF GreedyProbe
<1>2. CASE GreedyEnds
  BY <1>2 DEF GreedyEnds, SInv, TypeOK, SearchIsSound, NoEarlyResult, SupportIsFirstSmallest,
              NeverUnknown
<1>3. ASSUME NEW S \in Untried, EnumerateProbe(S)
      PROVE  SInv'
  <2>1. S \in SUBSET Admitted
    BY DEF Untried
  <2>2. CASE TimesOut \/ BudgetSpent
    BY <2>2, GivingUpIsSound
  <2>3. CASE Probe /\ S \in resolves /\ Finish("ok", S)
             /\ UNCHANGED <<resolves, current, todo, tried>>
    <3>1. calls' \in 0..MaxSatCalls
      BY <2>3, ProbeWithinBudget
    <3>2. \A R \in resolves \ {S} : Precedes(S, R)
      BY <1>3, <2>3, FirstUntriedIsSmallest DEF EnumerateProbe
    <3>3. phase' = "done" /\ result' = [status |-> "ok", pairs |-> S]
      BY <2>3 DEF Finish
    <3>4. TypeOK'
      BY <2>1, <2>3, <3>1, <3>3 DEF SInv, TypeOK
    <3>5. SupportIsFirstSmallest' /\ NeverUnknown' /\ NoEarlyResult'
      BY <2>3, <3>2, <3>3 DEF SupportIsFirstSmallest, NeverUnknown, NoEarlyResult
    <3> QED BY <2>3, <3>4, <3>5 DEF SInv, SearchIsSound
  <2>4. CASE Probe /\ S \notin resolves /\ tried' = tried \cup {S}
             /\ UNCHANGED <<resolves, current, todo, phase, result>>
    <3>1. calls' \in 0..MaxSatCalls
      BY <2>4, ProbeWithinBudget
    <3> QED BY <2>1, <2>4, <3>1 DEF SInv, TypeOK, SearchIsSound, NoEarlyResult,
                                  SupportIsFirstSmallest, NeverUnknown
  <2> QED BY <1>3, <2>2, <2>3, <2>4 DEF EnumerateProbe
<1>4. ~EnumerateEnds
  BY BoundIsUntried DEF EnumerateEnds
<1>5. CASE UNCHANGED vars
  BY <1>5 DEF vars, SInv, TypeOK, SearchIsSound, NoEarlyResult, SupportIsFirstSmallest, NeverUnknown
<1> QED BY <1>1, <1>2, <1>3, <1>4, <1>5 DEF Next, Enumerate

\* The invariant of the search.
THEOREM SearchInvariant == Spec => []SInv
<1>1. Init => SInv
  <2> SUFFICES ASSUME Init
               PROVE  SInv
    OBVIOUS
  <2>1. Admitted \in resolves
    BY FamiliesAssumption DEF Init
  <2> QED BY <2>1, MaxSatCallsAssumption DEF Init, NoResult, SInv, TypeOK, SearchIsSound,
                   NoEarlyResult, SupportIsFirstSmallest, NeverUnknown
<1>2. SInv /\ [Next]_vars => SInv'
  BY StepKeepsSearchSound
<1> QED BY <1>1, <1>2, PTL DEF Spec

\* A support that is answered resolves, and precedes every other set that
\* does (resolving_support, "Exact min-cardinality S_R").
THEOREM SupportIsExact == Spec => []SupportIsFirstSmallest
<1>1. SInv => SupportIsFirstSmallest
  BY DEF SInv
<1> QED BY <1>1, SearchInvariant, PTL

\* The search never falls through its last loop (resolving_support's final
\* return), whatever greedy deletion has kept.
THEOREM NeverFallsThrough == Spec => []NeverUnknown
<1>1. SInv => NeverUnknown
  BY DEF SInv
<1> QED BY <1>1, SearchInvariant, PTL

-----------------------------------------------------------------------------
(* The in-process inquiry.                                                 *)

\* The inductive invariant: a directive that is out is one ANALYZE derives
\* from the case as it stands.
LInv ==
  /\ case \in LoopCases
  /\ \A a \in admitted : a.q \in case.ir.questions
  /\ directive # NoDirective =>
       directive \in AnalyzeOutcomes(case.ir, Theories[case], admitted, verified, pv, TRUE)

\* A resolved base has one possible conclusion, which all its models reach.
LEMMA ResolvedMeans ==
  ASSUME NEW M, IsFiniteSet(Possible(M))
  PROVE  /\ Resolved(M) # {} =>
              \E c : /\ Resolved(M) = {c} /\ Possible(M) = {c}
                     /\ \A m \in M : c \in m.concludes
         /\ \A c : Possible(M) = {c} /\ (\A m \in M : c \in m.concludes) => Resolved(M) = {c}
<1>1. ASSUME Resolved(M) # {}
      PROVE  \E c : /\ Resolved(M) = {c} /\ Possible(M) = {c}
                    /\ \A m \in M : c \in m.concludes
  <2>1. /\ Resolved(M) = Possible(M) /\ Cardinality(Possible(M)) = 1
        /\ \A m \in M : Possible(M) \subseteq m.concludes
    BY <1>1 DEF Resolved
  <2>2. PICK c : Possible(M) = {c}
    BY <2>1, FS_Singleton
  <2> QED BY <2>1, <2>2
<1>2. ASSUME NEW c, Possible(M) = {c}, \A m \in M : c \in m.concludes
      PROVE  Resolved(M) = {c}
  <2>1. Cardinality(Possible(M)) = 1
    BY <1>2, FS_Singleton
  <2> QED BY <1>2, <2>1 DEF Resolved
<1> QED BY <1>1, <1>2

\* Nothing is resolved when there is no model.
LEMMA NothingIsResolved ==
  Resolved({}) = {}
<1>1. Possible({}) = {}
  BY DEF Possible
<1>2. Cardinality({}) # 1
  BY FS_EmptySet
<1> QED BY <1>1, <1>2 DEF Resolved

\* What models of a case can conclude is finite.
LEMMA PossibleIsFinite ==
  ASSUME NEW c \in LoopCases, NEW E
  PROVE  IsFiniteSet(Possible(Models(Theories[c], E)))
<1>1. \A m \in Theories[c] : m.concludes = Reached(c.ir, m.choice) \cap c.ir.conclusions
  BY DEF Theories, Theory
<1>2. Possible(Models(Theories[c], E)) \subseteq c.ir.conclusions
  BY <1>1 DEF Possible, Models
<1> QED BY <1>2, LoopCasesAssumption, FS_Subset

\* A model chooses one option of every question, and what it concludes follows
\* from its choices.
LEMMA ModelsOfACase ==
  ASSUME NEW c \in LoopCases, NEW E, NEW m \in Models(Theories[c], E)
  PROVE  /\ m.choice = [q \in c.ir.questions |-> m.choice[q]]
         /\ \A q \in c.ir.questions : m.choice[q] \in c.ir.options[q]
         /\ m.concludes = Reached(c.ir, m.choice) \cap c.ir.conclusions
<1>1. /\ m.choice \in Worlds(c.ir)
      /\ m.concludes = Reached(c.ir, m.choice) \cap c.ir.conclusions
  BY DEF Theories, Theory, Models
<1> QED BY <1>1 DEF Worlds

\* An answer that resolves the case still does beside another open question:
\* one of the answers to that one leaves a model.
LEMMA ResolvingWithAnother ==
  ASSUME NEW c \in LoopCases, NEW E,
         NEW q \in Unanswered(c.ir, E), NEW r \in Unanswered(c.ir, E), q # r,
         NEW o \in c.ir.options[q],
         Resolved(Models(Theories[c], E \cup {<<q, o>>})) # {}
  PROVE  {q, r} \in ResolvingWitnesses(c.ir, Theories[c], E)
<1> DEFINE T == Theories[c]
           M == Models(T, E \cup {<<q, o>>})
<1>1. q \in c.ir.questions /\ r \in c.ir.questions
  BY DEF Unanswered
<1>2. PICK d : Possible(M) = {d} /\ \A m \in M : d \in m.concludes
  BY PossibleIsFinite, ResolvedMeans
<1>3. PICK m \in M : TRUE
  BY <1>2 DEF Possible
<1>4. m.choice[r] \in c.ir.options[r]
  BY <1>1, ModelsOfACase
<1> DEFINE g == [x \in {q, r} |-> IF x = q THEN o ELSE m.choice[r]]
           alpha == {<<x, g[x]>> : x \in {q, r}}
           N == Models(T, E \cup alpha)
<1>5. g[q] = o /\ g[r] = m.choice[r]
  OBVIOUS
<1>6. alpha \in AnswersTo(c.ir, {q, r})
  <2>1. \A x \in {q, r} : g[x] \in c.ir.options[x]
    BY <1>4, <1>5
  <2>2. g \in [{q, r} -> UNION {c.ir.options[x] : x \in {q, r}}]
    BY <2>1
  <2> HIDE DEF g
  <2> QED BY <2>1, <2>2 DEF AnswersTo
<1>7. alpha = {<<q, o>>, <<r, m.choice[r]>>}
  BY <1>5
<1> HIDE DEF alpha, g
<1>8. N \subseteq M /\ m \in N
  BY <1>3, <1>7 DEF Models
<1>9. Possible(N) = {d} /\ \A x \in N : d \in x.concludes
  BY <1>2, <1>8 DEF Possible
<1>10. Resolved(N) # {}
  <2>1. IsFiniteSet(Possible(N))
    BY PossibleIsFinite
  <2> HIDE DEF N
  <2>2. Resolved(N) = {d}
    BY <1>9, <2>1, ResolvedMeans
  <2> QED BY <2>2
<1>11. Cardinality({q, r}) = 2
  <2>1. IsFiniteSet({q}) /\ Cardinality({q}) = 1
    BY FS_Singleton
  <2>2. r \notin {q}
    OBVIOUS
  <2>3. Cardinality({q} \cup {r}) = Cardinality({q}) + 1
    BY <2>1, <2>2, FS_AddElement
  <2>4. {q, r} = {q} \cup {r}
    OBVIOUS
  <2> HIDE DEF M, N, T
  <2>5. Cardinality({q, r}) = Cardinality({q}) + 1
    BY <2>3, <2>4
  <2> QED BY <2>1, <2>5
<1>12. {q, r} \in SUBSET Unanswered(c.ir, E)
  OBVIOUS
<1>13. Cardinality({q, r}) >= 2
  BY <1>11
<1>14. \E beta \in AnswersTo(c.ir, {q, r}) : Resolved(Models(T, E \cup beta)) # {}
  BY <1>6, <1>10
<1> QED BY <1>12, <1>13, <1>14 DEF ResolvingWitnesses

\* The last open question does not resolve when it does not discriminate: its
\* answers leave one model each, and all of these conclude the same.
LEMMA NoDiscriminatorResolves ==
  ASSUME NEW c \in LoopCases, NEW E, NEW q, Unanswered(c.ir, E) = {q},
         q \notin MyopicDiscriminators(c.ir, Theories[c], E),
         Models(Theories[c], E) # {},
         NEW o \in c.ir.options[q],
         Resolved(Models(Theories[c], E \cup {<<q, o>>})) # {}
  PROVE  Resolved(Models(Theories[c], E)) # {}
<1> DEFINE T == Theories[c]
           With(x) == Possible(Models(T, E \cup {<<q, x>>}))
           f == [x \in c.ir.options[q] |-> With(x)]
           all == {With(x) : x \in c.ir.options[q]}
<1>1. q \in c.ir.questions /\ \A r \in c.ir.questions \ {q} : \E p \in E : p[1] = r
  BY DEF Unanswered
<1>2. IsFiniteSet(all) /\ ~(Cardinality(all) > 1)
  <2>1. all = {f[x] : x \in c.ir.options[q]}
    OBVIOUS
  <2>2. IsFiniteSet({f[x] : x \in c.ir.options[q]})
    <3>1. IsFiniteSet(c.ir.options[q])
      BY <1>1, LoopCasesAssumption
    <3> QED BY <3>1, ImageIsFinite
  <2>3. ~(Cardinality(all) > 1)
    BY DEF MyopicDiscriminators
  <2> QED BY <2>1, <2>2, <2>3
<1>3. PICK d : With(o) = {d}
  BY PossibleIsFinite, ResolvedMeans
<1>4. \A x \in c.ir.options[q] : With(x) = {d}
  <2> SUFFICES ASSUME NEW x \in c.ir.options[q]
               PROVE  With(x) = With(o)
    BY <1>3
  <2> HIDE DEF With
  <2>1. With(x) \in all /\ With(o) \in all
    OBVIOUS
  <2> QED BY <1>2, <2>1, AtMostOne
<1>5. \A m \in Models(T, E) : m.concludes = {d}
  <2> SUFFICES ASSUME NEW m \in Models(T, E)
               PROVE  m.concludes = {d}
    OBVIOUS
  <2> DEFINE N == Models(T, E \cup {<<q, m.choice[q]>>})
  <2>1. m.choice[q] \in c.ir.options[q]
    BY <1>1, ModelsOfACase
  <2>2. m \in N
    BY DEF Models
  <2>3. \A n \in N : n.concludes = m.concludes
    <3> SUFFICES ASSUME NEW n \in N
                 PROVE  n.concludes = m.concludes
      OBVIOUS
    <3>1. n.choice[q] = m.choice[q] /\ n \in Models(T, E)
      <4> DEFINE pair == <<q, m.choice[q]>>
      <4>1. n \in T /\ \A p \in E \cup {pair} : n.choice[p[1]] = p[2]
        BY DEF Models
      <4>2. pair[1] = q /\ pair[2] = m.choice[q] /\ pair \in E \cup {pair}
        OBVIOUS
      <4> HIDE DEF pair, T, N
      <4>3. n.choice[q] = m.choice[q]
        BY <4>1, <4>2
      <4>4. n \in Models(T, E)
        BY <4>1 DEF Models
      <4> QED BY <4>3, <4>4
    <3>2. \A r \in c.ir.questions \ {q} : n.choice[r] = m.choice[r]
      <4> SUFFICES ASSUME NEW r \in c.ir.questions \ {q}
                   PROVE  n.choice[r] = m.choice[r]
        OBVIOUS
      <4>1. PICK p \in E : p[1] = r
        BY <1>1
      <4> QED BY <3>1, <4>1 DEF Models
    <3>3. [r \in c.ir.questions |-> n.choice[r]] = [r \in c.ir.questions |-> m.choice[r]]
      BY <3>1, <3>2
    <3>4. /\ n.choice = [r \in c.ir.questions |-> n.choice[r]]
          /\ n.concludes = Reached(c.ir, n.choice) \cap c.ir.conclusions
      BY <3>1, ModelsOfACase
    <3>5. /\ m.choice = [r \in c.ir.questions |-> m.choice[r]]
          /\ m.concludes = Reached(c.ir, m.choice) \cap c.ir.conclusions
      BY ModelsOfACase
    <3>6. n.choice = m.choice
      BY <3>3, <3>4, <3>5
    <3> QED BY <3>4, <3>5, <3>6
  <2>4. Possible(N) = m.concludes
    <3> HIDE DEF N
    <3> QED BY <2>2, <2>3 DEF Possible
  <2> QED BY <1>4, <2>1, <2>4
<1>6. Possible(Models(T, E)) = {d}
  BY <1>5 DEF Possible
<1> QED BY <1>5, <1>6, PossibleIsFinite, ResolvedMeans

\* What ANALYZE derives of a stop: where it comes from.
LEMMA StopsAreDerived ==
  ASSUME LInv, NEW reason \in SemanticReasons, Stopped(reason)
  PROVE  directive = ExactDirective(case.ir, Theories[case], admitted, verified, pv)
<1>1. directive # NoDirective
  BY DEF Stopped, Stop, NoDirective
<1>2. directive \notin GiveUps(case.ir, Theories[case], admitted)
  BY DEF Stopped, Stop, GiveUps, SemanticReasons
<1> QED BY <1>1, <1>2 DEF LInv, AnalyzeOutcomes

\* When the case is said not to be resolvable, no combination of answers
\* resolves it.
LEMMA NotResolvableStops ==
  ASSUME LInv
  PROVE  NotResolvableIsProved
<1> DEFINE T == Theories[case]
           E == Evidence(admitted)
           M == Models(T, E)
<1> SUFFICES ASSUME Stopped("not_resolvable"),
                    NEW D \in SUBSET Unanswered(case.ir, E), NEW alpha \in AnswersTo(case.ir, D),
                    Resolved(Models(T, E \cup alpha)) # {}
             PROVE  FALSE
  BY DEF NotResolvableIsProved
<1>1. directive = ExactDirective(case.ir, T, admitted, verified, pv)
  BY StopsAreDerived DEF SemanticReasons
<1>2. /\ M # {} /\ Resolved(M) = {}
      /\ MyopicDiscriminators(case.ir, T, E) = {}
      /\ ResolvingWitnesses(case.ir, T, E) = {}
  <2>1. CASE M = {}
    <3>1. Resolved(M) = {}
      BY <2>1, NothingIsResolved
    <3> QED BY <1>1, <2>1, <3>1 DEF ExactDirective, Stopped, Stop
  <2>2. CASE M # {} /\ Resolved(M) # {}
    BY <1>1, <2>2 DEF ExactDirective, Stopped, Stop, Verify
  <2>3. CASE M # {} /\ Resolved(M) = {}
    BY <1>1, <2>3 DEF ExactDirective, Stopped, Stop, Acquire
  <2> QED BY <2>1, <2>2, <2>3
<1>3. case \in LoopCases /\ IsFiniteSet(case.ir.questions)
  BY LoopCasesAssumption DEF LInv
<1>4. IsFiniteSet(D) /\ Cardinality(D) \in Nat
  BY <1>3, FS_Subset, FS_CardinalityType DEF Unanswered
<1>5. CASE Cardinality(D) = 0
  <2>1. D = {}
    BY <1>4, <1>5, FS_EmptySet
  <2>2. alpha = {}
    BY <2>1 DEF AnswersTo
  <2>3. E \cup alpha = E
    BY <2>2
  <2> QED BY <1>2, <2>3
<1>6. CASE Cardinality(D) = 1
  <2>1. PICK q : D = {q}
    BY <1>4, <1>6, FS_Singleton
  <2>2. PICK g : alpha = {<<p, g[p]>> : p \in D} /\ \A p \in D : g[p] \in case.ir.options[p]
    BY DEF AnswersTo
  <2>3. alpha = {<<q, g[q]>>} /\ g[q] \in case.ir.options[q]
    BY <2>1, <2>2
  <2>4. q \in Unanswered(case.ir, E)
    BY <2>1
  <2>5. CASE Unanswered(case.ir, E) = {q}
    BY <1>2, <1>3, <2>3, <2>5, NoDiscriminatorResolves
  <2>6. CASE \E r \in Unanswered(case.ir, E) : r # q
    BY <1>2, <1>3, <2>3, <2>4, <2>6, ResolvingWithAnother
  <2> QED BY <2>4, <2>5, <2>6
<1>7. CASE Cardinality(D) >= 2
  BY <1>2, <1>7 DEF ResolvingWitnesses
<1> QED BY <1>4, <1>5, <1>6, <1>7

\* The support of a resolved case is a part of its evidence that resolves it.
LEMMA SupportResolves ==
  ASSUME LInv, Resolved(Models(Theories[case], Evidence(admitted))) # {}
  PROVE  LET E == Evidence(admitted)
             c == Resolved(Models(Theories[case], E))
         IN  Resolved(Models(Theories[case],
               {p \in E : p[1] \in ResolvingSupport(Theories[case], E, c)})) = c
<1> DEFINE T == Theories[case]
           E == Evidence(admitted)
           c == Resolved(Models(T, E))
           A == {p[1] : p \in E}
           F == {Q \in SUBSET A : Resolved(Models(T, {p \in E : p[1] \in Q})) = c}
<1>1. A \subseteq case.ir.questions
  BY DEF LInv, Evidence
<1>2. IsFiniteSet(A) /\ A \subseteq Nat
  BY <1>1, LoopCasesAssumption, FS_Subset DEF LInv
<1>3. {p \in E : p[1] \in A} = E
  OBVIOUS
<1>4. A \in F
  BY <1>3
<1> HIDE DEF c, E
<1>5. FirstCombination(F) \in F
  BY <1>2, <1>4, FirstCombinationExists
<1> QED BY <1>5 DEF ResolvingSupport, E, c

\* When the stop is for a verified consequence, the verified answers carry it.
LEMMA VerifiedStops ==
  ASSUME LInv
  PROVE  VerifiedStopIsCarriedByVerifiedAnswers
<1> DEFINE T == Theories[case]
           E == Evidence(admitted)
           M == Models(T, E)
           S == ResolvingSupport(T, E, Resolved(M))
           checked == {a \in admitted : KeyFor(a, pv) \in verified}
           part == {p \in E : p[1] \in S}
           C == Models(T, Evidence(checked))
<1> SUFFICES ASSUME Stopped("verified_resolved_consequence")
             PROVE  Resolved(C) # {} /\ Resolved(C) = Resolved(M)
  BY DEF VerifiedStopIsCarriedByVerifiedAnswers, EvidenceModels
<1>1. directive = ExactDirective(case.ir, T, admitted, verified, pv)
  BY StopsAreDerived DEF SemanticReasons
<1>2. M # {} /\ Resolved(M) # {} /\ SupportToVerify(T, admitted, verified, pv) = {}
  <2>1. CASE M = {}
    <3>1. Resolved(M) = {}
      BY <2>1, NothingIsResolved
    <3> QED BY <1>1, <2>1, <3>1 DEF ExactDirective, Stopped, Stop
  <2>2. CASE M # {} /\ Resolved(M) = {}
    BY <1>1, <2>2 DEF ExactDirective, Stopped, Stop, Acquire
  <2>3. CASE M # {} /\ Resolved(M) # {}
    BY <1>1, <2>3 DEF ExactDirective, Stopped, Stop, Verify
  <2> QED BY <2>1, <2>2, <2>3
<1>3. \A a \in admitted : a.q \in S => a \in checked
  BY <1>2 DEF SupportToVerify
<1>4. part \subseteq Evidence(checked) /\ Evidence(checked) \subseteq E
  BY <1>3 DEF Evidence
<1>5. M \subseteq C /\ C \subseteq Models(T, part)
  BY <1>4 DEF Models
<1>6. Resolved(Models(T, part)) = Resolved(M)
  BY <1>2, SupportResolves
<1>7. case \in LoopCases
  BY DEF LInv
<1>8. PICK c : /\ Resolved(M) = {c} /\ Possible(Models(T, part)) = {c}
               /\ \A m \in Models(T, part) : c \in m.concludes
  BY <1>2, <1>6, <1>7, PossibleIsFinite, ResolvedMeans
<1> HIDE DEF C, M, part
<1>9. Possible(C) = {c} /\ \A m \in C : c \in m.concludes
  <2>1. \A m \in C : m \in Models(T, part)
    BY <1>5
  <2>2. Possible(C) \subseteq {c} /\ \A m \in C : c \in m.concludes
    BY <1>8, <2>1 DEF Possible
  <2>3. \E m \in C : c \in m.concludes
    BY <1>2, <1>5, <2>2
  <2> QED BY <2>2, <2>3 DEF Possible
<1>10. Resolved(C) = {c}
  BY <1>7, <1>9, PossibleIsFinite, ResolvedMeans DEF C
<1> QED BY <1>8, <1>10

\* The invariant of the inquiry.
LEMMA LoopInvariant == LoopSpec => []LInv
<1>1. LoopInit => LInv
  BY DEF LoopInit, LInv
<1>2. ASSUME LInv, [LoopNext]_loopVars
      PROVE  LInv'
  <2>1. CASE GiveUp
    BY <1>2, <2>1 DEF GiveUp, BeginStep, LInv, AnalyzeOutcomes
  <2>2. CASE Analyze
    BY <1>2, <2>2 DEF Analyze, BeginStep, LInv, AnalyzeOutcomes
  <2>3. CASE AcquireAnswered
    BY <1>2, <2>3 DEF AcquireAnswered, Executed, CanAdmit, LInv
  <2>4. CASE AcquireAbstained
    BY <1>2, <2>4 DEF AcquireAbstained, Executed, LInv
  <2>5. ASSUME NEW a \in admitted, Retain(a) \/ Insufficient(a) \/ Retract(a) \/ Replace(a)
        PROVE  LInv'
    <3>1. CASE Retain(a) \/ Insufficient(a)
      BY <1>2, <3>1 DEF Retain, Insufficient, Executed, LInv
    <3>2. CASE Retract(a)
      BY <1>2, <3>2 DEF Retract, Executed, LInv
    <3>3. CASE Replace(a)
      BY <1>2, <3>3 DEF Replace, Executed, LInv
    <3> QED BY <2>5, <3>1, <3>2, <3>3
  <2>6. CASE UNCHANGED loopVars
    BY <1>2, <2>6 DEF loopVars, LInv
  <2> QED BY <1>2, <2>1, <2>2, <2>3, <2>4, <2>5, <2>6 DEF LoopNext, Execute
<1> QED BY <1>1, <1>2, PTL DEF LoopSpec

\* STOP verified_resolved_consequence is only said of a case whose verified
\* answers resolve it by themselves, and to the conclusion all answers resolve
\* it to (analyze_inquiry): whatever the extractor answers, and whatever the
\* verification policies retain, retract or replace.
THEOREM VerifiedStopsAreCarried == LoopSpec => []VerifiedStopIsCarriedByVerifiedAnswers
<1>1. LInv => VerifiedStopIsCarriedByVerifiedAnswers
  BY VerifiedStops
<1> QED BY <1>1, LoopInvariant, PTL

\* STOP not_resolvable is a proof that no way to answer open questions resolves
\* the case (search_resolving_witness), although the search skips single
\* questions: for every tree whose models all conclude something.
THEOREM NotResolvableIsAProof == LoopSpec => []NotResolvableIsProved
<1>1. LInv => NotResolvableIsProved
  BY NotResolvableStops
<1> QED BY <1>1, LoopInvariant, PTL

-----------------------------------------------------------------------------
(* Decisive support.                                                       *)

\* Deletion and the minimality check go through kept, one answer at a time.
NoneTriedCanGo == \A q \in kept \ left : kept \ {q} \notin entails

Shrinking ==
  /\ stage \in {"base", "shrink"} => supports = {} /\ passed = {}
  /\ stage = "shrink" => consistent /\ kept \in entails /\ NoneTriedCanGo

Enumerated ==
  /\ consistent
  /\ supports # {} /\ supports \subseteq MinimalParts
  /\ Cardinality(supports) <= TopSupports
  /\ passed \cap MinimalParts = {}

Checking ==
  stage = "check" => kept \in entails /\ NoneTriedCanGo /\ Cardinality(supports) < TopSupports

\* The inductive invariant.
DInv ==
  /\ DecisiveTypeOK
  /\ Shrinking /\ Checking
  /\ stage \in {"enumerate", "check"} => Enumerated
  /\ stage # "done" => verdict = "none"
  /\ SupportsAreDecisive

\* The parts that entail are parts of the answers, and more answers entail more.
LEMMA EntailsIsUpClosed ==
  ASSUME entails \in Families \cup {{}}
  PROVE  /\ entails \subseteq SUBSET Admitted
         /\ \A S \in entails : \A R \in SUBSET Admitted : S \subseteq R => R \in entails
BY FamiliesAssumption, UpClosedAssumption

\* Where no single answer can go, no part can.
LEMMA NoneCanGoIsMinimal ==
  ASSUME DecisiveTypeOK, kept \in entails, \A q \in kept : kept \ {q} \notin entails
  PROVE  kept \in MinimalParts
<1> SUFFICES ASSUME NEW R \in entails, R \subseteq kept, R # kept
             PROVE  FALSE
  BY DEF MinimalParts
<1>1. PICK q \in kept : q \notin R
  OBVIOUS
<1>2. R \subseteq kept \ {q} /\ kept \ {q} \in SUBSET Admitted
  BY <1>1 DEF DecisiveTypeOK
<1>3. kept \ {q} \in entails
  BY <1>2, EntailsIsUpClosed DEF DecisiveTypeOK
<1> QED BY <1>3

\* When nothing is open, every minimal part is among the supports.
LEMMA NothingOpenIsComplete ==
  ASSUME DecisiveTypeOK, Enumerated, Open = {}
  PROVE  supports = MinimalParts
<1> SUFFICES ASSUME NEW R \in MinimalParts PROVE R \in supports
  BY DEF Enumerated
<1>1. R \in entails /\ R \in SUBSET Admitted /\ R \notin passed
  BY EntailsIsUpClosed DEF MinimalParts, DecisiveTypeOK, Enumerated
<1>2. PICK F \in supports : F \subseteq R
  BY <1>1 DEF Open
<1>3. F \in entails
  BY DEF Enumerated, MinimalParts
<1> QED BY <1>2, <1>3 DEF MinimalParts

\* One more support is counted.
LEMMA OneMoreSupport ==
  ASSUME DecisiveTypeOK
  PROVE  /\ Cardinality(supports) \in Nat
         /\ Cardinality({kept}) = 1
         /\ Cardinality(supports \cup {kept}) <= Cardinality(supports) + 1
<1>1. IsFiniteSet(SUBSET Admitted)
  BY AdmittedAssumption, FS_SUBSET
<1>2. IsFiniteSet(supports)
  BY <1>1, FS_Subset DEF DecisiveTypeOK
<1>3. Cardinality(supports) \in Nat
  BY <1>2, FS_CardinalityType
<1>4. Cardinality({kept}) = 1
  BY FS_Singleton
<1>5. Cardinality(supports \cup {kept}) =
        IF kept \in supports THEN Cardinality(supports) ELSE Cardinality(supports) + 1
  BY <1>2, FS_AddElement
<1> QED BY <1>3, <1>4, <1>5

\* What entails does not change, nor does what is minimal.
LEMMA FamilyIsFixed ==
  ASSUME entails' = entails
  PROVE  MinimalParts' = MinimalParts
BY DEF MinimalParts

\* An answer that cannot go is one more that was tried.
LEMMA OneMoreTried ==
  ASSUME NoneTriedCanGo, NEW q \in left, kept \ {q} \notin entails,
         left' = left \ {q}, kept' = kept, entails' = entails
  PROVE  NoneTriedCanGo'
<1> SUFFICES ASSUME NEW p \in kept, p \notin left \ {q}
             PROVE  kept \ {p} \notin entails
  BY DEF NoneTriedCanGo
<1>1. CASE p = q
  BY <1>1
<1>2. CASE p # q
  BY <1>2 DEF NoneTriedCanGo
<1> QED BY <1>1, <1>2

\* An end without an answer keeps the invariant.
LEMMA ConcludingIsSound ==
  ASSUME DInv, NEW how \in {"gave_up", "inconsistent", "target_not_entailed"}, Conclude(how)
  PROVE  DInv'
BY DEF Conclude, DInv, DecisiveTypeOK, Shrinking, Checking, SupportsAreDecisive

\* Every step of the search keeps it.
LEMMA StepKeepsSupportsDecisive ==
  ASSUME DInv, [DecisiveNext]_decisiveVars
  PROVE  DInv'
<1> USE DEF DInv
<1>1. CASE Establish
  <2>1. CASE /\ stage = "base" /\ consistent /\ Admitted \in entails
             /\ stage' = "shrink" /\ kept' = Admitted /\ left' = Admitted
             /\ UNCHANGED <<entails, consistent, supports, passed, verdict>>
    BY <2>1 DEF DecisiveTypeOK, Shrinking, Checking, NoneTriedCanGo, SupportsAreDecisive
  <2> QED BY <1>1, <2>1, ConcludingIsSound DEF Establish
<1>2. CASE Shrink
  <2>1. PICK q \in left :
          IF kept \ {q} \in entails
          THEN kept' = kept \ {q} /\ left' = kept \ {q}
          ELSE left' = left \ {q} /\ UNCHANGED kept
    BY <1>2 DEF Shrink
  <2>2. stage = "shrink" /\ UNCHANGED <<entails, consistent, stage, supports, passed, verdict>>
    BY <1>2 DEF Shrink
  <2>3. kept' \in entails /\ kept' \subseteq Admitted /\ left' \subseteq kept'
    BY <2>1, <2>2 DEF DecisiveTypeOK, Shrinking
  <2>4. NoneTriedCanGo'
    <3>1. CASE kept \ {q} \in entails
      BY <2>1, <3>1 DEF NoneTriedCanGo
    <3>2. CASE kept \ {q} \notin entails
      BY <2>1, <2>2, <3>2, OneMoreTried DEF Shrinking
    <3> QED BY <3>1, <3>2
  <2> QED BY <2>2, <2>3, <2>4 DEF DecisiveTypeOK, Shrinking, Checking, SupportsAreDecisive
<1>3. CASE Shrunk
  <2>1. /\ stage = "shrink" /\ left = {} /\ supports' = {kept}
        /\ UNCHANGED <<entails, consistent, kept, left, passed>>
        /\ \/ /\ TopSupports = 1 \/ Admitted = {}
              /\ stage' = "done" /\ verdict' = "ok"
           \/ stage' = "enumerate" /\ UNCHANGED verdict
    BY <1>3 DEF Shrunk
  <2>2. kept \in MinimalParts
    BY <2>1, NoneCanGoIsMinimal DEF Shrinking, NoneTriedCanGo
  <2>3. Cardinality(supports') = 1 /\ 1 <= TopSupports
    BY <2>1, OneMoreSupport, TopSupportsAssumption
  <2>4. MinimalParts' = MinimalParts
    BY <2>1, FamilyIsFixed
  <2>5. Enumerated'
    BY <2>1, <2>2, <2>3, <2>4 DEF Enumerated, Shrinking
  <2>6. DecisiveTypeOK' /\ Shrinking' /\ Checking'
    BY <2>1 DEF DecisiveTypeOK, Shrinking, Checking
  <2>7. Admitted = {} => MinimalParts = {kept}
    BY <2>2, EntailsIsUpClosed DEF DecisiveTypeOK, MinimalParts
  <2>8. SupportsAreDecisive'
    BY <2>1, <2>3, <2>4, <2>5, <2>7 DEF SupportsAreDecisive, Enumerated
  <2> QED BY <2>1, <2>5, <2>6, <2>8
<1>4. ASSUME NEW S \in Open, Enumerating(S)
      PROVE  DInv'
  <2>1. /\ stage = "enumerate" /\ Cardinality(supports) < TopSupports
        /\ UNCHANGED <<entails, consistent, supports, verdict>>
    BY <1>4 DEF Enumerating
  <2>2. S \in SUBSET Admitted
    BY DEF Open
  <2>3. MinimalParts' = MinimalParts
    BY <2>1, FamilyIsFixed
  <2>4. SupportsAreDecisive'
    BY <2>1 DEF SupportsAreDecisive
  <2>5. CASE S \notin entails /\ passed' = passed \cup {S} /\ UNCHANGED <<stage, kept, left>>
    <3>1. S \notin MinimalParts
      BY <2>5 DEF MinimalParts
    <3> QED BY <2>1, <2>2, <2>3, <2>4, <2>5, <3>1
            DEF DecisiveTypeOK, Shrinking, Checking, Enumerated
  <2>6. CASE S \in entails /\ stage' = "check" /\ kept' = S /\ left' = S /\ UNCHANGED passed
    BY <2>1, <2>2, <2>3, <2>4, <2>6
       DEF DecisiveTypeOK, Shrinking, Checking, Enumerated, NoneTriedCanGo
  <2> QED BY <1>4, <2>5, <2>6 DEF Enumerating
<1>5. CASE CheckMinimal
  <2>1. PICK q \in left :
          IF kept \ {q} \in entails
          THEN stage' = "enumerate" /\ passed' = passed \cup {kept} /\ UNCHANGED left
          ELSE left' = left \ {q} /\ UNCHANGED <<stage, passed>>
    BY <1>5 DEF CheckMinimal
  <2>2. stage = "check" /\ UNCHANGED <<entails, consistent, kept, supports, verdict>>
    BY <1>5 DEF CheckMinimal
  <2>3. MinimalParts' = MinimalParts
    BY <2>2, FamilyIsFixed
  <2>4. SupportsAreDecisive'
    BY <2>2 DEF SupportsAreDecisive
  <2>5. CASE kept \ {q} \in entails
    <3>1. kept \notin MinimalParts
      BY <2>5 DEF MinimalParts, DecisiveTypeOK
    <3> QED BY <2>1, <2>2, <2>3, <2>4, <2>5, <3>1
            DEF DecisiveTypeOK, Shrinking, Checking, Enumerated
  <2>6. CASE kept \ {q} \notin entails
    <3>1. NoneTriedCanGo'
      BY <2>1, <2>2, <2>6, OneMoreTried DEF Checking
    <3> QED BY <2>1, <2>2, <2>3, <2>4, <2>6, <3>1
            DEF DecisiveTypeOK, Shrinking, Checking, Enumerated
  <2> QED BY <2>5, <2>6
<1>6. CASE IsMinimal
  <2>1. /\ stage = "check" /\ left = {} /\ supports' = supports \cup {kept}
        /\ stage' = "enumerate"
        /\ UNCHANGED <<entails, consistent, kept, left, passed, verdict>>
    BY <1>6 DEF IsMinimal
  <2>2. kept \in MinimalParts
    BY <2>1, NoneCanGoIsMinimal DEF Checking, NoneTriedCanGo
  <2>3. Cardinality(supports') <= TopSupports
    <3>1. IsFiniteSet(SUBSET Admitted) /\ supports' \subseteq SUBSET Admitted
      BY <2>1, AdmittedAssumption, FS_SUBSET DEF DecisiveTypeOK
    <3>2. Cardinality(supports') \in Nat
      BY <3>1, FS_Subset, FS_CardinalityType
    <3> QED BY <2>1, <3>2, OneMoreSupport, TopSupportsAssumption DEF Checking
  <2>4. MinimalParts' = MinimalParts
    BY <2>1, FamilyIsFixed
  <2> QED BY <2>1, <2>2, <2>3, <2>4
          DEF DecisiveTypeOK, Shrinking, Checking, Enumerated, SupportsAreDecisive
<1>7. CASE EnumerationEnds
  <2>1. /\ stage = "enumerate" /\ stage' = "done" /\ verdict' = "ok"
        /\ UNCHANGED <<entails, consistent, kept, left, supports, passed>>
        /\ Cardinality(supports) >= TopSupports \/ Open = {}
    BY <1>7 DEF EnumerationEnds, Conclude
  <2>2. MinimalParts' = MinimalParts
    BY <2>1, FamilyIsFixed
  <2>3. Cardinality(supports) < TopSupports => supports = MinimalParts
    BY <2>1, NothingOpenIsComplete, OneMoreSupport, TopSupportsAssumption
  <2> QED BY <2>1, <2>2, <2>3
          DEF DecisiveTypeOK, Shrinking, Checking, Enumerated, SupportsAreDecisive
<1>8. CASE QueryFails
  BY <1>8, ConcludingIsSound DEF QueryFails
<1>9. CASE UNCHANGED decisiveVars
  BY <1>9, FamilyIsFixed DEF decisiveVars, DecisiveTypeOK, Shrinking, Checking, NoneTriedCanGo,
                             Enumerated, SupportsAreDecisive
<1> QED BY <1>1, <1>2, <1>3, <1>4, <1>5, <1>6, <1>7, <1>8, <1>9 DEF DecisiveNext

\* The invariant of the search.
LEMMA DecisiveInvariant == DecisiveSpec => []DInv
<1>1. DecisiveInit => DInv
  BY DEF DecisiveInit, DInv, DecisiveTypeOK, Shrinking, Checking, SupportsAreDecisive
<1> QED BY <1>1, StepKeepsSupportsDecisive, PTL DEF DecisiveSpec

\* An answered call (find_minimal_decisive_supports) names parts of
\* consistent answers that force the target and of which nothing can go, and
\* leaves none out unless it names top_k.
THEOREM SupportsForceTheTarget == DecisiveSpec => []SupportsAreDecisive
<1>1. DInv => SupportsAreDecisive
  BY DEF DInv
<1> QED BY <1>1, DecisiveInvariant, PTL

-----------------------------------------------------------------------------
(* Repair.                                                                 *)

\* A request of a client.
IsRequest(r) == \E c \in Cases : r \in Requests(c)

SoundPlan(r, p) ==
  /\ Touched(p) \subseteq Candidates(r)
  /\ PlanSize(p) \in 1..r.most
  /\ Reaches(r, Repaired(r.answers, p))

\* The inductive invariant: PlansReachTheTarget, for the plans not told yet too.
RInv ==
  /\ IsRequest(request)
  /\ \A p \in plans \cup reply.plans : SoundPlan(request, p)
  /\ reply.code = "already_reachable" => Reaches(request, request.answers)

\* A client gives a question one answer, and asks in one of two modes.
LEMMA RequestShape ==
  ASSUME NEW r, IsRequest(r)
  PROVE  /\ \A x, y \in r.answers : x[1] = y[1] => x[2] = y[2]
         /\ r.mode \in {"entailed", "possible"}
         /\ Runs[r.ir] # {}
<1>1. PICK c \in Cases : r \in Requests(c)
  BY DEF IsRequest
<1>2. PICK E \in UNION {AnswersTo(c.ir, Q) : Q \in SUBSET c.ir.questions} :
        r.answers = E /\ r.ir = c.ir /\ r.mode \in {"entailed", "possible"}
  BY <1>1 DEF Requests
<1>3. PICK Q \in SUBSET c.ir.questions : E \in AnswersTo(c.ir, Q)
  BY <1>2
<1>4. PICK f : E = {<<q, f[q]>> : q \in Q}
  BY <1>3 DEF AnswersTo
<1>5. \A x, y \in E : x[1] = y[1] => x[2] = y[2]
  BY <1>4
<1> QED BY <1>2, <1>5, TheoryHasAModel

\* Answers are pairs.
LEMMA AnswersArePairs ==
  ASSUME NEW r, IsRequest(r), NEW x \in r.answers
  PROVE  x = <<x[1], x[2]>>
<1>1. PICK c \in Cases : r \in Requests(c)
  BY DEF IsRequest
<1>2. r.answers \in UNION {AnswersTo(c.ir, Q) : Q \in SUBSET c.ir.questions}
  BY <1>1 DEF Requests
<1>3. PICK Q \in SUBSET c.ir.questions : r.answers \in AnswersTo(c.ir, Q)
  BY <1>2
<1>4. PICK f : r.answers = {<<q, f[q]>> : q \in Q}
  BY <1>3 DEF AnswersTo
<1> QED BY <1>4

\* An UNSAT answer is believed only when the base has a model: what the gate
\* affirms is so.
LEMMA GateIsReliable ==
  ASSUME NEW r, Runs[r.ir] # {}, NEW E, Affirms(Gate(r, E))
  PROVE  Reaches(r, E)
<1> DEFINE B == Base(r, E)
           hits == ReachingTarget(r, B)
<1>1. CASE r.mode = "possible"
  <2>1. Ladder(r, E, "impossible") \in {"answers_inconsistent", "assumptions_inconsistent", "impossible"}
    BY DEF Ladder
  <2>2. hits # {}
    BY <1>1, <2>1 DEF Gate, Affirms
  <2>3. B # {}
    BY <2>2 DEF ReachingTarget
  <2> QED BY <1>1, <2>2, <2>3 DEF Reaches
<1>2. CASE r.mode # "possible"
  <2>1. hits = B /\ Ladder(r, E, "entailed") = "entailed"
    <3>1. Ladder(r, E, "entailed") \in {"answers_inconsistent", "assumptions_inconsistent", "entailed"}
      BY DEF Ladder
    <3> QED BY <1>2, <3>1 DEF Gate, Affirms
  <2>2. B # {}
    <3>1. CASE r.phi # NoPhi
      BY <2>1, <3>1 DEF Ladder
    <3>2. CASE r.phi = NoPhi
      <4>1. B = Models(Runs[r.ir], E)
        BY <3>2 DEF Base, NoPhi, Models
      <4>2. E = {} => Models(Runs[r.ir], E) = Runs[r.ir]
        BY DEF Models
      <4>3. E # {} => Models(Runs[r.ir], E) # {}
        BY <2>1 DEF Ladder
      <4> QED BY <4>1, <4>2, <4>3
    <3> QED BY <3>1, <3>2
  <2> QED BY <1>2, <2>1, <2>2 DEF Reaches
<1> QED BY <1>1, <1>2

\* The model that was shown is a model of what the plan leaves.
LEMMA ShownModelIsKept ==
  ASSUME NEW r, IsRequest(r), NEW S, NEW m \in Shown(r, S)
  PROVE  m \in Base(r, Repaired(r.answers, Realized(r, m, S)))
<1> DEFINE plan == Realized(r, m, S)
           kept0 == {p \in r.answers : p[1] \notin S}
<1>1. /\ m \in Runs[r.ir] /\ r.target \in m.reached
      /\ r.phi.reachable \subseteq m.reached /\ r.phi.unreachable \cap m.reached = {}
      /\ \A p \in kept0 : m.choice[p[1]] = p[2]
  BY DEF Shown, ReachingTarget, Base, Models
<1>2. \A x \in plan.changed : m.choice[x[1]] = x[2]
  BY DEF Realized
<1>3. ASSUME NEW x \in r.answers, x[1] \notin Touched(plan)
      PROVE  m.choice[x[1]] = x[2]
  <2>1. CASE x[1] \notin S
    BY <1>1, <2>1
  <2>2. CASE x[1] \in S
    <3> DEFINE y == <<x[1], m.choice[x[1]]>>
    <3>1. x[1] \in m.reached
      BY <1>3, <2>2 DEF Touched, Realized
    <3>2. y \in plan.changed => x[1] \in Touched(plan)
      BY DEF Touched
    <3>3. y \in r.answers
      BY <1>3, <2>2, <3>1, <3>2 DEF Realized
    <3>4. x[2] = y[2]
      BY <3>3, RequestShape
    <3> QED BY <3>4
  <2> QED BY <2>1, <2>2
<1>4. \A x \in Repaired(r.answers, plan) : m.choice[x[1]] = x[2]
  BY <1>2, <1>3 DEF Repaired
<1> QED BY <1>1, <1>4 DEF Base, Models

\* So it is where the target need only be possible.
LEMMA ShownModelStands ==
  ASSUME NEW r, IsRequest(r), r.mode = "possible", NEW S, NEW m \in Shown(r, S)
  PROVE  Reaches(r, Repaired(r.answers, Realized(r, m, S)))
<1>1. r.target \in m.reached
  BY DEF Shown, ReachingTarget
<1> QED BY <1>1, ShownModelIsKept DEF Reaches, ReachingTarget

\* A plan read off a model and accepted is sound.
LEMMA AcceptedPlanIsSound ==
  ASSUME NEW r, IsRequest(r), NEW S \in SUBSET Candidates(r), NEW m \in Shown(r, S),
         Accepts(r, Realized(r, m, S))
  PROVE  SoundPlan(r, Realized(r, m, S))
<1> DEFINE plan == Realized(r, m, S)
<1>1. Touched(plan) \subseteq Candidates(r)
  BY DEF Touched, Realized
<1>2. PlanSize(plan) \in 1..r.most
  BY DEF Accepts
<1>3. CASE r.mode = "possible"
  BY <1>1, <1>2, <1>3, ShownModelStands DEF SoundPlan
<1>4. CASE r.mode = "entailed"
  <2>1. Affirms(Gate(r, Repaired(r.answers, plan)))
    BY <1>4 DEF Accepts, Affirms
  <2> QED BY <1>1, <1>2, <2>1, RequestShape, GateIsReliable DEF SoundPlan
<1> QED BY <1>3, <1>4, RequestShape

\* A reply made of plans at hand, and not "already reachable", is sound.
LEMMA ReplyIsSound ==
  ASSUME RInv, NEW code, NEW found \in SUBSET plans, Reply(code, found),
         code = "already_reachable" => Reaches(request, request.answers)
  PROVE  RInv'
BY DEF Reply, RInv, IsRequest

\* Every step of the search keeps it.
LEMMA StepKeepsPlansSound ==
  ASSUME RInv, [RepairNext]_repairVars
  PROVE  RInv'
<1>1. CASE Preflight
  <2>1. CASE Reply("target_not_reachable_under_locks", {})
    BY <2>1, ReplyIsSound
  <2>2. CASE UNCHANGED <<request, plans, reply>>
    BY <2>2 DEF RInv, IsRequest
  <2> QED BY <1>1, <2>1, <2>2 DEF Preflight
<1>2. CASE Baseline
  <2> DEFINE status == Gate(request, request.answers)
  <2>1. CASE Affirms(status) /\ Reply("already_reachable", {})
    BY <2>1, RequestShape, GateIsReliable, ReplyIsSound DEF RInv
  <2>2. CASE status \in {"answers_inconsistent", "assumptions_inconsistent"} /\ Reply(status, {})
    BY <2>2, ReplyIsSound
  <2>3. CASE UNCHANGED <<request, plans, reply>>
    BY <2>3 DEF RInv, IsRequest
  <2> QED BY <1>2, <2>1, <2>2, <2>3 DEF Baseline
<1>3. ASSUME NEW S \in Layer, Free(S)
      PROVE  RInv'
  <2>1. UNCHANGED <<request, reply>> /\ S \in SUBSET Candidates(request)
    BY <1>3 DEF Free, Layer
  <2>2. CASE UNCHANGED plans
    BY <2>1, <2>2 DEF RInv, IsRequest
  <2>3. ASSUME NEW m \in Shown(request, S),
               plans' = plans \cup {p \in {Realized(request, m, S)} : Accepts(request, p)}
        PROVE  RInv'
    <3>1. \A p \in plans' : SoundPlan(request, p)
      BY <2>1, <2>3, AcceptedPlanIsSound DEF RInv
    <3> QED BY <2>1, <3>1 DEF RInv, IsRequest
  <2> QED BY <1>3, <2>2, <2>3 DEF Free
<1>4. CASE LayerEnds
  <2>1. ASSUME NEW best \in Best(plans), Reply("plans", best)
        PROVE  RInv'
    BY <2>1, ReplyIsSound DEF Best
  <2>2. CASE Reply("no_plan_within_max_changes", {})
    BY <2>2, ReplyIsSound
  <2>3. CASE UNCHANGED <<request, plans, reply>>
    BY <2>3 DEF RInv, IsRequest
  <2> QED BY <1>4, <2>1, <2>2, <2>3 DEF LayerEnds
<1>5. CASE TimesOutAsking
  BY <1>5, ReplyIsSound DEF TimesOutAsking
<1>6. CASE BudgetUsedUp
  <2>1. Reply("plans", plans) \/ Reply("search_cap_exceeded", plans)
    BY <1>6 DEF BudgetUsedUp
  <2> QED BY <2>1, ReplyIsSound
<1>7. CASE UNCHANGED repairVars
  BY <1>7 DEF repairVars, RInv, IsRequest
<1> QED BY <1>1, <1>2, <1>3, <1>4, <1>5, <1>6, <1>7 DEF RepairNext

\* Every plan the client is told changes between one and max_changes answers,
\* none of them locked, and leaves consistent answers that make the target
\* follow; "already reachable" is said of such answers
\* (find_repairs_for_target), for every tree that has a model, any answers,
\* locks and bounds.
THEOREM PlansAreSound == RepairSpec => []PlansReachTheTarget
<1>1. RepairInit => RInv
  BY DEF RepairInit, RInv, IsRequest
<1>2. RInv /\ [RepairNext]_repairVars => RInv'
  BY StepKeepsPlansSound
<1>3. RInv => PlansReachTheTarget
  BY DEF RInv, SoundPlan, PlansReachTheTarget
<1> QED BY <1>1, <1>2, <1>3, PTL DEF RepairSpec

-----------------------------------------------------------------------------
(* That no smaller edit does.                                              *)

\* Some answer in place of those of S, or of some of them, reaches the target.
Frees(r, S) ==
  \E alpha \in UNION {AnswersTo(r.ir, Q) : Q \in SUBSET S} :
    Reaches(r, {p \in r.answers : p[1] \notin S} \cup alpha)

NothingBelow(r, n) == \A S \in SUBSET Candidates(r) : Cardinality(S) < n => ~Frees(r, S)

\* The baseline said no.
Refused(r) == Gate(r, r.answers) \in {"impossible", "not_entailed"}

Exhaustive ==
  /\ freeing \in 1..request.most /\ freed \subseteq SUBSET Candidates(request)
  /\ Refused(request)
  /\ Exact(request) => NothingBelow(request, freeing)
  /\ Exact(request) /\ plans = {} => \A S \in freed : ~Frees(request, S)

\* The inductive invariant: sizes below the one at hand have been gone through
\* in vain, and no combination tried at this size would have done when no plan
\* has been found.
MInv ==
  /\ RInv
  /\ IsFiniteSet(plans)
  /\ progress \in {"preflight", "baseline"} => plans = {}
  /\ progress \in {"preflight", "baseline"} => freeing = 0 /\ freed = {}
  /\ progress = "search" => Exhaustive
  /\ \A p \in plans : PlanSize(p) <= freeing
  /\ progress # "done" => reply.code = "none"
  /\ reply.code = "plans" =>
       /\ reply.plans # {} /\ reply.plans \subseteq plans
       /\ freeing \in Nat
       /\ Exact(request) => NothingBelow(request, freeing)
  /\ reply.code = "no_plan_within_max_changes" /\ Exact(request) =>
       NothingBelow(request, request.most + 1)

\* The answers of a request are its questions', finitely many, and so are the
\* combinations that can be freed.
LEMMA RequestIsFinite ==
  ASSUME NEW r, IsRequest(r)
  PROVE  /\ \E c \in Cases : r.ir = c.ir
         /\ IsFiniteSet(r.ir.questions) /\ Answered(r) \subseteq r.ir.questions
         /\ r.most \in 1..5
         /\ \A S \in SUBSET Candidates(r) : IsFiniteSet(S) /\ Cardinality(S) \in Nat
<1>1. PICK c \in Cases : r \in Requests(c)
  BY DEF IsRequest
<1>2. /\ r.ir = c.ir /\ r.most \in MostChanges
      /\ r.answers \in UNION {AnswersTo(c.ir, Q) : Q \in SUBSET c.ir.questions}
  BY <1>1 DEF Requests
<1>3. IsFiniteSet(r.ir.questions)
  BY <1>2, CasesAreTrees
<1>4. Answered(r) \subseteq r.ir.questions
  <2>1. PICK Q \in SUBSET c.ir.questions : r.answers \in AnswersTo(c.ir, Q)
    BY <1>2
  <2>2. PICK f : r.answers = {<<q, f[q]>> : q \in Q}
    BY <2>1 DEF AnswersTo
  <2> QED BY <1>2, <2>2 DEF Answered
<1>5. \A S \in SUBSET Candidates(r) : IsFiniteSet(S)
  BY <1>3, <1>4, FS_Subset DEF Candidates
<1> QED BY <1>2, <1>3, <1>4, <1>5, MostChangesAssumption, FS_CardinalityType

\* What follows from consistent answers the gate affirms.
LEMMA GateIsComplete ==
  ASSUME NEW r, NEW E, Reaches(r, E)
  PROVE  Affirms(Gate(r, E))
<1>1. Base(r, E) # {}
  BY DEF Reaches
<1>2. Models(Runs[r.ir], E) # {}
  BY <1>1 DEF Base
<1>3. Ladder(r, E, "entailed") = "entailed"
  BY <1>1, <1>2 DEF Ladder
<1> QED BY <1>3 DEF Reaches, Gate, Affirms

\* When the evidence gives every question on the route of one of its models
\* the option that model chooses, all its models take that route.
LEMMA RouteIsFixed ==
  ASSUME NEW r, IsRequest(r), NEW E, NEW m \in Base(r, E), NEW o \in Base(r, E),
         \A q \in r.ir.questions \cap m.reached : <<q, m.choice[q]>> \in E
  PROVE  o.reached = m.reached
<1>1. PICK c \in Cases : r.ir = c.ir
  BY RequestIsFinite
<1>2. /\ m \in Runs[c.ir] /\ o \in Runs[c.ir]
      /\ \A p \in E : m.choice[p[1]] = p[2] /\ o.choice[p[1]] = p[2]
  BY <1>1 DEF Base, Models
<1>3. m.reached = Reached(c.ir, m.choice) /\ o.reached = Reached(c.ir, o.choice)
  BY <1>2 DEF Runs
<1>4. \A e \in c.ir.edges : e.src \in Reached(c.ir, m.choice) => o.choice[e.src] = m.choice[e.src]
  <2> SUFFICES ASSUME NEW e \in c.ir.edges, e.src \in Reached(c.ir, m.choice)
               PROVE  o.choice[e.src] = m.choice[e.src]
    OBVIOUS
  <2>1. <<e.src, m.choice[e.src]>> \in E
    BY <1>1, <1>3, CasesAreTrees
  <2> QED BY <1>2, <2>1
<1>5. IsFiniteSet(c.ir.questions)
  BY CasesAreTrees
<1> QED BY <1>3, <1>4, <1>5, SameRoute

\* So when every question is answered, what one model reaches is entailed.
LEMMA OneModelTellsAll ==
  ASSUME NEW r, IsRequest(r), NEW E, NEW m \in Base(r, E), r.target \in m.reached,
         \A q \in r.ir.questions \cap m.reached : <<q, m.choice[q]>> \in E
  PROVE  Reaches(r, E)
<1>1. \A o \in Base(r, E) : r.target \in o.reached
  BY RouteIsFixed
<1> QED BY <1>1 DEF Reaches, ReachingTarget

\* A pair for each question of a set is as many pairs at most.
LEMMA AsManyPairs ==
  ASSUME NEW Q, IsFiniteSet(Q), NEW f
  PROVE  /\ IsFiniteSet({<<q, f[q]>> : q \in Q})
         /\ Cardinality({<<q, f[q]>> : q \in Q}) <= Cardinality(Q)
<1> DEFINE g == [q \in Q |-> <<q, f[q]>>]
<1>1. g \in Surjection(Q, {<<q, f[q]>> : q \in Q})
  BY DEF Surjection
<1> QED BY <1>1, FS_Surjection

\* A plan touches no more answers than were freed ...
LEMMA PlanFitsTheCombination ==
  ASSUME NEW r, IsRequest(r), NEW S \in SUBSET Candidates(r), NEW m
  PROVE  LET plan == Realized(r, m, S)
         IN  /\ IsFiniteSet(plan.changed) /\ IsFiniteSet(plan.dropped)
             /\ PlanSize(plan) \in Nat /\ PlanSize(plan) <= Cardinality(S)
             /\ PlanSize(plan) = 0 => plan.changed = {} /\ plan.dropped = {}
<1> DEFINE plan == Realized(r, m, S)
           pairs == {<<q, m.choice[q]>> : q \in S \cap m.reached}
<1>1. IsFiniteSet(S) /\ Cardinality(S) \in Nat
  BY RequestIsFinite
<1>2. /\ IsFiniteSet(S \cap m.reached) /\ Cardinality(S \cap m.reached) \in Nat
      /\ IsFiniteSet(S \ m.reached) /\ Cardinality(S \ m.reached) \in Nat
      /\ Cardinality(S \ m.reached) = Cardinality(S) - Cardinality(S \cap m.reached)
  BY <1>1, FS_Difference, FS_Intersection, FS_CardinalityType
<1>3. IsFiniteSet(pairs) /\ Cardinality(pairs) <= Cardinality(S \cap m.reached)
  BY <1>2, AsManyPairs
<1>4. /\ IsFiniteSet(pairs \ r.answers) /\ Cardinality(pairs \ r.answers) <= Cardinality(pairs)
      /\ Cardinality(pairs) \in Nat /\ Cardinality(pairs \ r.answers) \in Nat
  BY <1>3, FS_Subset, FS_CardinalityType
<1>5. plan.changed = pairs \ r.answers /\ plan.dropped = S \ m.reached
  BY DEF Realized
<1> HIDE DEF plan, pairs
<1>6. PlanSize(plan) = Cardinality(plan.changed) + Cardinality(plan.dropped)
  BY DEF PlanSize
<1>7. PlanSize(plan) \in Nat /\ PlanSize(plan) <= Cardinality(S)
  BY <1>1, <1>2, <1>3, <1>4, <1>5, <1>6
<1>8. PlanSize(plan) = 0 => Cardinality(plan.changed) = 0 /\ Cardinality(plan.dropped) = 0
  BY <1>2, <1>4, <1>5, <1>6
<1>9. PlanSize(plan) = 0 => plan.changed = {} /\ plan.dropped = {}
  BY <1>2, <1>4, <1>5, <1>8, FS_EmptySet
<1> QED BY <1>2, <1>4, <1>5, <1>7, <1>9 DEF plan

\* ... and answers every question on the route of the model shown as that
\* model does, if every question was answered.
LEMMA RepairedAnswersTheRoute ==
  ASSUME NEW r, IsRequest(r), Answered(r) = r.ir.questions, NEW S, NEW m \in Shown(r, S),
         NEW q \in r.ir.questions \cap m.reached
  PROVE  <<q, m.choice[q]>> \in Repaired(r.answers, Realized(r, m, S))
<1> DEFINE plan == Realized(r, m, S)
           pair == <<q, m.choice[q]>>
<1>1. PICK x \in r.answers : x[1] = q
  BY DEF Answered
<1>2. x = <<x[1], x[2]>>
  BY AnswersArePairs
<1>3. q \notin plan.dropped
  BY DEF Realized
<1>4. ASSUME pair \in r.answers
      PROVE  pair \in Repaired(r.answers, plan)
  <2>1. ASSUME NEW y \in plan.changed, y[1] = q
        PROVE  FALSE
    <3>1. y = pair /\ y \notin r.answers
      BY <2>1 DEF Realized
    <3> QED BY <1>4, <3>1
  <2>2. q \notin Touched(plan)
    BY <1>3, <2>1 DEF Touched
  <2> QED BY <1>4, <2>2 DEF Repaired
<1>5. CASE q \in S
  <2>1. CASE pair \in r.answers
    BY <1>4, <2>1
  <2>2. CASE pair \notin r.answers
    <3>1. pair \in plan.changed
      BY <1>5, <2>2 DEF Realized
    <3> QED BY <3>1 DEF Repaired
  <2> QED BY <2>1, <2>2
<1>6. CASE q \notin S
  <2>1. m.choice[x[1]] = x[2]
    BY <1>1, <1>6 DEF Shown, ReachingTarget, Base, Models
  <2>2. pair \in r.answers
    BY <1>1, <1>2, <2>1
  <2> QED BY <1>4, <2>2
<1> QED BY <1>5, <1>6

\* A combination that would do yields a plan, whichever model is shown for it.
LEMMA FreeingFinds ==
  ASSUME NEW r, IsRequest(r), Exact(r), Refused(r), NEW S \in SUBSET Candidates(r),
         Cardinality(S) <= r.most, Frees(r, S)
  PROVE  Shown(r, S) # {} /\ \A m \in Shown(r, S) : Accepts(r, Realized(r, m, S))
<1>1. Shown(r, S) # {}
  <2>1. PICK alpha : Reaches(r, {p \in r.answers : p[1] \notin S} \cup alpha)
    BY DEF Frees
  <2>2. PICK m \in Base(r, {p \in r.answers : p[1] \notin S} \cup alpha) : r.target \in m.reached
    BY <2>1 DEF Reaches, ReachingTarget
  <2>3. m \in Shown(r, S)
    BY <2>2 DEF Shown, ReachingTarget, Base, Models
  <2> QED BY <2>3
<1>2. ~Reaches(r, r.answers)
  BY GateIsComplete DEF Refused, Affirms
<1>3. ASSUME NEW m \in Shown(r, S)
      PROVE  Accepts(r, Realized(r, m, S))
  <2> DEFINE plan == Realized(r, m, S)
             E == Repaired(r.answers, plan)
  <2>1. m \in Base(r, E) /\ r.target \in m.reached
    BY ShownModelIsKept DEF Shown, ReachingTarget
  <2>2. Reaches(r, E)
    <3>1. CASE r.mode = "possible"
      BY <3>1, ShownModelStands
    <3>2. CASE Answered(r) = r.ir.questions
      <4>1. \A q \in r.ir.questions \cap m.reached : <<q, m.choice[q]>> \in E
        BY <3>2, RepairedAnswersTheRoute
      <4> QED BY <2>1, <4>1, OneModelTellsAll
    <3> QED BY <3>1, <3>2 DEF Exact
  <2>3. PlanSize(plan) # 0
    <3> SUFFICES ASSUME PlanSize(plan) = 0
                 PROVE  FALSE
      OBVIOUS
    <3>1. plan.changed = {} /\ plan.dropped = {}
      BY PlanFitsTheCombination
    <3>2. E = r.answers
      BY <3>1 DEF Repaired, Touched
    <3> QED BY <1>2, <2>2, <3>2
  <2>4. PlanSize(plan) \in 1..r.most
    <3>1. PlanSize(plan) \in Nat /\ PlanSize(plan) <= Cardinality(S)
      BY PlanFitsTheCombination
    <3>2. Cardinality(S) \in Nat /\ r.most \in 1..5
      BY RequestIsFinite
    <3> HIDE DEF plan
    <3> QED BY <2>3, <3>1, <3>2
  <2>5. r.mode = "entailed" => Gate(r, E) = "entailed"
    <3>1. Affirms(Gate(r, E))
      BY <2>2, GateIsComplete
    <3>2. r.mode = "entailed" => Gate(r, E) # "possible"
      BY DEF Gate, Ladder
    <3> QED BY <3>1, <3>2 DEF Affirms
  <2> QED BY <2>4, <2>5 DEF Accepts
<1> QED BY <1>1, <1>3

\* A combination tried without success would not have done.
LEMMA TryingKeepsExhaustive ==
  ASSUME MInv, NEW S \in Layer, Free(S)
  PROVE  Exhaustive' /\ IsFiniteSet(plans') /\ \A p \in plans' : PlanSize(p) <= freeing
<1>1. /\ progress = "search" /\ freed' = freed \cup {S} /\ UNCHANGED <<request, freeing>>
      /\ S \in SUBSET Candidates(request) /\ Cardinality(S) = freeing
      /\ Exhaustive /\ IsRequest(request) /\ IsFiniteSet(plans)
      /\ \A p \in plans : PlanSize(p) <= freeing
  BY DEF Free, Layer, MInv, RInv
<1>2. CASE Shown(request, S) = {} /\ UNCHANGED plans
  <2>1. Exact(request) => ~Frees(request, S)
    BY <1>1, <1>2, FreeingFinds, RequestIsFinite DEF Exhaustive
  <2> QED BY <1>1, <1>2, <2>1 DEF Exhaustive
<1>3. ASSUME NEW m \in Shown(request, S),
             plans' = plans \cup {p \in {Realized(request, m, S)} : Accepts(request, p)}
      PROVE  Exhaustive' /\ IsFiniteSet(plans') /\ \A p \in plans' : PlanSize(p) <= freeing
  <2> DEFINE plan == Realized(request, m, S)
  <2>1. plans' = {} => ~Accepts(request, plan)
    BY <1>3
  <2>2. plans' = {} /\ Exact(request) => ~Frees(request, S)
    BY <1>1, <2>1, FreeingFinds, RequestIsFinite DEF Exhaustive
  <2>3. plans' = {} => plans = {}
    BY <1>3
  <2>4. Exhaustive'
    BY <1>1, <2>2, <2>3 DEF Exhaustive
  <2>5. IsFiniteSet(plans')
    <3>1. IsFiniteSet(plans \cup {plan}) /\ plans' \subseteq plans \cup {plan}
      BY <1>1, <1>3, FS_AddElement
    <3> QED BY <3>1, FS_Subset
  <2>6. PlanSize(plan) <= freeing
    BY <1>1, PlanFitsTheCombination
  <2> QED BY <1>1, <1>3, <2>4, <2>5, <2>6
<1> QED BY <1>2, <1>3 DEF Free

\* A layer without a plan is done with when all its combinations were tried.
LEMMA LayerIsDone ==
  ASSUME MInv, progress = "search", Layer = {}, plans = {}, Exact(request)
  PROVE  NothingBelow(request, freeing + 1)
<1> SUFFICES ASSUME NEW S \in SUBSET Candidates(request), Cardinality(S) < freeing + 1
             PROVE  ~Frees(request, S)
  BY DEF NothingBelow
<1>1. Exhaustive /\ freeing \in Nat /\ Cardinality(S) \in Nat
  BY RequestIsFinite DEF MInv, RInv, Exhaustive
<1>2. CASE Cardinality(S) < freeing
  BY <1>1, <1>2 DEF Exhaustive, NothingBelow
<1>3. CASE Cardinality(S) = freeing
  <2>1. S \in freed
    BY <1>3 DEF Layer
  <2> QED BY <1>1, <2>1 DEF Exhaustive
<1> QED BY <1>1, <1>2, <1>3

\* Replies the invariant allows.
LEMMA ReplyIsExhaustive ==
  ASSUME MInv, RInv', NEW code, NEW found, Reply(code, found),
         code = "plans" => /\ found # {} /\ found \subseteq plans
                           /\ freeing \in Nat /\ (Exact(request) => NothingBelow(request, freeing)),
         code = "no_plan_within_max_changes" /\ Exact(request) => NothingBelow(request, request.most + 1)
  PROVE  MInv'
<1>1. /\ progress' = "done" /\ reply'.code = code /\ reply'.plans = found
      /\ UNCHANGED <<request, freeing, freed, plans>>
  BY DEF Reply
<1>2. Exact(request)' = Exact(request)
  BY <1>1 DEF Exact, Answered
<1> QED BY <1>1, <1>2 DEF MInv

\* Every step of the search keeps the invariant.
LEMMA StepKeepsSearchExhaustive ==
  ASSUME MInv, [RepairNext]_repairVars
  PROVE  MInv'
<1>0. RInv /\ RInv'
  BY StepKeepsPlansSound DEF MInv
<1>1. CASE Preflight
  <2>1. CASE Reply("target_not_reachable_under_locks", {})
    BY <1>0, <2>1, ReplyIsExhaustive
  <2>2. CASE progress' = "baseline" /\ UNCHANGED <<request, freeing, freed, plans, reply>>
    <3>1. progress = "preflight"
      BY <1>1 DEF Preflight
    <3> QED BY <1>0, <2>2, <3>1 DEF MInv
  <2> QED BY <1>1, <2>1, <2>2 DEF Preflight
<1>2. CASE Baseline
  <2> DEFINE status == Gate(request, request.answers)
  <2>1. progress = "baseline" /\ plans = {} /\ freed = {} /\ reply.code = "none"
    BY <1>2 DEF Baseline, MInv
  <2>2. CASE Affirms(status) /\ Reply("already_reachable", {})
    BY <1>0, <2>2, ReplyIsExhaustive
  <2>3. CASE status \in {"answers_inconsistent", "assumptions_inconsistent"} /\ Reply(status, {})
    BY <1>0, <2>3, ReplyIsExhaustive
  <2>4. CASE /\ ~Affirms(status)
             /\ status \notin {"answers_inconsistent", "assumptions_inconsistent"}
             /\ progress' = "search" /\ freeing' = 1
             /\ UNCHANGED <<request, freed, plans, reply>>
    <3>1. IsRequest(request) /\ request.most \in 1..5
      BY <1>0, RequestIsFinite DEF RInv
    <3>2. Refused(request)
      BY <2>4 DEF Refused, Affirms, Gate, Ladder
    <3>3. NothingBelow(request, 1)
      <4> SUFFICES ASSUME NEW S \in SUBSET Candidates(request), Cardinality(S) < 1, Frees(request, S)
                   PROVE  FALSE
        BY DEF NothingBelow
      <4>1. S = {}
        <5>1. IsFiniteSet(S) /\ Cardinality(S) \in Nat
          BY <3>1, RequestIsFinite
        <5>2. Cardinality(S) = 0
          BY <5>1
        <5> QED BY <5>1, <5>2, FS_EmptySet
      <4>2. PICK alpha \in UNION {AnswersTo(request.ir, Q) : Q \in SUBSET S} :
              Reaches(request, {p \in request.answers : p[1] \notin S} \cup alpha)
        BY DEF Frees
      <4>3. alpha = {}
        BY <4>1, <4>2 DEF AnswersTo
      <4>4. {p \in request.answers : p[1] \notin S} \cup alpha = request.answers
        BY <4>1, <4>3
      <4>5. Affirms(status)
        BY <4>2, <4>4, GateIsComplete
      <4> QED BY <2>4, <4>5
    <3>4. Exhaustive'
      BY <2>1, <2>4, <3>1, <3>2, <3>3 DEF Exhaustive
    <3> QED BY <1>0, <2>1, <2>4, <3>4, FS_EmptySet DEF MInv
  <2> QED BY <1>2, <2>2, <2>3, <2>4 DEF Baseline
<1>3. ASSUME NEW S \in Layer, Free(S)
      PROVE  MInv'
  <2>1. Exhaustive' /\ IsFiniteSet(plans') /\ \A p \in plans' : PlanSize(p) <= freeing
    BY <1>3, TryingKeepsExhaustive
  <2>2. progress = "search" /\ UNCHANGED <<request, progress, freeing, reply>>
    BY <1>3 DEF Free
  <2> QED BY <1>0, <2>1, <2>2 DEF MInv
<1>4. CASE LayerEnds
  <2>1. progress = "search" /\ Layer = {} /\ Exhaustive
    BY <1>4 DEF LayerEnds, MInv
  <2>2. freeing \in Nat /\ (Exact(request) => NothingBelow(request, freeing))
    BY <2>1 DEF Exhaustive
  <2>3. ASSUME NEW best \in Best(plans), plans # {}, Reply("plans", best)
        PROVE  MInv'
    <3>1. best \subseteq plans /\ best # {}
      <4>1. IsFiniteSet(plans) /\ Cardinality(plans) \in Nat \ {0}
        BY <2>3, FS_CardinalityType, FS_EmptySet DEF MInv
      <4>2. Cardinality(best) # 0
        BY <4>1, TopPlansAssumption DEF Best
      <4> QED BY <4>2, FS_EmptySet DEF Best
    <3> QED BY <1>0, <2>2, <2>3, <3>1, ReplyIsExhaustive
  <2>4. CASE plans = {} /\ freeing = request.most /\ Reply("no_plan_within_max_changes", {})
    <3>1. Exact(request) => NothingBelow(request, request.most + 1)
      BY <2>1, <2>4, LayerIsDone
    <3> QED BY <1>0, <2>4, <3>1, ReplyIsExhaustive
  <2>5. CASE /\ plans = {} /\ freeing # request.most
             /\ freeing' = freeing + 1 /\ freed' = {}
             /\ UNCHANGED <<request, progress, plans, reply>>
    <3>1. Exact(request) => NothingBelow(request, freeing + 1)
      BY <2>1, <2>5, LayerIsDone
    <3>2. freeing + 1 \in 1..request.most
      <4>1. request.most \in 1..5
        BY <1>0, RequestIsFinite DEF RInv
      <4> QED BY <2>1, <2>5, <4>1 DEF Exhaustive
    <3>3. Exhaustive'
      BY <2>1, <2>5, <3>1, <3>2 DEF Exhaustive
    <3> QED BY <1>0, <2>1, <2>5, <3>3 DEF MInv
  <2> QED BY <1>4, <2>3, <2>4, <2>5 DEF LayerEnds
<1>5. CASE TimesOutAsking
  BY <1>0, <1>5, ReplyIsExhaustive DEF TimesOutAsking
<1>6. CASE BudgetUsedUp
  <2>1. CASE plans # {} /\ Reply("plans", plans)
    <3>1. progress = "search"
      BY <1>6, <2>1 DEF BudgetUsedUp, MInv
    <3>2. freeing \in Nat /\ (Exact(request) => NothingBelow(request, freeing))
      BY <3>1 DEF MInv, Exhaustive
    <3> QED BY <1>0, <2>1, <3>2, ReplyIsExhaustive
  <2>2. CASE Reply("search_cap_exceeded", plans)
    BY <1>0, <2>2, ReplyIsExhaustive
  <2> QED BY <1>6, <2>1, <2>2 DEF BudgetUsedUp
<1>7. CASE UNCHANGED repairVars
  <2>1. Exhaustive' = Exhaustive /\ Exact(request)' = Exact(request)
    BY <1>7 DEF repairVars, Exhaustive
  <2> QED BY <1>0, <1>7, <2>1 DEF repairVars, MInv
<1> QED BY <1>1, <1>2, <1>3, <1>4, <1>5, <1>6, <1>7 DEF RepairNext

\* What the invariant says of the replies.
LEMMA NothingSmaller ==
  ASSUME MInv
  PROVE  NoSmallerEditReaches
<1>1. request.most \in 1..5 /\ IsRequest(request)
  BY RequestIsFinite DEF MInv, RInv
<1>2. \A n \in Nat, k \in Nat : n < k /\ NothingBelow(request, k) => ~EditReaches(request, n)
  <2> SUFFICES ASSUME NEW n \in Nat, NEW k \in Nat, n < k, NothingBelow(request, k),
                      EditReaches(request, n)
               PROVE  FALSE
    OBVIOUS
  <2>1. PICK S \in SUBSET Candidates(request) : Cardinality(S) <= n /\ Frees(request, S)
    BY DEF EditReaches, Frees
  <2>2. Cardinality(S) \in Nat
    BY <1>1, RequestIsFinite
  <2>3. Cardinality(S) < k
    BY <2>1, <2>2
  <2> QED BY <2>1, <2>3 DEF NothingBelow
<1>3. ASSUME reply.code = "plans", Exact(request), NEW n \in 1..request.most,
             \A p \in reply.plans : n < PlanSize(p)
      PROVE  ~EditReaches(request, n)
  <2>1. PICK p \in reply.plans : PlanSize(p) <= freeing /\ PlanSize(p) \in 1..request.most
    BY <1>3 DEF MInv, RInv, SoundPlan
  <2>2. n < PlanSize(p) /\ freeing \in Nat /\ NothingBelow(request, freeing)
    BY <1>3, <2>1 DEF MInv
  <2>3. n < freeing
    BY <1>1, <2>1, <2>2
  <2> QED BY <1>1, <1>2, <2>2, <2>3
<1>4. ASSUME reply.code = "no_plan_within_max_changes", Exact(request)
      PROVE  ~EditReaches(request, request.most)
  <2>1. NothingBelow(request, request.most + 1)
    BY <1>4 DEF MInv
  <2>2. request.most \in Nat /\ request.most + 1 \in Nat /\ request.most < request.most + 1
    BY <1>1
  <2> QED BY <1>2, <2>1, <2>2
<1> QED BY <1>3, <1>4 DEF NoSmallerEditReaches

\* No edit of fewer answers than the cheapest plan changes reaches the target,
\* and none of at most max_changes when the search completes without one
\* (find_repairs_for_target, "Cardinality-minimal answer-edit repair search"),
\* when the target need only be possible or every question is answered: for
\* every tree, answers, locks and assumptions, whichever models are shown.
THEOREM NoSmallerEditDoes == RepairSpec => []NoSmallerEditReaches
<1>1. RepairInit => MInv
  BY FS_EmptySet DEF RepairInit, MInv, RInv, IsRequest
<1>2. MInv /\ [RepairNext]_repairVars => MInv'
  BY StepKeepsSearchExhaustive
<1>3. MInv => NoSmallerEditReaches
  BY NothingSmaller
<1> QED BY <1>1, <1>2, <1>3, PTL DEF RepairSpec

-----------------------------------------------------------------------------
(* The edit tools.                                                         *)

\* What the tools may be asked.
IsEdited(e) ==
  e.tool \in {"what_if", "edit_affects_path"} /\ \E c \in EditCases : e.ir = c.ir

\* The inductive invariant: the reports were read off models of the answers
\* they are about, and what has been found out so far is what is forced.
PathAsked == edit.tool = "edit_affects_path" /\ turn \notin {"before", "done"}

EInv ==
  /\ IsEdited(edit)
  /\ turn # "before" => evalBefore \in Evaluates(edit, edit.given)
  /\ turn \in {"route", "standing", "conclusions"} => edit.tool = "edit_affects_path"
  /\ PathAsked => evalBefore.path # {}
  /\ PathAsked /\ turn \in {"after", "conclusions"} => standing = ForcedConclusions(edit.given)
  /\ turn = "conclusions" => lost = evalBefore.path \ Entailed(After, evalBefore.path)
  /\ turn # "done" => told = NothingTold
  /\ told.code = "path" =>
       /\ turn = "done" /\ evalBefore.path # {}
       /\ standing = ForcedConclusions(edit.given)
       /\ lost = evalBefore.path \ Entailed(After, evalBefore.path)
       /\ told.kept = (lost = {})
       /\ told.gone = standing \ Entailed(After, edit.ir.conclusions)
  /\ told.code = "compared" =>
       /\ turn = "done" /\ evalAfter \in Evaluates(edit, After)
       /\ told.changed = OutcomeChanged(evalBefore, evalAfter)

\* The query for one node: it is entailed when the answers are consistent and
\* all their models reach it.
LEMMA EntailedIsForced ==
  ASSUME IsEdited(edit), NEW E, NEW nodes
  PROVE  Entailed(E, nodes) =
           {n \in nodes : Base(edit, E) # {} /\ \A m \in Base(edit, E) : n \in m.reached}
<1>1. Runs[edit.ir] # {}
  BY TheoryHasAModel, EditCasesAssumption DEF IsEdited
<1>2. ASSUME NEW n \in nodes
      PROVE  Gate(Asking(n), E) = "entailed" <=>
               Base(edit, E) # {} /\ \A m \in Base(edit, E) : n \in m.reached
  <2>1. Base(Asking(n), E) = Base(edit, E) /\ Asking(n).mode = "entailed"
    BY DEF Base, Asking
  <2>2. ReachingTarget(Asking(n), Base(edit, E)) = {m \in Base(edit, E) : n \in m.reached}
    BY DEF ReachingTarget, Asking
  <2>3. ASSUME Gate(Asking(n), E) = "entailed"
        PROVE  Base(edit, E) # {} /\ \A m \in Base(edit, E) : n \in m.reached
    <3>1. Reaches(Asking(n), E)
      <4>1. Affirms(Gate(Asking(n), E)) /\ Runs[Asking(n).ir] # {}
        BY <1>1, <2>3 DEF Affirms, Asking
      <4> QED BY <4>1, GateIsReliable
    <3>2. Base(edit, E) # {} /\ ReachingTarget(Asking(n), Base(edit, E)) = Base(edit, E)
      BY <2>1, <3>1 DEF Reaches
    <3> QED BY <2>2, <3>2
  <2>4. ASSUME Base(edit, E) # {}, \A m \in Base(edit, E) : n \in m.reached
        PROVE  Gate(Asking(n), E) = "entailed"
    <3>1. ReachingTarget(Asking(n), Base(edit, E)) = Base(edit, E)
      BY <2>2, <2>4
    <3>2. Models(Runs[Asking(n).ir], E) # {}
      BY <2>4 DEF Base, Asking
    <3>3. Ladder(Asking(n), E, "entailed") = "entailed"
      BY <2>1, <2>4, <3>2 DEF Ladder
    <3> QED BY <2>1, <3>1, <3>3 DEF Gate
  <2> QED BY <2>3, <2>4
<1> QED BY <1>2 DEF Entailed

\* What the answers force is on the path the report shows: it is reached in
\* the model the report was read off, and along an edge.
LEMMA ForcedIsOnThePath ==
  ASSUME IsEdited(edit), evalBefore \in Evaluates(edit, edit.given), evalBefore.path # {}
  PROVE  ForcedConclusions(edit.given) \subseteq evalBefore.path
<1>1. PICK m \in Base(edit, edit.given) : evalBefore \in Reports(edit, edit.given, m)
  BY DEF Evaluates, NoReport
<1> SUFFICES ASSUME NEW c \in ForcedConclusions(edit.given)
             PROVE  c \in evalBefore.path
  OBVIOUS
<1>2. c \in m.reached /\ c \in edit.ir.conclusions
  BY DEF ForcedConclusions
<1>3. PICK k \in Cases : edit.ir = k.ir
  BY EditCasesAssumption DEF IsEdited
<1>4. PICK w : m.choice = w /\ m.reached = Reached(edit.ir, w)
  BY <1>3 DEF Base, Models, Runs
<1>5. c # edit.ir.entry /\ IsFiniteSet(edit.ir.questions)
  BY <1>2, <1>3, CasesAreTrees
<1>6. PICK e \in OpenEdges(edit.ir, w) : e.dst = c /\ e.src \in Reached(edit.ir, w)
  BY <1>2, <1>4, <1>5, ReachedAlongAnEdge
<1>7. e \in TriggeredEdges(edit.ir, m)
  BY <1>4, <1>6 DEF TriggeredEdges, OpenEdges
<1>8. c \in ReasoningPath(edit.ir, edit.given, m)
  BY <1>2, <1>6, <1>7 DEF TriggeredNodes, ReasoningPath
<1> QED BY <1>1, <1>8 DEF Reports

\* So a path that stays forced keeps every forced conclusion.
LEMMA KeptPathKeeps ==
  ASSUME EInv
  PROVE  KeptPathKeepsConclusions
<1> SUFFICES ASSUME told.code = "path", told.kept
             PROVE  ForcedConclusions(edit.given) \subseteq ForcedConclusions(After) /\ told.gone = {}
  BY DEF KeptPathKeepsConclusions
<1>1. /\ lost = {} /\ standing = ForcedConclusions(edit.given)
      /\ evalBefore.path \subseteq Entailed(After, evalBefore.path)
      /\ told.gone = standing \ Entailed(After, edit.ir.conclusions)
  BY DEF EInv
<1>2. ForcedConclusions(edit.given) \subseteq evalBefore.path
  BY ForcedIsOnThePath DEF EInv
<1>3. \A n \in evalBefore.path :
        Base(edit, After) # {} /\ \A m \in Base(edit, After) : n \in m.reached
  BY <1>1, EntailedIsForced DEF EInv
<1>4. ForcedConclusions(edit.given) \subseteq ForcedConclusions(After)
  BY <1>2, <1>3 DEF ForcedConclusions
<1>5. Entailed(After, edit.ir.conclusions) = ForcedConclusions(After)
  BY EntailedIsForced DEF EInv, ForcedConclusions
<1> QED BY <1>1, <1>4, <1>5

\* A concluded report names one conclusion: the one its answers force, when
\* the last check answered; else one they allow, and they force no other.
LEMMA ConcludedPointsAtOne ==
  ASSUME IsEdited(edit), NEW E, NEW report \in Evaluates(edit, E), report.kind = "concluded"
  PROVE  \E c \in edit.ir.conclusions : report.concludes = {c} /\ PointsAt(report, E, c)
<1>1. PICK m \in Base(edit, E) : report \in Reports(edit, E, m)
  BY DEF Evaluates, NoReport
<1> DEFINE concludes == m.reached \cap edit.ir.conclusions
           forced == \A c \in concludes, o \in Base(edit, E) : c \in o.reached
<1>2. /\ report.concludes = concludes /\ concludes # {} /\ ~(Cardinality(concludes) > 1)
      /\ report.alt # "unknown" => forced
  BY <1>1 DEF Reports
<1>3. PICK c : concludes = {c}
  <2>1. IsFiniteSet(edit.ir.conclusions)
    BY EditCasesAssumption, CasesAreTrees DEF IsEdited
  <2>2. IsFiniteSet(concludes)
    BY <2>1, FS_Subset
  <2>3. Cardinality(concludes) \in Nat /\ (Cardinality(concludes) = 0 <=> concludes = {})
    BY <2>2, FS_CardinalityType, FS_EmptySet
  <2>4. Cardinality(concludes) = 1
    BY <1>2, <2>3
  <2> QED BY <2>2, <2>4, FS_Singleton
<1>4. c \in m.reached /\ c \in edit.ir.conclusions
  BY <1>3
<1>5. ForcedConclusions(E) \subseteq {c}
  BY <1>3 DEF ForcedConclusions
<1>6. forced => ForcedConclusions(E) = {c}
  BY <1>1, <1>3, <1>4, <1>5 DEF ForcedConclusions
<1>7. PointsAt(report, E, c)
  BY <1>1, <1>2, <1>4, <1>5, <1>6 DEF PointsAt
<1> QED BY <1>2, <1>3, <1>4, <1>7

\* So an outcome told to be the same, of a case whose conclusions have titles
\* of their own, is about the same conclusion.
LEMMA SameTitlesSameConclusion ==
  ASSUME EInv
  PROVE  UnchangedOutcomeStands
<1> SUFFICES ASSUME told.code = "compared", ~told.changed, evalBefore.kind = "concluded",
                    \A c, d \in edit.ir.conclusions : c # d => edit.title[c] # edit.title[d]
             PROVE  \E c \in edit.ir.conclusions :
                      /\ PointsAt(evalBefore, edit.given, c)
                      /\ PointsAt(evalAfter, After, c)
  BY DEF UnchangedOutcomeStands
<1>1. /\ IsEdited(edit) /\ ~OutcomeChanged(evalBefore, evalAfter)
      /\ evalBefore \in Evaluates(edit, edit.given) /\ evalAfter \in Evaluates(edit, After)
  BY DEF EInv
<1>2. /\ evalAfter.kind = "concluded"
      /\ CandidateTitles(evalBefore) = CandidateTitles(evalAfter)
  BY <1>1 DEF OutcomeChanged
<1>3. PICK c \in edit.ir.conclusions :
        evalBefore.concludes = {c} /\ PointsAt(evalBefore, edit.given, c)
  BY <1>1, ConcludedPointsAtOne
<1>4. PICK d \in edit.ir.conclusions :
        evalAfter.concludes = {d} /\ PointsAt(evalAfter, After, d)
  BY <1>1, <1>2, ConcludedPointsAtOne
<1>5. /\ <<edit.title[c], "selected">> \in CandidateTitles(evalBefore)
      /\ \A t \in CandidateTitles(evalAfter) : t[1] = edit.title[d]
  BY <1>2, <1>3, <1>4 DEF CandidateTitles
<1>6. c = d
  BY <1>2, <1>5
<1> QED BY <1>3, <1>4, <1>6

\* The edit stays as it is, and with it what its answers force.
LEMMA EditIsFixed ==
  ASSUME EInv, edit' = edit
  PROVE  /\ IsEdited(edit)' /\ After' = After
         /\ \A E : ForcedConclusions(E)' = ForcedConclusions(E)
         /\ \A E, nodes : Entailed(E, nodes)' = Entailed(E, nodes)
BY DEF EInv, IsEdited, After, ForcedConclusions, Entailed, Asking

\* An end without an answer keeps the invariant.
LEMMA RefusingIsSound ==
  ASSUME EInv, turn # "before", NEW code, code \notin {"path", "compared"}, Refuse(code)
  PROVE  EInv'
<1>1. told'.code = code /\ turn' = "done"
  BY DEF Refuse, Tell, NothingTold
<1>2. UNCHANGED <<edit, evalBefore, evalAfter, standing, lost>>
  BY DEF Refuse, Tell
<1> QED BY <1>1, <1>2, EditIsFixed DEF EInv, PathAsked

\* Every step of the edit tools keeps it.
LEMMA StepKeepsEditsSound ==
  ASSUME EInv, [EditNext]_editVars
  PROVE  EInv'
<1>1. CASE EvaluateBefore
  <2>1. /\ turn = "before" /\ told = NothingTold /\ IsEdited(edit)
        /\ evalBefore' \in Evaluates(edit, edit.given) /\ edit' = edit
    BY <1>1 DEF EvaluateBefore, Tell, EInv
  <2>2. CASE /\ edit.tool = "edit_affects_path" /\ evalBefore'.path = {}
             /\ Tell([NothingTold EXCEPT !.code = "path_not_entailed_at_baseline"])
    BY <2>1, <2>2, EditIsFixed DEF Tell, NothingTold, EInv, PathAsked
  <2>3. CASE /\ ~(edit.tool = "edit_affects_path" /\ evalBefore'.path = {})
             /\ turn' = IF edit.tool = "what_if" THEN "after" ELSE "route"
             /\ UNCHANGED <<edit, standing, lost, told>>
    <3>1. told'.code = "none"
      BY <2>1, <2>3 DEF NothingTold
    <3>2. turn' \in {"after", "route"} /\ (turn' = "route" => edit.tool = "edit_affects_path")
      BY <2>1, <2>3 DEF IsEdited
    <3>3. PathAsked' => evalBefore'.path # {} /\ turn' = "route"
      BY <2>1, <2>3, <3>2 DEF PathAsked
    <3> QED BY <2>1, <2>3, <3>1, <3>2, <3>3, EditIsFixed DEF EInv
  <2> QED BY <1>1, <2>2, <2>3 DEF EvaluateBefore
<1>2. CASE EvaluateAfter
  <2>1. /\ turn = "after" /\ turn' = "done" /\ told'.code = "compared"
        /\ told'.changed = OutcomeChanged(evalBefore, evalAfter')
        /\ evalAfter' \in Evaluates(edit, After)
        /\ UNCHANGED <<edit, evalBefore, standing, lost>>
    BY <1>2 DEF EvaluateAfter, Tell, NothingTold
  <2>2. OutcomeChanged(evalBefore, evalAfter)' = OutcomeChanged(evalBefore, evalAfter')
    BY <2>1 DEF OutcomeChanged, CandidateTitles
  <2> QED BY <2>1, <2>2, EditIsFixed DEF EInv, PathAsked
<1>3. CASE CheckRoute
  <2>1. turn = "route" /\ edit' = edit
    BY <1>3 DEF CheckRoute, Refuse, Tell
  <2>2. CASE Refuse("path_not_entailed_at_baseline")
    BY <2>1, <2>2, RefusingIsSound
  <2>3. CASE turn' = "standing" /\ UNCHANGED <<edit, evalBefore, evalAfter, standing, lost, told>>
    BY <2>1, <2>3, EditIsFixed DEF EInv, PathAsked, NothingTold
  <2> QED BY <1>3, <2>2, <2>3 DEF CheckRoute
<1>4. CASE Stand
  <2>1. /\ turn = "standing" /\ turn' = "after"
        /\ standing' = Entailed(edit.given, edit.ir.conclusions)
        /\ UNCHANGED <<edit, evalBefore, evalAfter, lost, told>>
    BY <1>4 DEF Stand
  <2>2. Entailed(edit.given, edit.ir.conclusions) = ForcedConclusions(edit.given)
    BY EntailedIsForced DEF EInv, ForcedConclusions
  <2> QED BY <2>1, <2>2, EditIsFixed DEF EInv, PathAsked, NothingTold
<1>5. CASE CheckRouteAfter
  <2>1. turn = "after" /\ edit.tool = "edit_affects_path" /\ edit' = edit
    BY <1>5 DEF CheckRouteAfter, Refuse, Tell
  <2>2. ASSUME NEW code \in Refusals(After, evalBefore.path), Refuse(code)
        PROVE  EInv'
    <3>1. code \notin {"path", "compared"}
      BY DEF Refusals, Gate, Ladder, Asking
    <3> QED BY <2>1, <2>2, <3>1, RefusingIsSound
  <2>3. CASE /\ lost' = evalBefore.path \ Entailed(After, evalBefore.path)
             /\ turn' = "conclusions" /\ UNCHANGED <<edit, evalBefore, evalAfter, standing, told>>
    BY <2>1, <2>3, EditIsFixed DEF EInv, PathAsked, NothingTold
  <2> QED BY <1>5, <2>2, <2>3 DEF CheckRouteAfter
<1>6. CASE CheckConclusionsAfter
  <2>1. /\ turn = "conclusions" /\ turn' = "done" /\ told'.code = "path"
        /\ told'.kept = (lost = {})
        /\ told'.gone = standing \ Entailed(After, edit.ir.conclusions)
        /\ UNCHANGED <<edit, evalBefore, evalAfter, standing, lost>>
    BY <1>6 DEF CheckConclusionsAfter, Tell, NothingTold
  <2> QED BY <2>1, EditIsFixed DEF EInv, PathAsked
<1>7. CASE PathQueryFails
  BY <1>7, RefusingIsSound DEF PathQueryFails
<1>8. CASE UNCHANGED editVars
  BY <1>8, EditIsFixed DEF editVars, EInv, PathAsked, OutcomeChanged, CandidateTitles
<1> QED BY <1>1, <1>2, <1>3, <1>4, <1>5, <1>6, <1>7, <1>8 DEF EditNext

\* The invariant of the edit tools.
LEMMA EditInvariant == EditSpec => []EInv
<1>1. EditInit => EInv
  BY DEF EditInit, EInv, PathAsked, IsEdited, NothingTold
<1> QED BY <1>1, StepKeepsEditsSound, PTL DEF EditSpec

\* An edit said to keep the path costs no conclusion (run_edit_affects_path):
\* whichever models the solver shows, for every tree, answers and override.
THEOREM KeptPathsKeepConclusions == EditSpec => []KeptPathKeepsConclusions
<1>1. EInv => KeptPathKeepsConclusions
  BY KeptPathKeeps
<1> QED BY <1>1, EditInvariant, PTL

\* A concluded case whose outcome what_if calls unchanged is about the same
\* conclusion before and after (build_what_if_delta), when conclusions have
\* titles of their own: forced by the answers whose last check answered, and
\* by the others allowed with no other forced.
THEOREM UnchangedOutcomesStand == EditSpec => []UnchangedOutcomeStands
<1>1. EInv => UnchangedOutcomeStands
  BY SameTitlesSameConclusion
<1> QED BY <1>1, EditInvariant, PTL
=============================================================================
