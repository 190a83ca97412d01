---------------------------- MODULE KernelProofs ----------------------------
(***************************************************************************)
(* What the proofs about trees rest on: induction over naturals, in the    *)
(* form of a fact about sets of them; from it that a recursive function    *)
(* which computes one set of nodes from the one before is what its         *)
(* definition says, and that waves along edges reach, after as many steps  *)
(* as there are nodes edges leave, all there is to reach.                  *)
(***************************************************************************)
EXTENDS InquireKernel, FiniteSetTheorems, WellFoundedInduction, TLAPS

-----------------------------------------------------------------------------
(* Induction, for sets of naturals, and sets of one element.               *)

Below == {ss \in Nat \X Nat : ss[1] < ss[2]}

\* A set of naturals that is not empty has a least element.
LEMMA LeastNumber ==
  ASSUME NEW N, N \subseteq Nat, N # {}
  PROVE  \E x \in N : \A y \in N : x <= y
<1>1. IsWellFoundedOn(Below, Nat)
  BY NatLessThanWellFounded DEF OpToRel, Below
<1>2. PICK x \in N : \A y \in N : <<y, x>> \notin Below
  BY <1>1, WFMin
<1>3. ASSUME NEW y \in N, y < x
      PROVE  FALSE
  <2>1. x \in Nat /\ y \in Nat
    OBVIOUS
  <2>2. <<y, x>> \in Below
    BY <1>3, <2>1 DEF Below
  <2> QED BY <1>2, <2>2
<1>4. x \in Nat /\ \A y \in N : y \in Nat
  OBVIOUS
<1> QED BY <1>3, <1>4

\* A set of naturals closed under successor, with 0, holds them all.
LEMMA SetInduction ==
  ASSUME NEW N, N \subseteq Nat, 0 \in N, \A n \in N : n + 1 \in N
  PROVE  N = Nat
<1> SUFFICES ASSUME Nat \ N # {}
             PROVE  FALSE
  OBVIOUS
<1>1. PICK x \in Nat \ N : \A y \in Nat \ N : x <= y
  BY LeastNumber
<1>2. x # 0 /\ x - 1 \in Nat /\ x - 1 \in N
  BY <1>1
<1> QED BY <1>1, <1>2

\* A set with one element at most.
LEMMA AtMostOne ==
  ASSUME NEW S, IsFiniteSet(S), ~(Cardinality(S) > 1), NEW x \in S, NEW y \in S
  PROVE  x = y
<1> SUFFICES ASSUME x # y
             PROVE  FALSE
  OBVIOUS
<1>1. IsFiniteSet({x}) /\ Cardinality({x}) = 1
  BY FS_Singleton
<1>2. Cardinality({x} \cup {y}) = 2
  <2>1. Cardinality({x} \cup {y}) =
          IF y \in {x} THEN Cardinality({x}) ELSE Cardinality({x}) + 1
    BY <1>1, FS_AddElement
  <2> QED BY <1>1, <2>1
<1>3. Cardinality({x} \cup {y}) <= Cardinality(S) /\ Cardinality(S) \in Nat
  BY FS_Subset, FS_CardinalityType
<1> QED BY <1>2, <1>3

\* What a function yields on a finite set is finite.
LEMMA ImageIsFinite ==
  ASSUME NEW S, IsFiniteSet(S), NEW f
  PROVE  IsFiniteSet({f[x] : x \in S})
<1> DEFINE g == [x \in S |-> f[x]]
<1>1. g \in Surjection(S, {f[x] : x \in S})
  BY DEF Surjection
<1> QED BY <1>1, FS_Surjection

-----------------------------------------------------------------------------
(* Sets of nodes computed one from the other.                              *)

ComputedUpTo(U, S, St, g, n) ==
  \A i \in 0..n : g[i] \in SUBSET U /\ g[i] = IF i = 0 THEN S ELSE St[g[i - 1]]

\* The first of them can be computed, however many.
LEMMA SomeComputed ==
  ASSUME NEW U, NEW S \in SUBSET U, NEW St \in [SUBSET U -> SUBSET U], NEW n \in Nat
  PROVE  \E g : ComputedUpTo(U, S, St, g, n)
<1> DEFINE N == {k \in Nat : \E g : ComputedUpTo(U, S, St, g, k)}
<1>1. 0 \in N
  <2>1. ComputedUpTo(U, S, St, [i \in Nat |-> S], 0)
    BY DEF ComputedUpTo
  <2> QED BY <2>1
<1>2. ASSUME NEW k \in N
      PROVE  k + 1 \in N
  <2>1. PICK g : ComputedUpTo(U, S, St, g, k)
    OBVIOUS
  <2>2. g[k] \in SUBSET U
    <3>1. k \in 0..k
      OBVIOUS
    <3> QED BY <2>1, <3>1 DEF ComputedUpTo
  <2> DEFINE h == [i \in Nat |-> IF i = k + 1 THEN St[g[k]] ELSE g[i]]
  <2>3. ASSUME NEW i \in 0..(k + 1)
        PROVE  h[i] \in SUBSET U /\ h[i] = IF i = 0 THEN S ELSE St[h[i - 1]]
    <3>1. CASE i = k + 1
      <4>1. i \in Nat /\ i - 1 = k /\ i # 0 /\ k \in Nat /\ k # k + 1
        BY <3>1
      <4> QED BY <2>2, <3>1, <4>1
    <3>2. CASE i # k + 1
      <4>1. i \in 0..k /\ i \in Nat
        BY <3>2
      <4>2. h[i] = g[i]
        BY <3>2, <4>1
      <4>3. i # 0 => h[i - 1] = g[i - 1]
        BY <4>1
      <4> QED BY <2>1, <4>1, <4>2, <4>3 DEF ComputedUpTo
    <3> QED BY <3>1, <3>2
  <2>4. ComputedUpTo(U, S, St, h, k + 1)
    BY <2>3 DEF ComputedUpTo
  <2> QED BY <2>4
<1>3. N = Nat
  BY <1>1, <1>2, SetInduction
<1> QED BY <1>3

\* Two computations agree as far as they go.
LEMMA ComputationsAgree ==
  ASSUME NEW U, NEW S, NEW St, NEW m \in Nat, NEW n \in Nat, m <= n,
         NEW g, NEW h, ComputedUpTo(U, S, St, g, m), ComputedUpTo(U, S, St, h, n)
  PROVE  g[m] = h[m]
<1> DEFINE N == {i \in Nat : i <= m => g[i] = h[i]}
<1>1. 0 \in N
  BY DEF ComputedUpTo
<1>2. ASSUME NEW i \in N
      PROVE  i + 1 \in N
  <2> SUFFICES ASSUME i + 1 <= m
               PROVE  g[i + 1] = h[i + 1]
    OBVIOUS
  <2>1. g[i + 1] = St[g[(i + 1) - 1]] /\ h[i + 1] = St[h[(i + 1) - 1]]
    BY DEF ComputedUpTo
  <2>2. (i + 1) - 1 = i /\ g[i] = h[i]
    OBVIOUS
  <2> QED BY <2>1, <2>2
<1>3. N = Nat
  BY <1>1, <1>2, SetInduction
<1> QED BY <1>3

Computes(U, S, St, f) ==
  /\ f \in [Nat -> SUBSET U]
  /\ \A n \in Nat : f[n] = IF n = 0 THEN S ELSE St[f[n - 1]]

\* So there is a function that computes them all.
LEMMA AllComputed ==
  ASSUME NEW U, NEW S \in SUBSET U, NEW St \in [SUBSET U -> SUBSET U]
  PROVE  \E f : Computes(U, S, St, f)
<1> DEFINE G(n) == CHOOSE g : ComputedUpTo(U, S, St, g, n)
           limit == [n \in Nat |-> G(n)[n]]
<1>1. \A n \in Nat : ComputedUpTo(U, S, St, G(n), n)
  BY SomeComputed
<1> HIDE DEF G
<1>2. ASSUME NEW n \in Nat
      PROVE  limit[n] \in SUBSET U /\ limit[n] = IF n = 0 THEN S ELSE St[limit[n - 1]]
  <2>1. G(n)[n] \in SUBSET U /\ G(n)[n] = IF n = 0 THEN S ELSE St[G(n)[n - 1]]
    <3>1. n \in 0..n
      OBVIOUS
    <3> QED BY <1>1, <3>1 DEF ComputedUpTo
  <2>2. ASSUME n # 0
        PROVE  G(n)[n - 1] = G(n - 1)[n - 1]
    <3>1. n - 1 \in Nat /\ n - 1 <= n
      BY <2>2
    <3>2. ComputedUpTo(U, S, St, G(n - 1), n - 1) /\ ComputedUpTo(U, S, St, G(n), n)
      BY <1>1, <3>1
    <3> QED BY <3>1, <3>2, ComputationsAgree
  <2> QED BY <2>1, <2>2
<1>3. limit \in [Nat -> SUBSET U]
  BY <1>2
<1> HIDE DEF limit
<1>4. Computes(U, S, St, limit)
  BY <1>2, <1>3 DEF Computes
<1> QED BY <1>4

-----------------------------------------------------------------------------
(* Waves along edges, given as pairs of nodes.                             *)

Heads(R, X) == {p[2] : p \in {x \in R : x[1] \in X}}

Spreads(R, S, f) == f[0] = S /\ \A n \in Nat : f[n + 1] = f[n] \cup Heads(R, f[n])

Closed(R, X) == Heads(R, X) \subseteq X

\* A wave holds those before it.
LEMMA WavesGrow ==
  ASSUME NEW R, NEW S, NEW f, Spreads(R, S, f), NEW n \in Nat
  PROVE  \A k \in 0..n : f[k] \subseteq f[n]
<1> DEFINE N == {i \in Nat : \A k \in 0..i : f[k] \subseteq f[i]}
<1>1. 0 \in N
  OBVIOUS
<1>2. ASSUME NEW i \in N
      PROVE  i + 1 \in N
  <2>1. f[i] \subseteq f[i + 1]
    BY DEF Spreads
  <2>2. ASSUME NEW k \in 0..(i + 1)
        PROVE  f[k] \subseteq f[i + 1]
    <3>1. k = i + 1 \/ k \in 0..i
      OBVIOUS
    <3> QED BY <2>1, <3>1
  <2> QED BY <2>2
<1>3. N = Nat
  BY <1>1, <1>2, SetInduction
<1> QED BY <1>3

\* What is closed and holds the first wave holds them all.
LEMMA WavesStayIn ==
  ASSUME NEW R, NEW S, NEW f, Spreads(R, S, f), NEW D, S \subseteq D, Closed(R, D), NEW n \in Nat
  PROVE  f[n] \subseteq D
<1> DEFINE N == {i \in Nat : f[i] \subseteq D}
<1>1. 0 \in N
  BY DEF Spreads
<1>2. ASSUME NEW i \in N
      PROVE  i + 1 \in N
  <2>1. f[i + 1] = f[i] \cup Heads(R, f[i])
    BY DEF Spreads
  <2>2. Heads(R, f[i]) \subseteq Heads(R, D)
    BY DEF Heads
  <2> QED BY <2>1, <2>2 DEF Closed
<1>3. N = Nat
  BY <1>1, <1>2, SetInduction
<1> QED BY <1>3

\* After as many steps as there are nodes that edges leave nothing is added: each
\* step before that adds such a node.
LEMMA WavesEnd ==
  ASSUME NEW R, NEW S, NEW f, Spreads(R, S, f), NEW Q, IsFiniteSet(Q), \A p \in R : p[1] \in Q
  PROVE  Closed(R, f[Cardinality(Q)])
<1> DEFINE Left(n) == f[n] \cap Q
           N == {n \in Nat : Closed(R, f[n]) \/ Cardinality(Left(n)) >= n + 1}
<1>1. \A n \in Nat : /\ Left(n) \subseteq Left(n + 1) /\ IsFiniteSet(Left(n)) /\ IsFiniteSet(Left(n + 1))
                     /\ Cardinality(Left(n)) \in Nat /\ Cardinality(Left(n + 1)) \in Nat
                     /\ Cardinality(Left(n)) <= Cardinality(Q)
  <2> SUFFICES ASSUME NEW n \in Nat
               PROVE  /\ Left(n) \subseteq Left(n + 1) /\ IsFiniteSet(Left(n)) /\ IsFiniteSet(Left(n + 1))
                      /\ Cardinality(Left(n)) \in Nat /\ Cardinality(Left(n + 1)) \in Nat
                      /\ Cardinality(Left(n)) <= Cardinality(Q)
    OBVIOUS
  <2>1. Left(n) \subseteq Left(n + 1)
    BY DEF Spreads
  <2>2. Left(n) \subseteq Q /\ Left(n + 1) \subseteq Q
    OBVIOUS
  <2> HIDE DEF Left
  <2>3. IsFiniteSet(Left(n)) /\ Cardinality(Left(n)) <= Cardinality(Q)
    BY <2>2, FS_Subset
  <2>4. IsFiniteSet(Left(n + 1))
    BY <2>2, FS_Subset
  <2> QED BY <2>1, <2>3, <2>4, FS_CardinalityType
<1>2. \A n \in Nat : Heads(R, f[n]) = Heads(R, Left(n))
  BY DEF Heads
<1>3. 0 \in N
  <2>1. CASE Left(0) = {}
    <3>1. Heads(R, Left(0)) = {}
      BY <2>1 DEF Heads
    <3> QED BY <1>2, <3>1 DEF Closed
  <2>2. CASE Left(0) # {}
    <3>1. IsFiniteSet(Left(0)) /\ Cardinality(Left(0)) \in Nat
      BY <1>1
    <3> HIDE DEF Left
    <3>2. Cardinality(Left(0)) # 0
      BY <2>2, <3>1, FS_EmptySet
    <3> QED BY <3>1, <3>2
  <2> QED BY <2>1, <2>2
<1>4. ASSUME NEW n \in N
      PROVE  n + 1 \in N
  <2>1. f[n + 1] = f[n] \cup Heads(R, f[n])
    BY DEF Spreads
  <2>2. CASE Closed(R, f[n])
    <3>1. f[n + 1] = f[n]
      BY <2>1, <2>2 DEF Closed
    <3> QED BY <2>2, <3>1
  <2>3. CASE Left(n + 1) = Left(n)
    <3>1. Heads(R, f[n + 1]) = Heads(R, f[n])
      <4> HIDE DEF Left
      <4>1. n \in Nat /\ n + 1 \in Nat
        OBVIOUS
      <4>2. Heads(R, f[n + 1]) = Heads(R, Left(n + 1)) /\ Heads(R, f[n]) = Heads(R, Left(n))
        BY <1>2, <4>1
      <4> QED BY <2>3, <4>2
    <3>2. Closed(R, f[n + 1])
      BY <2>1, <3>1 DEF Closed
    <3> QED BY <3>2
  <2>4. CASE Left(n + 1) # Left(n) /\ Cardinality(Left(n)) >= n + 1
    <3>1. /\ Left(n) \subseteq Left(n + 1) /\ IsFiniteSet(Left(n)) /\ IsFiniteSet(Left(n + 1))
          /\ Cardinality(Left(n)) \in Nat /\ Cardinality(Left(n + 1)) \in Nat
      BY <1>1
    <3> HIDE DEF Left
    <3>2. Cardinality(Left(n)) < Cardinality(Left(n + 1))
      <4>1. Cardinality(Left(n)) <= Cardinality(Left(n + 1))
            /\ (Cardinality(Left(n)) = Cardinality(Left(n + 1)) => Left(n) = Left(n + 1))
        BY <3>1, FS_Subset
      <4> QED BY <2>4, <3>1, <4>1
    <3>3. Cardinality(Left(n + 1)) >= (n + 1) + 1
      BY <2>4, <3>1, <3>2
    <3> QED BY <3>3
  <2> QED BY <2>2, <2>3, <2>4
<1>5. N = Nat
  BY <1>3, <1>4, SetInduction
<1>6. Cardinality(Q) \in Nat
  BY FS_CardinalityType
<1>7. Cardinality(Q) \in N
  BY <1>5, <1>6
<1>8. Cardinality(Left(Cardinality(Q))) \in Nat /\ Cardinality(Left(Cardinality(Q))) <= Cardinality(Q)
  BY <1>1, <1>6
<1> HIDE DEF Left
<1> QED BY <1>6, <1>7, <1>8

WavesAlong(R, S, f) ==
  f = [n \in Nat |-> IF n = 0 THEN S ELSE f[n - 1] \cup Heads(R, f[n - 1])]

\* The waves of a recursive function of that form.
LEMMA WavesSpread ==
  ASSUME NEW R, NEW S, NEW f, WavesAlong(R, S, f)
  PROVE  Spreads(R, S, f)
<1>1. \A n \in Nat : f[n] = IF n = 0 THEN S ELSE f[n - 1] \cup Heads(R, f[n - 1])
  BY DEF WavesAlong
<1>2. \A n \in Nat : n + 1 \in Nat /\ n + 1 # 0 /\ (n + 1) - 1 = n
  OBVIOUS
<1> QED BY <1>1, <1>2 DEF Spreads

\* There are such waves.
LEMMA WavesExist ==
  ASSUME NEW R, NEW S
  PROVE  \E f : WavesAlong(R, S, f)
<1> DEFINE U == S \cup {p[2] : p \in R}
           St == [X \in SUBSET U |-> X \cup Heads(R, X)]
<1>1. St \in [SUBSET U -> SUBSET U]
  BY DEF Heads
<1>2. \A X \in SUBSET U : St[X] = X \cup Heads(R, X)
  OBVIOUS
<1>3. S \in SUBSET U
  OBVIOUS
<1> HIDE DEF U, St
<1>4. PICK f : Computes(U, S, St, f)
  BY <1>1, <1>3, AllComputed
<1>5. f \in [Nat -> SUBSET U] /\ \A n \in Nat : f[n] = IF n = 0 THEN S ELSE St[f[n - 1]]
  BY <1>4 DEF Computes
<1>6. \A n \in Nat : n # 0 => f[n - 1] \in SUBSET U
  BY <1>5
<1>7. \A n \in Nat : f[n] = IF n = 0 THEN S ELSE f[n - 1] \cup Heads(R, f[n - 1])
  BY <1>2, <1>5, <1>6
<1>8. WavesAlong(R, S, f)
  BY <1>5, <1>7 DEF WavesAlong
<1> QED BY <1>8

-----------------------------------------------------------------------------
(* The waves of Reached.                                                   *)

OpenEdges(ir, w) == {e \in ir.edges : e.on = DefaultGuard \/ w[e.src] = e.on}

Onward(ir, w, R) == R \cup {e.dst : e \in {x \in OpenEdges(ir, w) : x.src \in R}}

IsWaves(ir, w, f) ==
  f = [n \in Nat |-> IF n = 0 THEN {ir.entry} ELSE Onward(ir, w, f[n - 1])]

\* So Reached does what its definition says: it is the last of as many waves
\* as there are questions.
LEMMA ReachedIsAWave ==
  ASSUME NEW ir, NEW w
  PROVE  \E f : IsWaves(ir, w, f) /\ Reached(ir, w) = f[Cardinality(ir.questions)]
<1> DEFINE U == {ir.entry} \cup {e.dst : e \in ir.edges}
           St == [X \in SUBSET U |-> Onward(ir, w, X)]
<1>1. \E f : IsWaves(ir, w, f)
  <2>1. St \in [SUBSET U -> SUBSET U]
    BY DEF Onward, OpenEdges
  <2>2. \A X \in SUBSET U : St[X] = Onward(ir, w, X)
    OBVIOUS
  <2>3. {ir.entry} \in SUBSET U
    OBVIOUS
  <2> HIDE DEF U, St
  <2>4. PICK f : Computes(U, {ir.entry}, St, f)
    BY <2>1, <2>3, AllComputed
  <2>5. \A n \in Nat : f[n] \in SUBSET U /\ f[n] = IF n = 0 THEN {ir.entry} ELSE St[f[n - 1]]
    BY <2>4 DEF Computes
  <2>6. f \in [Nat -> SUBSET U]
    BY <2>4 DEF Computes
  <2>7. \A n \in Nat : n # 0 => f[n - 1] \in SUBSET U
    BY <2>5
  <2>8. \A n \in Nat : f[n] = IF n = 0 THEN {ir.entry} ELSE Onward(ir, w, f[n - 1])
    BY <2>2, <2>5, <2>7
  <2>9. f = [n \in Nat |-> IF n = 0 THEN {ir.entry} ELSE Onward(ir, w, f[n - 1])]
    BY <2>6, <2>8
  <2> QED BY <2>9 DEF IsWaves
<1> HIDE DEF U, St
<1> DEFINE open == {e \in ir.edges : e.on = DefaultGuard \/ w[e.src] = e.on}
           wave[n \in Nat] ==
             IF n = 0 THEN {ir.entry}
             ELSE LET before == wave[n - 1]
                  IN  before \cup {e.dst : e \in {x \in open : x.src \in before}}
<1>2. Reached(ir, w) = wave[Cardinality(ir.questions)]
  BY DEF Reached
<1>3. wave = [n \in Nat |->
               IF n = 0 THEN {ir.entry}
               ELSE LET before == wave[n - 1]
                    IN  before \cup {e.dst : e \in {x \in open : x.src \in before}}]
  BY <1>1 DEF wave, IsWaves, Onward, OpenEdges
<1> HIDE DEF wave
<1>4. IsWaves(ir, w, wave)
  BY <1>3 DEF IsWaves, Onward, OpenEdges
<1> QED BY <1>2, <1>4

\* Waves, one at a time.
LEMMA WaveSteps ==
  ASSUME NEW ir, NEW w, NEW f, IsWaves(ir, w, f)
  PROVE  f[0] = {ir.entry} /\ \A n \in Nat : f[n + 1] = Onward(ir, w, f[n])
<1>1. \A n \in Nat : f[n] = IF n = 0 THEN {ir.entry} ELSE Onward(ir, w, f[n - 1])
  BY DEF IsWaves
<1>2. \A n \in Nat : n + 1 \in Nat /\ n + 1 # 0 /\ (n + 1) - 1 = n
  OBVIOUS
<1> QED BY <1>1, <1>2

\* What a wave reaches, other than the entry, it reaches along an open edge
\* from a node it reaches.
LEMMA ReachedAlongAnEdge ==
  ASSUME NEW ir, NEW w, IsFiniteSet(ir.questions), NEW c \in Reached(ir, w), c # ir.entry
  PROVE  \E e \in OpenEdges(ir, w) : e.dst = c /\ e.src \in Reached(ir, w)
<1>1. PICK f : IsWaves(ir, w, f) /\ Reached(ir, w) = f[Cardinality(ir.questions)]
  BY ReachedIsAWave
<1>2. f[0] = {ir.entry} /\ \A n \in Nat : f[n + 1] = Onward(ir, w, f[n])
  BY <1>1, WaveSteps
<1> DEFINE Backed(R) == \A d \in R : d # ir.entry =>
                          \E e \in OpenEdges(ir, w) : e.dst = d /\ e.src \in R
           N == {n \in Nat : Backed(f[n])}
<1>3. 0 \in N
  BY <1>2
<1>4. ASSUME NEW n \in N
      PROVE  n + 1 \in N
  <2>1. Backed(Onward(ir, w, f[n]))
    BY DEF Onward
  <2> QED BY <1>2, <2>1
<1>5. N = Nat
  BY <1>3, <1>4, SetInduction
<1>6. Cardinality(ir.questions) \in N
  BY <1>5, FS_CardinalityType
<1> QED BY <1>1, <1>6

\* Worlds that agree on the questions one of them reaches reach the same
\* nodes.
LEMMA SameRoute ==
  ASSUME NEW ir, NEW v, NEW w, IsFiniteSet(ir.questions),
         \A e \in ir.edges : e.src \in Reached(ir, w) => v[e.src] = w[e.src]
  PROVE  Reached(ir, v) = Reached(ir, w)
<1> DEFINE K == Cardinality(ir.questions)
<1>1. PICK f : IsWaves(ir, w, f) /\ Reached(ir, w) = f[K]
  BY ReachedIsAWave
<1>2. PICK g : IsWaves(ir, v, g) /\ Reached(ir, v) = g[K]
  BY ReachedIsAWave
<1>3. K \in Nat
  BY FS_CardinalityType
<1>4. /\ f[0] = {ir.entry} /\ \A n \in Nat : f[n + 1] = Onward(ir, w, f[n])
      /\ g[0] = {ir.entry} /\ \A n \in Nat : g[n + 1] = Onward(ir, v, g[n])
  BY <1>1, <1>2, WaveSteps
<1> HIDE DEF K
<1> DEFINE N == {n \in Nat : \A k \in 0..n : f[k] \subseteq f[n]}
<1>5. N = Nat
  <2>1. 0 \in N
    OBVIOUS
  <2>2. ASSUME NEW n \in N
        PROVE  n + 1 \in N
    <3>1. f[n] \subseteq f[n + 1]
      BY <1>4 DEF Onward
    <3>2. ASSUME NEW k \in 0..(n + 1)
          PROVE  f[k] \subseteq f[n + 1]
      <4>1. k = n + 1 \/ k \in 0..n
        OBVIOUS
      <4> QED BY <3>1, <4>1
    <3> QED BY <3>2
  <2> HIDE DEF N
  <2> QED BY <2>1, <2>2, SetInduction DEF N
<1>6. \A n \in 0..K : f[n] \subseteq Reached(ir, w)
  BY <1>1, <1>3, <1>5
<1> DEFINE M == {n \in Nat : n <= K => g[n] = f[n]}
<1>7. 0 \in M
  BY <1>4
<1>8. ASSUME NEW n \in M
      PROVE  n + 1 \in M
  <2> SUFFICES ASSUME n + 1 <= K
               PROVE  g[n + 1] = f[n + 1]
    OBVIOUS
  <2>1. g[n] = f[n] /\ f[n] \subseteq Reached(ir, w)
    BY <1>3, <1>6
  <2>2. {x \in OpenEdges(ir, v) : x.src \in f[n]} = {x \in OpenEdges(ir, w) : x.src \in f[n]}
    BY <2>1 DEF OpenEdges
  <2>3. Onward(ir, v, f[n]) = Onward(ir, w, f[n])
    BY <2>2 DEF Onward
  <2> QED BY <1>4, <2>1, <2>3
<1>9. M = Nat
  BY <1>7, <1>8, SetInduction
<1> QED BY <1>1, <1>2, <1>3, <1>9

\* The same waves along pairs.
LEMMA OnwardIsAlongPairs ==
  ASSUME NEW ir, NEW w, NEW X
  PROVE  Onward(ir, w, X) = X \cup Heads({<<e.src, e.dst>> : e \in OpenEdges(ir, w)}, X)
<1> DEFINE R == {<<e.src, e.dst>> : e \in OpenEdges(ir, w)}
<1>1. ASSUME NEW e \in OpenEdges(ir, w), e.src \in X
      PROVE  e.dst \in Heads(R, X)
  <2>1. <<e.src, e.dst>> \in R /\ <<e.src, e.dst>>[1] = e.src /\ <<e.src, e.dst>>[2] = e.dst
    OBVIOUS
  <2> HIDE DEF R
  <2> QED BY <1>1, <2>1 DEF Heads
<1>2. ASSUME NEW d \in Heads(R, X)
      PROVE  \E e \in OpenEdges(ir, w) : e.src \in X /\ d = e.dst
  BY DEF Heads
<1> HIDE DEF R
<1>3. {e.dst : e \in {x \in OpenEdges(ir, w) : x.src \in X}} = Heads(R, X)
  BY <1>1, <1>2
<1> QED BY <1>3 DEF Onward, R

\* Where every edge leaves a question, what is reached is all that open edges lead
\* to from the entry ...
LEMMA ReachedIsClosed ==
  ASSUME NEW ir, NEW w, IsFiniteSet(ir.questions), \A e \in ir.edges : e.src \in ir.questions
  PROVE  /\ ir.entry \in Reached(ir, w)
         /\ \A e \in OpenEdges(ir, w) : e.src \in Reached(ir, w) => e.dst \in Reached(ir, w)
<1> DEFINE R == {<<e.src, e.dst>> : e \in OpenEdges(ir, w)}
<1>1. PICK f : IsWaves(ir, w, f) /\ Reached(ir, w) = f[Cardinality(ir.questions)]
  BY ReachedIsAWave
<1>2. f[0] = {ir.entry} /\ \A n \in Nat : f[n + 1] = Onward(ir, w, f[n])
  BY <1>1, WaveSteps
<1>3. \A X : Onward(ir, w, X) = X \cup Heads(R, X)
  BY OnwardIsAlongPairs
<1>4. \A p \in R : p[1] \in ir.questions
  BY DEF OpenEdges
<1>5. \A e \in OpenEdges(ir, w) : \A X : e.src \in X => e.dst \in Onward(ir, w, X)
  BY DEF Onward
<1> HIDE DEF R
<1>6. Spreads(R, {ir.entry}, f)
  BY <1>2, <1>3 DEF Spreads
<1>7. Closed(R, Reached(ir, w))
  BY <1>1, <1>4, <1>6, WavesEnd
<1>8. ir.entry \in Reached(ir, w)
  <2>1. Cardinality(ir.questions) \in Nat
    BY FS_CardinalityType
  <2>2. f[0] \subseteq f[Cardinality(ir.questions)]
    BY <1>6, <2>1, WavesGrow
  <2> QED BY <1>1, <1>2, <2>2
<1> QED BY <1>3, <1>5, <1>7, <1>8 DEF Closed

\* ... and nothing else.
LEMMA ReachedIsLeast ==
  ASSUME NEW ir, NEW w, IsFiniteSet(ir.questions), NEW D, ir.entry \in D,
         \A e \in OpenEdges(ir, w) : e.src \in D => e.dst \in D
  PROVE  Reached(ir, w) \subseteq D
<1> DEFINE R == {<<e.src, e.dst>> : e \in OpenEdges(ir, w)}
<1>1. PICK f : IsWaves(ir, w, f) /\ Reached(ir, w) = f[Cardinality(ir.questions)]
  BY ReachedIsAWave
<1>2. f[0] = {ir.entry} /\ \A n \in Nat : f[n + 1] = Onward(ir, w, f[n])
  BY <1>1, WaveSteps
<1>3. \A X : Onward(ir, w, X) = X \cup Heads(R, X)
  BY OnwardIsAlongPairs
<1>4. Closed(R, D)
  BY DEF Closed, Heads
<1> HIDE DEF R
<1>5. Spreads(R, {ir.entry}, f)
  BY <1>2, <1>3 DEF Spreads
<1>6. Cardinality(ir.questions) \in Nat
  BY FS_CardinalityType
<1> QED BY <1>1, <1>4, <1>5, <1>6, WavesStayIn
=============================================================================
