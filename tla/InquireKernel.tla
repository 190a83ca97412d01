--------------------------- MODULE InquireKernel ---------------------------
(***************************************************************************)
(* The pure part of the inquiry: what a compiled decision tree (an IR),    *)
(* the admitted answers and the assumptions pinned on a session entail,    *)
(* and the directive ANALYZE derives from them.                            *)
(*                                                                         *)
(* An IR is a record [questions, options, conclusions, entry, edges].      *)
(* Nodes are naturals and their order is the sorted order of node ids. An  *)
(* edge is a record [src, on, dst]; `on` is an option label of src, or     *)
(* DefaultGuard, which always holds.                                       *)
(*                                                                         *)
(* An admitted assertion is a record [q, opt, prov]. The solver only sees  *)
(* the pair <<q, opt>>; provenance matters to verification alone.          *)
(***************************************************************************)
EXTENDS Integers, FiniteSets

DefaultGuard == "default"

Least(S) == CHOOSE x \in S : \A y \in S : x <= y

-----------------------------------------------------------------------------
(* The theory: one model per choice of an option for every question. A     *)
(* reachable question has exactly one option; what an unreachable one is   *)
(* given reaches nothing, so total choices stand for all models.           *)

Worlds(ir) ==
  {w \in [ir.questions -> UNION {ir.options[q] : q \in ir.questions}] :
      \A q \in ir.questions : w[q] \in ir.options[q]}

\* Nodes reached in world w. Every edge leaves a question and the graph is
\* acyclic, so as many waves as there are questions reach everything.
Reached(ir, w) ==
  LET open == {e \in ir.edges : e.on = DefaultGuard \/ w[e.src] = e.on}
      wave[n \in Nat] ==
        IF n = 0 THEN {ir.entry}
        ELSE LET before == wave[n - 1]
             IN  before \cup {e.dst : e \in {x \in open : x.src \in before}}
  IN  wave[Cardinality(ir.questions)]

\* The models of the theory and the assumptions phi, each as the choices it
\* makes and the conclusions it reaches. compile_ir_to_z3 is called with the
\* same tree throughout an inquiry, so the rest of this module takes T.
Theory(ir, phi) ==
  {[choice |-> w, concludes |-> Reached(ir, w) \cap ir.conclusions] :
     w \in {v \in Worlds(ir) : /\ phi.reachable \subseteq Reached(ir, v)
                              /\ phi.unreachable \cap Reached(ir, v) = {}}}

\* The models that agree with evidence E, a set of pairs <<q, opt>>.
Models(T, E) == {m \in T : \A p \in E : m.choice[p[1]] = p[2]}

Possible(M) == UNION {m.concludes : m \in M}

\* The unique possible and entailed conclusion, as a singleton; {} when the
\* base is inconsistent or not resolved.
Resolved(M) ==
  LET possible == Possible(M)
  IN  IF Cardinality(possible) = 1 /\ \A m \in M : possible \subseteq m.concludes
      THEN possible
      ELSE {}

-----------------------------------------------------------------------------
(* Evidence and the searches over it.                                      *)

Evidence(adm) == {<<a.q, a.opt>> : a \in adm}

Unanswered(ir, E) == ir.questions \ {p[1] : p \in E}

\* Every way to answer the questions of D.
AnswersTo(ir, D) ==
  {{<<q, f[q]>> : q \in D} :
     f \in {g \in [D -> UNION {ir.options[q] : q \in D}] :
              \A q \in D : g[q] \in ir.options[q]}}

\* The order in which itertools.combinations, called with growing widths,
\* yields sets of naturals: by size, then lexicographically.
Precedes(S, R) ==
  \/ Cardinality(S) < Cardinality(R)
  \/ /\ Cardinality(S) = Cardinality(R)
     /\ Least((S \cup R) \ (S \cap R)) \in S

FirstCombination(family) ==
  CHOOSE S \in family : \A R \in family \ {S} : Precedes(S, R)

\* D_1: questions whose answers lead to different sets of conclusions.
MyopicDiscriminators(ir, T, E) ==
  {q \in Unanswered(ir, E) :
     Cardinality({Possible(Models(T, E \cup {<<q, o>>})) : o \in ir.options[q]}) > 1}

\* Mutant: the widths stop short of all open questions, as range(2, n) would.
WitnessesShortOfAll(ir, T, E) ==
  {D \in SUBSET Unanswered(ir, E) :
     /\ Cardinality(D) >= 2 /\ D # Unanswered(ir, E)
     /\ \E alpha \in AnswersTo(ir, D) : Resolved(Models(T, E \cup alpha)) # {}}

\* Sets of at least two open questions some joint answer to which resolves.
ResolvingWitnesses(ir, T, E) ==
  {D \in SUBSET Unanswered(ir, E) :
     /\ Cardinality(D) >= 2
     /\ \E alpha \in AnswersTo(ir, D) : Resolved(Models(T, E \cup alpha)) # {}}

\* S_R: the questions of the first smallest part of E that resolves to the
\* same conclusion c by itself.
ResolvingSupport(T, E, c) ==
  FirstCombination(
    {Q \in SUBSET {p[1] : p \in E} :
       Resolved(Models(T, {p \in E : p[1] \in Q})) = c})

-----------------------------------------------------------------------------
(* Directives.                                                             *)

Stop(reason)  == [action |-> "STOP", reason |-> reason]
Acquire(q)    == [action |-> "ACQUIRE", question |-> q]
Verify(key)   == [action |-> "VERIFY", key |-> key]

SemanticReasons == {"inconsistent", "verified_resolved_consequence", "not_resolvable"}
BudgetReasons   == {"operational", "resolving_support_incomplete",
                    "no_joint_discriminator_within_budget"}
StopReasons     == SemanticReasons \cup BudgetReasons

\* verification_key_for: an assertion under a version of the policy. The
\* artifact identity is the same for a whole session and is left out.
KeyFor(a, pv) == [q |-> a.q, opt |-> a.opt, prov |-> a.prov, pv |-> pv]

\* Mutant: one verified answer counts for the whole support (any for all).
SupportUntilOneVerified(T, adm, ver, pv) ==
  LET E == Evidence(adm)
      S == ResolvingSupport(T, E, Resolved(Models(T, E)))
  IN  {a \in adm : a.q \in S /\ \A b \in adm : b.q \in S => KeyFor(b, pv) \notin ver}

\* Assertions of the resolving support whose key is not verified yet.
SupportToVerify(T, adm, ver, pv) ==
  LET E == Evidence(adm)
      S == ResolvingSupport(T, E, Resolved(Models(T, E)))
  IN  {a \in adm : a.q \in S /\ KeyFor(a, pv) \notin ver}

\* What ANALYZE answers when every solver call succeeds.
ExactDirective(ir, T, adm, ver, pv) ==
  LET E    == Evidence(adm)
      M    == Models(T, E)
      todo == SupportToVerify(T, adm, ver, pv)
      d1   == MyopicDiscriminators(ir, T, E)
      wits == ResolvingWitnesses(ir, T, E)
  IN  CASE M = {}            -> Stop("inconsistent")
        [] Resolved(M) # {} ->
             IF todo = {} THEN Stop("verified_resolved_consequence")
             ELSE Verify(KeyFor(CHOOSE a \in todo : \A b \in todo : a.q <= b.q, pv))
        [] M # {} /\ Resolved(M) = {} ->
             IF d1 # {} THEN Acquire(Least(d1))
             ELSE IF wits # {} THEN Acquire(Least(FirstCombination(wits)))
             ELSE Stop("not_resolvable")

\* How ANALYZE may give up instead: a solver call runs out of budget or time
\* in the search for the support of a resolved base, in the search for a
\* joint discriminator, or anywhere before them.
GiveUps(ir, T, adm) ==
  LET E        == Evidence(adm)
      resolved == Resolved(Models(T, E)) # {}
      residual == /\ Models(T, E) # {} /\ ~resolved
                  /\ MyopicDiscriminators(ir, T, E) = {} /\ Unanswered(ir, E) # {}
  IN  {Stop("operational")}
        \cup {d \in {Stop("resolving_support_incomplete")} : resolved}
        \cup {d \in {Stop("no_joint_discriminator_within_budget")} : residual}

AnalyzeOutcomes(ir, T, adm, ver, pv, mayGiveUp) ==
  {ExactDirective(ir, T, adm, ver, pv)}
    \cup {d \in GiveUps(ir, T, adm) : mayGiveUp}

-----------------------------------------------------------------------------
(* The two transitions of the case.                                        *)

AnsweredQuestions(adm) == {a.q : a \in adm}

\* Mutant: a second answer to a question is not refused.
CanAdmitAgain(ir, adm, a) == a.q \in ir.questions /\ a.opt \in ir.options[a.q]

\* admit_assertion: only a question of the tree that has no answer yet, and
\* only one of its options.
CanAdmit(ir, adm, a) ==
  /\ a.q \in ir.questions
  /\ a.opt \in ir.options[a.q]
  /\ a.q \notin AnsweredQuestions(adm)

\* The one live assertion a key names.
LiveFor(adm, key) ==
  {a \in adm : a.q = key.q /\ a.opt = key.opt /\ a.prov = key.prov}

\* Mutant: the keys of a retracted or replaced answer stay.
KeepKeys(ver, a) == ver

\* _drop_keys_for_assertion: whatever the policy version.
DropKeys(ver, a) ==
  {k \in ver : ~(k.q = a.q /\ k.opt = a.opt /\ k.prov = a.prov)}
=============================================================================
