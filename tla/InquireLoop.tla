---------------------------- MODULE InquireLoop ----------------------------
(***************************************************************************)
(* The in-process inquiry: ANALYZE, execute the one directive it issued,   *)
(* start over, until it says STOP (execute.step called in a loop). Nothing *)
(* runs beside it. What varies is the tree and the assumptions, the        *)
(* extractor's answers, the verification policy's decisions, and whether   *)
(* the solver finishes in time.                                            *)
(***************************************************************************)
EXTENDS InquireKernel

CONSTANTS
  LoopCases,        \* records [ir, phi]: a valid IR and consistent id lists
  Provenances,  \* provenance ids the extractor may attach to an answer
  PolicyVersions,  \* versions of the verification policies a step may be given
  Decisions     \* what the verification policy may decide

ASSUME DecisionsAssumption ==
  Decisions \subseteq {"retain", "insufficient", "retract", "replace"}

VARIABLES
  case,       \* the tree and the assumptions, chosen once
  admitted,   \* live assertions
  verified,   \* verification keys
  directive,  \* the issued directive, NoDirective before ANALYZE
  pv,         \* the policy version of this step, NoPolicy between steps
  outcome     \* how the last execution ended

loopVars == <<case, admitted, verified, directive, pv, outcome>>

Theories == [c \in LoopCases |-> Theory(c.ir, c.phi)]

\* An IR is finite.
ASSUME LoopCasesAssumption ==
  \A c \in LoopCases :
    /\ c.ir.questions \subseteq Nat /\ IsFiniteSet(c.ir.questions)
    /\ IsFiniteSet(c.ir.conclusions)
    /\ \A q \in c.ir.questions : IsFiniteSet(c.ir.options[q])

NoDirective == [action |-> "NONE"]
NoPolicy == "none"
Assertions ==
  [q : case.ir.questions,
   opt : UNION {case.ir.options[q] : q \in case.ir.questions},
   prov : Provenances]

LoopInit ==
  /\ case \in LoopCases
  /\ admitted = {} /\ verified = {}
  /\ directive = NoDirective /\ outcome = "none"
  /\ pv = NoPolicy

\* Each step is given its verification policy.
BeginStep ==
  /\ directive = NoDirective
  /\ pv' \in PolicyVersions
  /\ UNCHANGED <<case, admitted, verified, outcome>>

Analyze ==
  /\ BeginStep
  /\ directive' = ExactDirective(case.ir, Theories[case], admitted, verified, pv')

GiveUp ==
  /\ BeginStep
  /\ directive' \in GiveUps(case.ir, Theories[case], admitted)

Executed(how) ==
  /\ directive' = NoDirective /\ pv' = NoPolicy
  /\ outcome' = how
  /\ UNCHANGED case

\* ACQUIRE, answered: the extractor picks an option and a provenance.
AcquireAnswered ==
  /\ directive.action = "ACQUIRE"
  /\ \E a \in Assertions :
       /\ a.q = directive.question
       /\ CanAdmit(case.ir, admitted, a)
       /\ admitted' = admitted \cup {a}
  /\ UNCHANGED verified
  /\ Executed("acquired")

AcquireAbstained ==
  /\ directive.action = "ACQUIRE"
  /\ UNCHANGED <<admitted, verified>>
  /\ Executed("abstained")

\* VERIFY binds to the one live assertion its key names.
Verifying(a) == directive.action = "VERIFY" /\ LiveFor(admitted, directive.key) = {a}

\* Mutant: the key is not stored.
RetainNoKey(a) ==
  /\ "retain" \in Decisions /\ Verifying(a)
  /\ UNCHANGED <<admitted, verified>>
  /\ Executed("retained")

Retain(a) ==
  /\ "retain" \in Decisions /\ Verifying(a)
  /\ verified' = verified \cup {KeyFor(a, pv)}
  /\ UNCHANGED admitted
  /\ Executed("retained")

Insufficient(a) ==
  /\ "insufficient" \in Decisions /\ Verifying(a)
  /\ UNCHANGED <<admitted, verified>>
  /\ Executed("insufficient")

Retract(a) ==
  /\ "retract" \in Decisions /\ Verifying(a)
  /\ admitted' = {b \in admitted : b.q # a.q}
  /\ verified' = DropKeys(verified, a)
  /\ Executed("retracted")

\* An option the tree does not offer is rejected and changes nothing.
Replace(a) ==
  /\ "replace" \in Decisions /\ Verifying(a)
  /\ \E b \in Assertions :
       /\ b.q = a.q /\ b.opt \in case.ir.options[a.q]
       /\ admitted' = {x \in admitted : x.q # a.q} \cup {b}
  /\ verified' = DropKeys(verified, a)
  /\ Executed("replaced")

Execute ==
  \/ AcquireAnswered
  \/ AcquireAbstained
  \/ \E a \in admitted : Retain(a) \/ Insufficient(a) \/ Retract(a) \/ Replace(a)

LoopNext == GiveUp \/ Analyze \/ Execute

LoopSpec == LoopInit /\ [][LoopNext]_loopVars /\ WF_loopVars(LoopNext)

-----------------------------------------------------------------------------
(* Properties.                                                             *)

Stopped(reason) == directive = Stop(reason)

EvidenceModels(adm) == Models(Theories[case], Evidence(adm))

\* STOP verified_resolved_consequence is only said of a case some verified
\* part of whose answers entails the conclusion without the unverified rest
\* (analyze_inquiry, the last return of the resolved branch).
VerifiedStopIsCarriedByVerifiedAnswers ==
  Stopped("verified_resolved_consequence") =>
    LET checked == {a \in admitted : KeyFor(a, pv) \in verified}
    IN  /\ Resolved(EvidenceModels(checked)) # {}
        /\ Resolved(EvidenceModels(checked))
             = Resolved(EvidenceModels(admitted))

\* STOP not_resolvable is a proof: no way to answer the open questions, one
\* of them or all, resolves the case. The search skips width one, and relies
\* on the emptiness of D_1 for it (search_resolving_witness).
NotResolvableIsProved ==
  Stopped("not_resolvable") =>
    \A D \in SUBSET Unanswered(case.ir, Evidence(admitted)) :
      \A alpha \in AnswersTo(case.ir, D) :
        Resolved(Models(Theories[case], Evidence(admitted) \cup alpha)) = {}

\* An assertion with a verified key is live, with that option and that
\* provenance: RETRACT and REPLACE leave no key behind that a later answer
\* with the same content would inherit, under whatever policy version the
\* key was issued (_drop_keys_for_assertion).
VerifiedKeysNameLiveAnswers ==
  \A k \in verified : LiveFor(admitted, k) # {}

\* As long as the extractor answers and the policy retains, the loop ends:
\* every ACQUIRE is for a question not asked before and every VERIFY for a
\* key not verified before.
Progress == outcome \in {"none", "acquired", "retained"}
AnsweringEnds == <>[]Progress => <>(directive.action = "STOP")
=============================================================================
