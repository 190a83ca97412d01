---------------------------- MODULE RepairSearch ----------------------------
(***************************************************************************)
(* How to reach a conclusion (find_repairs_for_target, counterfactual.py): *)
(* which few answers to change, or take back, so that the target follows   *)
(* ("entailed") or becomes possible ("possible"). Ever larger sets of      *)
(* answers are freed; the solver shows one model that reaches the target   *)
(* and keeps the others, and the edit read off that model is a plan if it  *)
(* passes the gate of the mode. Locked answers are never freed.            *)
(*                                                                         *)
(* Which model the solver shows is its choice. One action per query; a     *)
(* query may time out or find the budget of solver calls used up.          *)
(***************************************************************************)
EXTENDS InquireKernel

CONSTANTS
  Cases,       \* records [ir, phi]: a valid IR and consistent id lists
  MostChanges, \* the values of max_changes asked for
  TopPlans     \* top_k

ASSUME MostChangesAssumption == MostChanges \subseteq 1..5
ASSUME TopPlansAssumption == TopPlans \in Nat \ {0}

VARIABLES
  request,  \* [ir, phi, answers, target, locked, mode, most]: answers are pairs
            \* <<q, opt>>, most is max_changes
  progress,    \* "preflight", "baseline", "search", "done"
  freeing,  \* freed_count: how many answers a combination frees
  freed,    \* combinations tried in this layer
  plans,    \* layer_plans
  reply    \* what the client is told

repairVars == <<request, progress, freeing, freed, plans, reply>>

-----------------------------------------------------------------------------
(* The theory, its models with everything they reach, and the gate.        *)

Runs == [t \in {c.ir : c \in Cases} |->
           {[choice |-> w, reached |-> Reached(t, w)] : w \in Worlds(t)}]

\* An IR is finite, is entered at a question, and its edges leave questions
\* (validate_ir; publication wants a first question).
ASSUME CasesAreTrees ==
  \A c \in Cases :
    /\ IsFiniteSet(c.ir.questions) /\ IsFiniteSet(c.ir.conclusions)
    /\ c.ir.entry \in c.ir.questions
    /\ c.ir.questions \cap c.ir.conclusions = {}
    /\ \A e \in c.ir.edges : e.src \in c.ir.questions

\* SAT(T): Deploy records it of every published theory, and Apply refuses one
\* without the record.
ASSUME TheoryHasAModel == \A c \in Cases : Runs[c.ir] # {}

\* B = T /\ E /\ phi, as its models.
Base(r, E) ==
  {m \in Models(Runs[r.ir], E) : /\ r.phi.reachable \subseteq m.reached
                                 /\ r.phi.unreachable \cap m.reached = {}}

ReachingTarget(r, M) == {m \in M : r.target \in m.reached}

NoPhi == [reachable |-> {}, unreachable |-> {}]

\* An UNSAT query proves something only if the base has a model.
Ladder(r, E, onConsistent) ==
  IF E # {} /\ Models(Runs[r.ir], E) = {} THEN "answers_inconsistent"
  ELSE IF r.phi # NoPhi /\ Base(r, E) = {} THEN "assumptions_inconsistent"
  ELSE onConsistent

\* Mutant: the first UNSAT is taken for the answer.
GateByQuery(r, E) ==
  LET hits == ReachingTarget(r, Base(r, E))
  IN  IF r.mode = "possible"
      THEN IF hits # {} THEN "possible" ELSE "impossible"
      ELSE IF hits # Base(r, E) THEN "not_entailed" ELSE "entailed"

\* possible_target and entails_target: a witness answers at once.
Gate(r, E) ==
  LET hits == ReachingTarget(r, Base(r, E))
  IN  IF r.mode = "possible"
      THEN IF hits # {} THEN "possible" ELSE Ladder(r, E, "impossible")
      ELSE IF hits # Base(r, E) THEN "not_entailed" ELSE Ladder(r, E, "entailed")

Affirms(status) == status \in {"possible", "entailed"}

-----------------------------------------------------------------------------
(* Plans.                                                                  *)

Touched(plan) == {p[1] : p \in plan.changed} \cup plan.dropped

Repaired(E, plan) == {p \in E : p[1] \notin Touched(plan)} \cup plan.changed

PlanSize(plan) == Cardinality(plan.changed) + Cardinality(plan.dropped)

Answered(r) == {p[1] : p \in r.answers}

\* _setup_search_solver: the target and every answer that is not freed, as
\* the models the solver may show.
Shown(r, S) == ReachingTarget(r, Base(r, {p \in r.answers : p[1] \notin S}))

Candidates(r) == Answered(r) \ r.locked

\* _realize_witness: freed answers off the model's route are dropped, those
\* on it take the model's option.
Realized(r, m, S) ==
  [changed |-> {<<q, m.choice[q]>> : q \in S \cap m.reached} \ r.answers,
   dropped |-> S \ m.reached]

\* A plan changes something, and the target follows in the mode asked for.
\* (_is_cosmetic_plan adds nothing: what it reverts to is the answers as
\* given, whose gate was negative.)
Accepts(r, plan) ==
  /\ r.mode = "entailed" => Gate(r, Repaired(r.answers, plan)) = "entailed"
  /\ PlanSize(plan) \in 1..r.most

\* The cheapest plans, top_k of them.
Best(P) ==
  {Q \in SUBSET P :
     /\ Cardinality(Q) = (IF Cardinality(P) < TopPlans THEN Cardinality(P) ELSE TopPlans)
     /\ \A p \in Q, o \in P \ Q : PlanSize(p) <= PlanSize(o)}

-----------------------------------------------------------------------------
\* What a client may ask: any answers, any of them locked.
Requests(c) ==
  {[ir |-> c.ir, phi |-> c.phi, answers |-> E, target |-> t,
    locked |-> L, mode |-> d, most |-> n] :
     E \in UNION {AnswersTo(c.ir, Q) : Q \in SUBSET c.ir.questions},
     t \in c.ir.conclusions, L \in SUBSET c.ir.questions,
     d \in {"entailed", "possible"}, n \in MostChanges}

RepairInit ==
  /\ \E c \in Cases : request \in {r \in Requests(c) : r.locked \subseteq Answered(r)}
  /\ progress = "preflight" /\ freeing = 0
  /\ freed = {} /\ plans = {}
  /\ reply = [code |-> "none", plans |-> {}]

Reply(code, found) ==
  /\ progress' = "done" /\ reply' = [code |-> code, plans |-> found]
  /\ UNCHANGED <<request, freeing, freed, plans>>

TimesOutAsking == progress # "done" /\ Reply("solver_timeout", {})

\* A search that is cut short still tells the plans it has.
BudgetUsedUp ==
  /\ progress \in {"baseline", "search"}
  /\ Reply(IF plans # {} THEN "plans" ELSE "search_cap_exceeded", plans)

\* Can the target be reached at all, and with the locked answers?
Preflight ==
  /\ progress = "preflight"
  /\ LET locked == {p \in request.answers : p[1] \in request.locked}
     IN  IF ReachingTarget(request, Base(request, locked)) = {}
         THEN Reply("target_not_reachable_under_locks", {})
         ELSE progress' = "baseline" /\ UNCHANGED <<request, freeing, freed, plans, reply>>

\* Phase 0: the answers as they are.
Baseline ==
  /\ progress = "baseline"
  /\ LET status == Gate(request, request.answers)
     IN  IF Affirms(status) THEN Reply("already_reachable", {})
         ELSE IF status \in {"answers_inconsistent", "assumptions_inconsistent"}
         THEN Reply(status, {})
         ELSE /\ progress' = "search" /\ freeing' = 1
              /\ UNCHANGED <<request, freed, plans, reply>>

Layer == {S \in SUBSET Candidates(request) : Cardinality(S) = freeing} \ freed

\* One combination of answers is freed.
Free(S) ==
  /\ progress = "search"
  /\ \A R \in Layer \ {S} : Precedes(S, R)
  /\ freed' = freed \cup {S}
  /\ \/ Shown(request, S) = {} /\ UNCHANGED plans
     \/ \E m \in Shown(request, S) :
          plans' = plans \cup {p \in {Realized(request, m, S)} : Accepts(request, p)}
  /\ UNCHANGED <<request, progress, freeing, reply>>

\* Mutant: the search goes one layer less far.
LayerEndsEarly ==
  /\ progress = "search" /\ Layer = {}
  /\ IF plans # {} THEN \E best \in Best(plans) : Reply("plans", best)
     ELSE IF freeing + 1 >= request.most THEN Reply("no_plan_within_max_changes", {})
     ELSE /\ freeing' = freeing + 1 /\ freed' = {}
          /\ UNCHANGED <<request, progress, plans, reply>>

LayerEnds ==
  /\ progress = "search" /\ Layer = {}
  /\ IF plans # {} THEN \E best \in Best(plans) : Reply("plans", best)
     ELSE IF freeing = request.most THEN Reply("no_plan_within_max_changes", {})
     ELSE /\ freeing' = freeing + 1 /\ freed' = {}
          /\ UNCHANGED <<request, progress, plans, reply>>

RepairNext ==
  \/ Preflight \/ Baseline
  \/ \E S \in Layer : Free(S)
  \/ LayerEnds \/ TimesOutAsking \/ BudgetUsedUp

RepairSpec == RepairInit /\ [][RepairNext]_repairVars

-----------------------------------------------------------------------------
RepairTypeOK ==
  /\ \E c \in Cases : request \in Requests(c)
  /\ progress \in {"preflight", "baseline", "search", "done"}
  /\ freeing \in 0..request.most
  /\ freed \subseteq SUBSET Candidates(request)
  /\ \A p \in plans \cup reply.plans :
       /\ p.changed \subseteq request.ir.questions
                           \X UNION {request.ir.options[q] : q \in request.ir.questions}
       /\ p.dropped \subseteq request.ir.questions

-----------------------------------------------------------------------------
(* What is promised.                                                       *)

\* The target follows from consistent answers E in the mode asked for.
Reaches(r, E) ==
  LET B == Base(r, E)
  IN  /\ B # {}
      /\ IF r.mode = "possible" THEN ReachingTarget(r, B) # {} ELSE ReachingTarget(r, B) = B

\* Some edit of at most n answers the client did not lock, each changed or
\* taken back, reaches the target.
EditReaches(r, n) ==
  \E S \in SUBSET Candidates(r) :
    /\ Cardinality(S) <= n
    /\ \E alpha \in UNION {AnswersTo(r.ir, Q) : Q \in SUBSET S} :
         Reaches(r, {p \in r.answers : p[1] \notin S} \cup alpha)

\* Every plan the client is told changes between one and max_changes answers
\* and none of the locked ones, and the answers it leaves are consistent and
\* make the target follow, in the mode asked for. "Already reachable" is
\* said of consistent answers only (find_repairs_for_target).
PlansReachTheTarget ==
  /\ reply.code = "already_reachable" => Reaches(request, request.answers)
  /\ \A p \in reply.plans :
       /\ Touched(p) \subseteq Candidates(request)
       /\ PlanSize(p) \in 1..request.most
       /\ Reaches(request, Repaired(request.answers, p))

\* "Cardinality-minimal answer-edit repair search": no smaller edit than the
\* cheapest plan reaches the target, and none at all within max_changes when
\* the search completes without a plan. Only in mode "possible", or when every
\* question is answered: otherwise the one model shown for a combination may
\* be one whose edit entails nothing, while another's would.
Exact(r) == r.mode = "possible" \/ Answered(r) = r.ir.questions

NoSmallerEditReaches ==
  /\ reply.code = "plans" /\ Exact(request) =>
       \A n \in 1..request.most :
         (\A p \in reply.plans : n < PlanSize(p)) => ~EditReaches(request, n)
  /\ reply.code = "no_plan_within_max_changes" /\ Exact(request) =>
       ~EditReaches(request, request.most)

\* As the message has it: "No answer-edit plan within max_changes would reach
\* the target outcome. The search completed within server limits."
NoPlanMeansNoPlan ==
  reply.code = "no_plan_within_max_changes" => ~EditReaches(request, request.most)
=============================================================================
