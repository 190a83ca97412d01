# Verification of smeme

smeme keeps decision trees. People draw them in an editor or have them generated,
publish them as questionnaires, and deploy them: a deployed tree is compiled into
an SMT theory with which an assistant reasons over MCP. It asks what the answers
given so far entail, which further question matters, which answers a conclusion
rests on, which edits would reach another one. Accounts, plans and quotas stand
around this. This directory holds TLA+ models of these parts, the TLC
configurations that check them, and theorems about them checked by TLAPS.

Paths below are relative to `src/`. `PROJECT.json` maps every definition to the
lines it stands for and lists the hazards the properties are about.

## 1. Inventory

### Modelled

| Component | State it keeps | Operations | What is hard | Module |
|---|---|---|---|---|
| **Inquiry kernel** `smeme/reasoning/runtime/inquire`, `reasoning/theory` | none | entailment, discriminators, witness search, ANALYZE, admit, verify, retract, replace | searches that leave out a width; budgets that end a search at any call | `InquireKernel` |
| **Support search** `runtime/inquire/support.py` | candidate, budget | greedy deletion, enumeration | the bound, the budget, timeouts | `ResolvingSupport` |
| **In-process loop** `orchestration/inquire/{execute,admit,verify}.py` | evidence, verified keys, directive | `step` | answers in any form, decisions that take answers back, policy versions that change between steps | `InquireLoop` |
| **Persisted session** `orchestration/inquire/persist` | session row, admitted and verified rows, receipts | start, next_directive, admit, verify, abandon | racing mutations, lost replies, roll-outs, reads at READ COMMITTED, the identity map | `InquireSession`, `VersionedCase` |
| **Chat facade** `mcp/inquire/chat_facade.py` | evaluation runs, CHAT_REPORT_ISSUED | evaluate, evaluate_continue | mutates on a row read before the lock; Apply in a second database session; retries | `ChatGather` |
| **Apply** `reasoning/runtime/{consistency_gate,evaluate,decisive_support,counterfactual,path_under_edit}.py` | none | evaluate, decisive supports, repair plans, what_if, edit_affects_path | one model of the solver stands for all of them; every UNSAT may be a contradiction; limits | `DecisiveSupport`, `RepairSearch`, `AnswerEdit` |
| **Trees: validation, IR, walk** `decision_tree/{workflow.py,helpers/validation.py}`, `reasoning/ir` | none | three tiers of validation, navigation, compilation, the solver's gate | four readings of one graph that must agree | `TreeGraph` |
| **Tree editor** `decision_tree/editor/operations.py` | the draft | create, update, delete, redirect nodes and edges | long sequences of legal edits | `TreeEditor` |
| **Questionnaire sessions** `decision_tree/{workflow,routes}.py` | current node, answers, conclusion, completed | start, answer, skip, previous, jump, review, resume | going back and on again, changed answers, optional questions | `TreeSession` |
| **Draft storage** `decision_tree/{editor,deploy.py,helpers/cache.py}`, `mcp/authoring_graph.py`, `reasoning/artifact_deploy.py` | the row, the corpus, artifacts, the graph cache | load, save, compare-and-set, deploy, cache, delete | writers with four different disciplines of locking; caches filled late | `DraftLifecycle` |
| **Quota, metering, account deletion** `billing/{quota,usage}.py`, `auth/account_delete*.py`, `auth/clerk_auth.py` | month's rows, generations, trees, user row, dead letters | reserve, run, flush, build, save; three phases of deletion, sweeper, webhook, sign-in | advisory locks, a refresh that commits, restarts, two services that fail apart, a round of retries that keeps row locks | `Account` |
| **Plan and trees** `billing/access_policy.py`, `billing/quota.py`, `mcp/sample*`, `decision_tree/routes.py` | plan, pick, dormancy, the sample, versions | create, import, restore, version, delete; plan ends, pick, upgrade | several writers; changes of the plan without a lock, each writing only what differs from what it has read | `PlanLifecycle` |
| **Tool calls** `mcp/{bearer_auth,reasoning_fastmcp,telemetry}.py` | the person's row, the tree's row, the meter, stored runs | authenticate, provision, load, reserve, work, flush | the world changes between load and work | `AssistantCall` |
| **Wizard** `decision_tree/generation/agentic/{workflow,services,routes}` | generation row, checkpointed thread, page, saved trees | submit, retry, resume, abandon, maintenance | the page and the thread may disagree; a process dies between save and checkpoint | `Wizard` |
| **Build** `generation/agentic/{subgraphs/build,auto_fix}.py` | graph, errors, status, rounds | validate, fix, validate again | a fix makes new errors; the status of an earlier graph | `GraphBuild` |

How they interact. The loop and the persisted session call the kernel, the kernel
the support search. The chat facade calls the session in one database session and
Apply in another; orchestrators and chat clients meet only in the session's tables.
Editors, authoring clients, Deploy and viewers meet in the tree's row and the
graph cache. A tool call reads the person's row, the tree's row and its current
artifact, which the editor, Deploy and the hosting side's plan changes write
meanwhile. The wizard meets the others only by the tree it saves and the room in
the plan it takes. All of them share one Postgres at READ COMMITTED; advisory locks
and row locks are what order there is.

### Not modelled

| Component | Why |
|---|---|
| Wire handlers and codec of the inquiry | stateless; what they refuse changes nothing |
| Verification battery (repeated blind extraction) | reduced by the policy to one decision, which the models choose freely |
| CEVI evidence contracts | deterministic text processing at deploy, no state |
| Prompts and model calls of the wizard | may return anything; the models let them |
| The event stream's buffer | order of notices on a page; nothing else depends on it |
| Web UI, configuration, docs | no protocol |

## 2. Modules

```
InquireKernel ─┬─ InquireLoop ───────────────────────────────┐
               ├─ ResolvingSupport ── DecisiveSupport ───────┼─ MCSearches
               ├─ RepairSearch ────── AnswerEdit ────────────┘
               ├─ InquireSession ──┬─ MCInquireSession
               │    VersionedCase ─┘  (INSTANCE)
               │    └─ ChatGather ──── MCChatGather ─────────┐
               └─ TreeGraph ─┬─ TreeEditor ─────┐            ├─ MCAssistant
                             ├─ TreeSession     ├─ MCDrafts  │
                             └─ GraphBuild ──┐  │            │
DraftLifecycle ──────────────────────────────┼──┘            │
Wizard ──────────────────────────────────────┴─ MCGeneration │
AssistantCall, PlanLifecycle ────────────────────────────────┘
Account ── MCAccount

KernelProofs ─┬─ SearchProofs
              ├─ DraftProofs
              ├─ GenerationProofs
              └─ InquireSessionProofs  (InquireSession, ChatGather)
TreeSessionProofs, AssistantProofs, AccountProofs
```

Four runs put components side by side that share no variable (MCSearches,
MCAssistant, MCDrafts, MCGeneration): the initial state says which of them moves,
the others stand still. Each is checked as if alone, in one run.

### Reasoning

**InquireKernel**: operators only. A tree is a record; the theory is the set of its
models, each the choices it makes and the conclusions it reaches; entailment is
quantification over models. `Reached` is the least set closed under the edges the
choices open. `ExactDirective` is ANALYZE when every solver call succeeds, `GiveUps`
are the STOPs it may answer instead. Nodes are naturals, in the order of the ids.

**InquireLoop**: `execute.step` in a loop. `Analyze` and `GiveUp` are
`analyze_inquiry`, called with the policy version of this step; the other actions
are `execute_directive` with each answer of the extractor and each decision of the
verification policy.

**ResolvingSupport**, **DecisiveSupport**: one action per solver call. Which subsets of
the answers resolve, or force the target, is a family chosen at the start, so the
searches are checked for families and not for one tree. The family is up-closed, as
entailment is, and that is used: `_is_inclusion_minimal` tries single removals only.

**RepairSearch**: `counterfactual.py`. A layer frees so many answers; for every
combination the solver shows one model (any), which becomes an edit, which passes
the consistency gate or not. Budget and timeouts are give-ups at any query, so no
counter is kept. Ties among equally cheap plans are free.

**AnswerEdit**: `what_if` and `edit_affects_path`. Both evaluate first, and an
evaluation reads report, candidates and path off one model the solver shows; only
a single conclusion is asked about again. If that last check gives up, the conclusion is
reported all the same, without proof (`Reports`, `alt`); if one of the checks before it
gives up, more is asked for. Whether `edit_affects_path` answers or raises
`path_not_entailed_at_baseline` therefore depends on that model. A blank override
never takes an answer back: merging only adds. Conclusions may share a title, and
then `what_if` can call a changed conclusion unchanged, so `UnchangedOutcomeStands`
is about distinct titles; of a conclusion reported without proof it says only that the
answers allow it and force no other. A path told to be kept may come with conclusions newly forced.

**InquireSession**: the tables as variables, `lock` the row lock, `row[p]` the session
row in the identity map of process p. A mutation is `Lock` and then one commit action
that stands for the rest of the transaction, since nobody else can write in between;
a refusal, an error or a crash is `RollBack`. A crash after the commit is a commit
whose reply is lost: the client calls again with the same key. `next_directive` is
three actions, one per SELECT, because at READ COMMITTED each sees what has been
committed by then.

**VersionedCase**: what a client is promised, without servers and locks: a version
that moves with every change, keys that are spent once, against the version named.
`InquireSession` implements it under the mapping `Promise`.

**ChatGather**: adds processes that serve chat calls, one action per statement others
can come between. `Continue` loads the row without a lock, `ChatLock` finds it already
loaded and keeps it (`load_owned_session` does not ask for a refresh;
`artifact_deploy.py:80` does, with `populate_existing`). `ReplayUnderLock` is the receipt
that appears between lookup and lock. `Refuse` and `Crash` end a call wherever it may fail.

### Trees

**TreeGraph**: a draft is questions with options and flags, conclusions, and a bag of
edges (the stored list may repeat one). On it the three tiers of validation
(`EditingErrors`, `StrictValid`, `PublicationValid`), the questionnaire's navigation
(`NextNodes`, `WalkEnds`), the compiler (`CompiledIR`, `ValidIR`) and the solver's gate
(`ReadyToDeploy`).

**TreeEditor**: one action per operation of the editor, followed by its validation.
**TreeSession**: one respondent's walk. Forward, backward, jump, review and resume
share the helpers the code shares; of several edges for one answer the first wins, so
trees with such edges are left out there. **DraftLifecycle**: who loads, saves, caches
and deploys a draft, and from which copy. A graph is the set of edits in it, so a
lost update is an edit missing. `owed` records the acknowledged edits nobody has taken out.

Two facts of the storage worth knowing: the route's authorisation loads the row, so
the workflow's "fresh" load returns the same identity-map object and the docstring at
`editor/workflow.py:32` does not prevent lost updates; and editor pages put the
session's object back into the cache, so a stale graph may be cached after an
invalidation, until the hour's time to live removes it.

### Accounts and plans

**Account**: one Clerk identity, its row (numbered, since a person may register again),
dead letters, and requests that reserve, build, delete and crash. The three phases of
deletion are the code's; Svix redelivers until it gets a 200. A generation needs room
for its row, for the tree it is to build and among the month's completions; the build
saves its tree without asking for room again, and `built` counts those.

A round of the sweeper is one session: it reads its letters at once (`batch`), works
them off one after the other, and what it has decided of one is written by the next
look-up and stays locked until something commits (`pending`, `Locked`): the purge of the
next letter or the end of the round. Recording a failure is a session of its own,
which picks any open letter of the person and waits for its row. So a round that meets
a failed purge can wait for a row it has itself locked, and so can everyone else who
records a failure; that takes two letters open at once, which two failures recorded at
once leave. Postgres sees no cycle in it, and no timeout ends it. An exception other
than the two that are caught rolls the round back and ends the maintenance task until
the process restarts (`SweepAborts`). A letter outlives the row it was written for, so
a person who has registered again can be purged by it, which `PurgesAreOwed` allows as
"an open dead letter"; a failed Clerk deletion leaves an identity and a letter without
a user, which the next round closes; a sign-in that fetched the profile before the
identity was removed leaves a row for good, which `RowsFollowTheIdentity` names as its
exception.

**PlanLifecycle**: a person's trees while the plan ends, a tree is picked, the plan is
renewed. All of these are requests and overlap, with each other too: none takes a lock. A
change of the plan has read the flags and which trees are asleep, and writes of them only
what differs from that (`Flags`, `Sleeps`), as a flush of loaded rows does; a renewal
wakes all trees in one UPDATE. Whether the account is paid is the hosting side's to write.
`kinds` says which kinds of request come together in one behaviour. `beside` records what
came in without being counted: the sample restored without room, requests that counted
under another plan, trees added since the end of the plan or the choice read the list,
trees a renewed plan wakes, and of overlapping changes the trees a choice had read as
asleep and another change has woken, and those that stay open because an end had read
a choice as due that has been made meanwhile. Without the last two `InventoryWithinPlan`
is false. Overlaps also leave flags that disagree, of which nothing is claimed: a paid
account with a choice still due, or two choices that put every tree to sleep. Further: a
version is not a root, so families escape the cap; with a pinned tree, the other
counted trees and a new version of it are refused as dormant; restoring a versioned
sample leaves two current rows in one family; deleting below the pick count during
limbo leaves limbo without a way out in Core.

**AssistantCall**: one person, one tree, calls made once. The user is read at
authentication and stays as read. The world changes in between: edits, deploys, listing,
deletion, plan changes. Weights are counted in halves. A call refused at
authentication binds no telemetry and leaves no row.

### Generation

**Wizard**: the thread is LangGraph's (external; taken from how it is used): the
checkpoint and the node it waits for. A submission merges its text into the state and
resumes the thread; the page is chosen from the state, not from the thread. Things
seen: own conclusions do not skip the subgraph although `phase1_5_conclusions.py:56` says
so; the retry button of the research stays while its heading is in the text; retrying
a build resumes a thread that has ended and does nothing; a retried design resumes without
the edited text and builds from the old one; a crash between the tree's commit and the checkpoint, or
an overlapping submission, saves a second tree.

**GraphBuild**: validation and fixing of what the model returns, a round at a time.
`delete_edge` removes all copies, so fixing a duplicate loses the route. A corrected
label may make an edge equal to another, and both vanish in the next round. Structure
warnings are given only for drafts without structural errors, so `auto_fix` never sees
a missing default, and `_add_default_edge_to_next` never runs. A failed build goes
through three rounds without effect. A tree with errors is saved anyway, as such.
An optional question whose answers all lead to conclusions, without a default edge,
is refused by publication (`validation.py:985`) and by no warning told of
(`validation.py:377`); `StatusTellsOfTheTree` names this exception, because the model may
return one. Of the copies a corrected label makes, only that there are several is kept.

## 3. Runs

| Run | Question | Instance | Why it is enough |
|---|---|---|---|
| `searches` | Is what the solver-driven searches tell true, whatever gives up? | up-closed families over 4 answers, 16 calls; 9 trees and assumptions for repairs; 26 for the loop; overrides of up to 2 questions; 727,239 states | enough calls for most searches and too few for the longest; trees where a question matters on one branch, where only a joint answer resolves, dead ends, contradicted assumptions, supports smaller than the evidence |
| `repair_misses_plans` | "No plan" means there is none | the repair part of `searches` | violated, see findings |
| `inquire_session` | Do locked mutations implement the versioned case? | 2 servers, 1 reader, 4 keys, 2 policy versions, 2 assumptions | 4 keys answer both questions and verify both; two servers and a reader race |
| `assistant` | What does an assistant meet? | chat: 2 chat servers, 1 orchestrator, 3 answers, 2 runs; calls: 2 calls of 4 kinds, 2 changes of the world; plan: 2 requests, 1 tree free and 2 paid, 3 trees made; in 4 mixes of kinds; 2,378,090 states | two calls may each end the gather; two changes open and close a gate; two requests compete for the last place while the plan ends, and any two changes of the plan overlap |
| `chat_ends` | Does every chat call end? | as above, 1 answer, 1 run | the same answer sent twice replays under the lock |
| `chat_revision` | The revision is a version of the case, with chat | 1 chat server, 1 orchestrator | violated, see findings |
| `chat_report_twice` | CHAT_REPORT_ISSUED is recorded once | 2 chat servers | violated, see findings |
| `questionnaire` | Conclusions are reached by explicit answers | an optional question before a required one, and a chain | violated, see findings |
| `drafts` | Do validation, walk, compiler and gate agree? Do saved edits survive, and do caches follow? | drafts of up to 3 nodes and 2 edges, and 5 deployable trees with up to 2 changes; storage: 2 requests, 2 edits, 1 corpus, 2 artifacts; 617,841 states | the trees have a default edge, an optional question, two routes for one answer, options that differ in case; two requests suffice for a lost update and a stale cache |
| `account` | Are plans kept, deletions finished, rows purged with cause? | 2 requests and the sweeper, allowance 1, 1 completion a month, 2 rows, 2 letters, both in one round, 1 restart, 2 attempts; 3 mixes of requests; 1,086,663 states | one unit of room is what two compete for; a second row is a person who registered again; two attempts are one retry; two letters in a round are one written while the other is worked off |
| `generation` | Does a text reach its phase, is one tree saved, is the status the tree's? | 1 tab, 1 augmentation, 2 trees saved; builds: 3 trees with up to 3 slips, 2 with a question that may be skipped; 467,135 states | a second saved tree is the violation looked for; a label corrected into a copy needs a second round |
| `fix_drops_routes` | Fixing a repeated edge keeps the first copy | the builds of `generation` | violated, see findings |

**Bounds.** `Keys`, `MaxRuns`, `MaxUsers`, `MaxLetters`, `MaxCrashes`, `MaxBuilds`,
`MaxMade`, `MaxChanges`, `Mixes`, `KindsTogether`, `MaxArtifacts`, `MaxTrees`,
`MaxAugmented`, `MaxEdges` and `MostEdited` are bounds of the models; `MaxSatCalls`,
`MaxAttempts`, `BatchLimit`, `Completions`, `MaxAugmentations`, `MostChanges`,
`TopPlans` and `TopSupports` are limits the code has. In `Wizard` one thing breaks off
per behaviour (`Whole`). `Mixes` takes a deletion from the profile with the webhook,
calls with the webhook, and trees with wizards; `KindsTogether` every change of the plan
with drafts and the sample, with drafts, the ACME example and versions, with drafts and
deletions, and, the choice apart, with drafts, versions and deletions. Two tabs are not
explored: a second tab submits an outdated page, whose text resumes whatever the thread
waits for, so `StraightRunsBuildWhatWasSubmitted` is stated, checked and proved of one
tab. Servers, keys, calls and requests are symmetric where a run says SYMMETRY; runs
that check liveness do not use it. Deadlock is checked unless the bounded system really
stops: a search or a build ends, a generation is completed, an account's requests are
used up.

**Fairness.** The loop and the support search run in one thread: weak fairness of `Next`.
`AnsweringEnds` further has as its premise that from some point on the extractor answers
and the policy retains. A chat call that has begun goes on (weak fairness); a
statement that waits for the row lock gets it if the lock is free again and again
(strong fairness: Postgres queues waiters). In `DraftLifecycle` only the clock is fair:
a cached graph expires. In `Account` and `Wizard` running tasks proceed and the
scheduled maintenance comes round (daily, weekly); in `Account` this is one weak fairness
of the round's steps, so a sweeper that is dead or waits for a lock need not go on, and
an exception need not come to free it. Crashes are never relied on; no
client is assumed to call at all; `PlanLifecycle` and `AssistantCall` state safety only.

## 4. Findings

Five runs are expected to violate their property; each shows a place where the code
does other than a comment, guide or message says.

1. **A chat admit checks its revision against itself** (`chat_revision`).
   `chat_evaluate_continue` loads the session row, then `admit_to_session` locks it in
   the same database session; SQLAlchemy returns the row already loaded
   (`persist/auth.py:23`). The expected revision comes from that row, so the check
   always passes, and an orchestrator's mutation committed in between is overtaken: the
   evidence changes and the revision does not move, or an abandoned session is written
   as if it were ACTIVE.
2. **Two chat reports for one session** (`chat_report_twice`). The report is persisted
   before CHAT_REPORT_ISSUED is looked for and appended, neither under a lock
   (`persist/service.py:577`).
3. **A conclusion nobody answered for** (`questionnaire`). Going on or resuming at an
   optional question without an answer takes the first edge of the list
   (`decision_tree/workflow.py:531`), which may be a conditional one to a conclusion.
4. **"No plan" although there is one** (`repair_misses_plans`). In mode entailed one model
   stands for all ways to answer the freed questions (`counterfactual.py:1025`).
5. **Fixing a repeated edge deletes it** (`fix_drops_routes`, `auto_fix.py:244`).

What survives (1) is in `assistant`: reports are drawn from finished gathers, and two
reports of one session agree on the conclusion. Related, and not a run: a `next` read
that spans a mutation's commit raises `inquire_session_invariant`, whose message
(`persist/service.py:431`) blames the mutation for not persisting STOP though it did;
`InvariantErrorMeansRace` shows that this is the only way it can be raised.
Three more that no run refutes, because the code and its docs promise nothing else:
an evaluation whose last check gives up is reported as concluded, without proof
(`evaluate.py:209`); a round of the deletion sweeper can wait for ever for a row it has
locked itself, and an exception in one letter ends the maintenance task until the
process restarts (`account_deletion_retry.py:72`); changes of the plan that overlap leave
trees open beside the plan, flags that disagree or no tree open at all
(`access_policy.py:202`). The properties of these parts say exactly what holds in spite of them.

Also: options that differ only in case pass every tier of validation, but the
questionnaire compares answers without regard to case (`workflow.py:460`), so the first
of two such edges answers for both. `WalkAgreesWithTheory` therefore speaks of trees whose
options stay distinct when folded.

## 5. Proofs

Everything below holds for every value of the constants: any tree, number of
processes, requests, keys, letters, limits. What is assumed of the constants is what
the modules' ASSUMEs say, and TLC evaluates them on the runs' instances. In
substance: that node ids are not options, that the sentinel values are none of
the values they stand beside, that the trees given are finite, that the
families of the searches are up-closed and hold the answers as a whole, that a
deployed theory has a model (`Deploy` records SAT(T)), that limits are naturals.

**Induction.** The theorems that are about recursion over data rest on one fact in
`KernelProofs`: a set of naturals that holds 0 and with each of its members the next is
all of them (`SetInduction`, from the library's well-founded order on the naturals).
From it follow that the recursive waves of `Reached` and its likes are what their
definitions say, that each is the last of as many steps as there are nodes edges leave,
hence closed under the edges (`ReachedIsClosed`), and the least such set (`ReachedIsLeast`).

**InquireSession** (`InquireSessionProofs`). The types alone are not inductive: a commit computes the new
revision from `row[p]`, not from `session`. The strengthening is `LockHolderIsCurrent`:
who holds the lock has the database's row in its identity map, the others have none.
Every step then writes the tables in one of five ways (start, admit, verify, abandon,
not at all), and each property follows by these cases. `ImplementsPromise` is the
refinement of `VersionedCase`: every step is one of its steps or a stutter.
`LockHolderIsCurrent` is exactly what `ChatGather` breaks, which is why
`RevisionIsVersion` is a theorem of the one and violated in the other.

**ChatGather** (`InquireSessionProofs`). GatherInv does without it: a row in an identity map,
however old, tells the assumptions the session was started with, and answers are only added.
So ANALYZE, on the answers as a commit leaves them, tells of the case as it is, and a case is settled
(no model, or resolved) when it asks for nothing. Settled stays settled under more
answers (`SettledStands`), hence the answers read for a report are, though a stale admit may have
added to them (`ReportsAreOfFinishedCases`). Answers given without assumptions never
contradict each other (`AnswersHaveAModel`), so settled parts of one case agree
(`ReportsComeToOneConclusion`). Both ask of the tree that a model of it comes to one
conclusion (`ConcludingIr`), as published trees with one route per answer do. Without it
*not resolvable* need not last: where a default route stands beside an option's, two
conclusions are open at once, nothing resolves, and a further answer may make a question
discriminate. The two theorems are about a solver that does not give up, as the properties are.

**The searches and the loop** (`SearchProofs`). `SearchInvariant`: what greedy deletion has left
resolves and no combination tried does; the first untried combination precedes every
other that resolves. `NotResolvableIsAProof`: if the witness search finds nothing, no
answers to the open questions resolve. With one open question each
answer leaves one model, which D_1 would have shown; with two or more, an answer that
resolves extends to a pair that does, which width two has tried. Nothing is assumed of
the tree but that it is finite. `VerifiedStopsAreCarried`: LInv keeps that verified keys
are of live answers and that the directive was computed from the evidence as it is.

**Apply** (`SearchProofs`). DInv: the combination held is consistent and forces the target, and no
answer tried can go; the enumeration has passed everything smaller that is not a support.
RInv: the edits collected pass the gate, and the gate is reliable because a theory with a
model is consistent or the ladder of checks says what is not (`GateIsReliable`). MInv: what a
layer has tried had nothing to show; freeing the answers an edit touches shows a model
(`FreeingFinds`), and in mode possible, or with every question answered, one model tells
all (`OneModelTellsAll`). That premise, `Exact`, is needed: without it finding 4 is a
counterexample. EInv for the edit tools: what is entailed is forced in the model shown, and what is forced is on the path.

**Drafts** (`DraftProofs`). `DraftsAreWellFormed` is inductive over the editor's operations. From it, for
publishable drafts: a walk that stands at a question after k steps has at
least k nodes before it (`OneMoreBefore`: no cycle), so after as many steps as there are nodes
it stands at a conclusion (`PublishedTreesConclude`). The nodes some answers reach are closed under
all edges, since the way to a question does not depend on the answer to it
(`WayToAQuestion`), so no conclusion is dead (`GateNeverSurprises`). A walk follows open
edges, and where each answer has one route it follows them all (`NavigationAgreesWithTheory`).
Of the storage: an editor's copy has every edit still owed but those saved after its load, and a copy
on its way to the compiler passed the gate; hence `EditsSurvive`, `DeployIsIdempotent`, `DeployedDraftIsLive`.

**Sessions on trees** (`TreeSessionProofs`). Whoever stands at a conclusion has it recorded, and no
request takes a completion back.

**Tool calls and plans** (`AssistantProofs`). CallInv says of each stage what the call has seen. The
argument is that a tree that is not usable for the plan as it was read can become usable
for it only by a step after which it is usable for the plan as it is, for which
`AwakeUnlessChosen` is needed: with a paid plan or a pick due no tree sleeps. (There the
changes of the plan come one at a time.) PInv: what is
not in `beside` is counted; only the holder of the slot adds to it, and while the plan
stands the room it found is there (`Fits`); while a choice is due, whatever the account
is, what counts fits the paid plan (`FitsInLimbo`). No part of it speaks of one change of the
plan at a time: each change is measured by what it had read. The proof found a case the run's bounds do not
reach: a sample restored beside the count, kept at the pick and later replaced by a new
tree, while the renewed plan wakes the sleeping trees without asking for room. The
model counts the woken trees among `beside` since.

**Accounts** (`AccountProofs`). AccountInv adds on what grounds each worker is at its step: a deletion
under way has a reason that still stands, a counted reservation still has its room because
nobody else can be at the same count, a round's letters are open until the round closes
them, and (`Apart`) those still to come, the one at hand and those its transaction has
written are different letters, so the commit in the middle of a purge never closes the
letter at hand.

**Generation** (`GenerationProofs`). BuildInv: errors and status are those of the tree there is, and what
has been fixed `n` times is as `Rounds` says. One round leaves no slip the rules can find,
copies apart (`OneRoundFixes`): a corrected label may have made one. A second leaves none
(`FixedRound`) and changes nothing else, so two rounds are enough and the third is to spare.
The one thing assumed of the model's trees is `DraftLike`, what the conversion makes of any
answer. WizardInv: while nothing is torn, one request at a time is in flight, and once there
is a tree whoever runs has saved it, and the thread has ended or is gone; a thread that a
retry starts anew belongs to a row that is gone, so no request begins on it. Of the tabs
nothing is assumed, and TLC has seen WizardInv hold for one and, while nothing is torn, two.

`StraightRunsBuildWhatWasSubmitted` says nothing of the page that submits, and resuming
trusts whatever it is given: a text for one phase becomes the next field that waits for one,
and the fields a retry of the build sends would start a build of what the model designed.
StraightInv adds to WizardInv what keeps this from happening in one tab: the page is the one
for the node where the thread rests (`PageFits`), a request finds the thread at the node its
value is for, or gone (`RequestsFit`), and the phases have left their texts in order
(`InOrder`), from which the page of a saved generation is told. The theorem's premise is that
there is one tab; with two the property is false. TLC has seen StraightInv hold.

**Only model-checked.** Liveness (`AnsweringEnds`, `ContinueEnds`, `DeadLettersAreWorkedOff`,
`OutdatedGraphsLeaveTheCache`, `CheckpointsGoWithTheirRow`), which TLAPS does not do under
fairness. Every safety and action property of a passing run is a theorem.

## 6. What the models leave out

- Texts, ids, timestamps and hashes. A receipt's request hash is the payload itself;
  a client that reuses a key for another payload is refused and changes nothing.
- Events, apart from CHAT_REPORT_ISSUED: the others are written and never read.
- The artifact and catalogue of a session: frozen when it starts, so the tree is a
  constant of `InquireSession`. In `ChatGather`, what an edit or redeploy may do to the
  terminal Apply is `Refuse`.
- The order of path steps, evidence references and the wording of reports in `AnswerEdit`.
- Locks on unanswered questions in `RepairSearch`: they have no effect.
- The month's reset of the meters; prompts, research results, and the difference between
  a research text and what the user makes of it; design and conclusions keep only whose they are.
- Two requests of one respondent at once in `TreeSession`.
- Changes of the plan that overlap, in `AssistantCall`: there `ChangePlan` is one change at
  a time, seen from one tree; `PlanLifecycle` has them overlap. A late change may wake a tree
  while the flags another one left hide it, and a call that had read the flags before
  them all would take it for usable.
- Connection pool and statement timeouts, other than as failures.

## 7. Plan

Modelled, checked and, where it says so above, proved: everything in section 1's
first table. Open: the parts in its second table, and of `Wizard` what may still be said of
the texts when a second tab submits an outdated page.

## 8. Running

```
tlc -workers 2 -config MCInquireSession.cfg MCInquireSession
tlapm DraftProofs.tla
```

The slowest run takes about two minutes on two cores, each proof module about a minute
or two.
