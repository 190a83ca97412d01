------------------------------- MODULE Wizard -------------------------------
(* Agentic generation: a user and a workflow take turns. The workflow      *)
(* researches, extracts conclusions, designs a questionnaire and builds a  *)
(* tree; between the phases it waits for the user to edit its text.        *)
(*                                                                         *)
(* One generation of one user. The workflow keeps its state in checkpoints *)
(* of a thread: a request loads the latest one, works on a copy of its own *)
(* and writes it back after every node. Nothing locks the thread, so two   *)
(* requests may run on it, and a process that dies leaves it between two   *)
(* nodes. Texts are told apart by who wrote them and on which page: "C"    *)
(* and "D" were submitted on the conclusions and on the design page, "ai"  *)
(* came from the model, "" is an empty text, "none" a design the model     *)
(* owes and "failed" a research text that says the model has failed. What  *)
(* the user makes of the research text is not told apart from it.          *)
(*                                                                         *)
(* A phase tracker (set_research_phase ...) is one node with the node it   *)
(* leads to. How LangGraph resumes a thread is external.                   *)
EXTENDS Naturals, Sequences, FiniteSets

CONSTANTS
  Tabs,              \* browser tabs of the user
  MaxAugmentations,  \* augmentations of the research the user is offered
  MaxTrees,          \* bound on trees saved
  MaxAugmented       \* bound on augmentations made

ASSUME WizardAssumption ==
  /\ MaxAugmentations \in Nat /\ MaxTrees \in Nat \ {0}
  /\ MaxAugmented >= MaxAugmentations
  /\ "background" \notin Tabs

VARIABLES
  generation,   \* the in-progress row: [there, fresh]; fresh: touched within the hour
  thread,       \* the latest checkpoint, NoThread if there is none
  run,          \* what each tab's request and the background task is doing
  page,         \* what each tab shows: [at, retry]; retry: a retry is offered
  trees,        \* trees saved, each with the text its graph was built from
  cleaning,     \* cleanup_expired_generations: "idle", "selected", "purged"
  mishaps       \* what has gone other than straight, for the properties

wizardVars == <<generation, thread, run, page, trees, cleaning, mishaps>>

Actors == Tabs \cup {"background"}

NoThread == [next |-> "nothing"]

\* The state start_generation hands to the workflow, before its first node.
FirstState ==
  [next |-> "research", research |-> "unset",
   action |-> "continue", augment |-> FALSE, augmented |-> 0,
   concl |-> "", conclEd |-> "",
   design |-> "none", designEd |-> "", graph |-> FALSE, tree |-> 0]

Waiting == {"wait_research", "wait_conclusions", "wait_design"}

NotRunning == [kind |-> "idle"]
\* Bound: one thing goes wrong, and research is not retried after it.
Whole == "torn" \notin mishaps

InFlight(a) == run[a].kind \notin {"idle", "cleanup"}

Page(at) == [at |-> at, retry |-> FALSE]

\* route_after_research_edit. An augmentation stays asked for: its parameters
\* are cleared in the subgraph's state, not in the workflow's.
AfterResearchEdit(st) ==
  IF st.action = "augment" /\ st.augment /\ st.augmented < MaxAugmentations
  THEN "research" ELSE "conclusions"

\* search_node: done, be it with an empty text, or failed (the text says so).
Searched(st) == {[st EXCEPT !.research = text] : text \in {"failed", "ai"}}

\* augment_research_node appends to the text, be it factors or a warning; the
\* text keeps saying that the search has failed.
Augmented(st, searches) ==
  LET text == IF st.research = "failed" THEN "failed" ELSE "ai" IN
  {[st EXCEPT !.research = text, !.augmented = @ + n] :
     n \in IF searches /\ st.augmented < MaxAugmented THEN {0, 1} ELSE {0}}

\* The research subgraph does one or the other.
Researched(st, searches) ==
  IF st.augment THEN Augmented(st, searches) ELSE Searched(st)

\* The conclusions subgraph: the model's or none. Those of the first form,
\* when it gives any, stand for the model's.
Concluded(st) == {[st EXCEPT !.concl = text] : text \in {"", "ai"}}

Designed(st) == {[st EXCEPT !.design = text] : text \in {"none", "ai"}}

Built(st) == {[st EXCEPT !.graph = ok] : ok \in BOOLEAN}

\* What a node leaves behind, and where the edges lead from it. searches: the
\* request has a search client, which those of the later pages lack.
NodeOutcomes(st, searches) ==
  CASE st.next = "research" ->
         {[s EXCEPT !.next = "wait_research"] : s \in Researched(st, searches)}
    [] st.next = "conclusions" ->
         {[s EXCEPT !.next = "wait_conclusions"] : s \in Concluded(st)}
    [] st.next = "design" ->
         {[s EXCEPT !.next = "wait_design"] : s \in Designed(st)}
    [] st.next = "build" ->
         {[s EXCEPT !.next = IF s.graph THEN "save" ELSE "end"] : s \in Built(st)}

\* A phase that comes back empty: the pages to come are not those the thread
\* waits for.
Strayed(phase, st) ==
  IF (phase = "conclusions" /\ st.concl = "") \/ (phase = "design" /\ st.design # "ai")
  THEN {"strayed"} ELSE {}

-----------------------------------------------------------------------------
(* What requests bring, and what the waiting nodes make of it *)

\* Resume values: a dict of fields of the state, or a text.
ResearchEdits(action, asks) ==
  IF action = "augment" THEN [action |-> action, augment |-> asks]
  ELSE [action |-> action]

DesignRetry(st) == [design |-> "none", conclEd |-> st.conclEd]

BuildRetry(st) == [graph |-> FALSE, designEd |-> st.designEd]

Text(on) == [text |-> on]

Merged(st, edits) ==
  [f \in DOMAIN st |-> IF f \in DOMAIN edits THEN edits[f] ELSE st[f]]

\* A dict with the field is merged; a text is the field; anything else keeps
\* what the workflow had shown.
Edited(st, field, shown, value) ==
  IF field \in DOMAIN value THEN Merged(st, value)
  ELSE IF "text" \in DOMAIN value THEN [st EXCEPT ![field] = value.text]
  ELSE [st EXCEPT ![field] = shown]

WaitForResearchEdit(st, value) ==
  LET s == IF "text" \in DOMAIN value THEN st ELSE Merged(st, value) IN
  [s EXCEPT !.next = AfterResearchEdit(s)]

WaitForConclusionsEdit(st, value) ==
  [Edited(st, "conclEd", st.concl, value) EXCEPT !.next = "design"]

WaitForDesignEdit(st, value) ==
  [Edited(st, "designEd", st.design, value) EXCEPT !.next = "build"]

Resumed(st, value) ==
  CASE st.next = "wait_research" -> WaitForResearchEdit(st, value)
    [] st.next = "wait_conclusions" -> WaitForConclusionsEdit(st, value)
    [] st.next = "wait_design" -> WaitForDesignEdit(st, value)

\* aupdate_state: as if the node that ran last had left these values, so an
\* edge that branches is taken anew. A thread without checkpoints starts anew.
Updated(st, values) ==
  LET s == Merged(IF st = NoThread THEN FirstState ELSE st, values) IN
  IF st.next \in {"research", "conclusions"} /\ st.research # "unset"
  THEN [s EXCEPT !.next = AfterResearchEdit(s)] ELSE s

-----------------------------------------------------------------------------
(* Pages *)

ResearchPage(st) == [at |-> "research", retry |-> st.research = "failed"]
ConclusionsPage(st) ==
  [at |-> "conclusions", retry |-> st.concl # "C"]
DesignPage(st) == [at |-> "design", retry |-> st.design = "none"]
BuildErrorPage == [at |-> "buildError", retry |-> TRUE]

\* The page for a saved generation: view_generation and resume_generation.
\* Mutant: it is told by the conclusions alone.
PageByConclusions(st) ==
  IF st.next = "nothing" \/ st.next = "end" \/ st.research = "unset" THEN Page("error")
  ELSE IF st.concl = "" THEN ResearchPage(st) ELSE ConclusionsPage(st)

PageFor(st) ==
  IF st.next = "nothing" \/ st.next = "end" \/ st.research = "unset" THEN Page("error")
  ELSE IF st.concl = "" THEN ResearchPage(st)
  ELSE IF st.design = "none" THEN ConclusionsPage(st)
  ELSE DesignPage(st)

\* The page for a request that stopped at st, with latest the state read
\* back from the thread.
PageAfter(kind, st, latest) ==
  LET known == latest # NoThread IN
  CASE kind = "research" ->
         IF st.next \notin Waiting THEN Page("error")
         ELSE IF st.next = "wait_research" \/ (known /\ latest.concl = "")
         THEN ResearchPage(st) ELSE ConclusionsPage(st)
    [] kind \in {"conclusions", "own"} ->
         IF st.next \in Waiting THEN DesignPage(st) ELSE Page("error")
    [] kind = "design" ->
         IF st.next \in Waiting \/ (st.next = "end" /\ st.graph /\ st.tree = 0)
         THEN Page("error") ELSE BuildErrorPage
    [] kind = "retryDesign" ->
         IF known THEN DesignPage(latest) ELSE [at |-> "design", retry |-> TRUE]
    [] kind = "retryBuild" -> BuildErrorPage

-----------------------------------------------------------------------------
(* Requests *)

WizardInit ==
  /\ generation = [there |-> TRUE, fresh |-> TRUE]
  /\ thread = NoThread
  /\ run = [a \in Actors |-> IF a = "background"
                             THEN [kind |-> "first", value |-> FirstState]
                             ELSE NotRunning]
  /\ page = [t \in Tabs |-> Page("loading")]
  /\ trees = <<>>
  /\ cleaning = "idle"
  /\ mishaps = {}

Noted(what) ==
  mishaps' = mishaps \cup what \cup (IF \E a \in Actors : InFlight(a) THEN {"torn"} ELSE {})

\* A request begins: its row is there, and update_phase touches it. kind says
\* which route it is, value what it will resume the thread with.
Begin(t, kind, value, touches) ==
  /\ run[t] = NotRunning /\ generation.there
  /\ run' = [run EXCEPT ![t] = [kind |-> kind, value |-> value]]
  /\ generation' = IF touches THEN [generation EXCEPT !.fresh = TRUE] ELSE generation
  /\ Noted({})
  /\ UNCHANGED <<page, trees, cleaning>>

\* research/submit
SubmitResearch(t) ==
  /\ page[t].at = "research"
  /\ \E action \in {"continue", "augment"}, asks \in BOOLEAN :
       Begin(t, "research", ResearchEdits(action, asks), action = "continue")
  /\ UNCHANGED thread

\* research/submit with skip_conclusions: the text is stored, the workflow
\* is not resumed.
SkipConclusions(t) ==
  /\ page[t].at = "research" /\ run[t] = NotRunning /\ generation.there
  /\ IF thread = NoThread
     THEN /\ page' = [page EXCEPT ![t] = Page("error")] /\ UNCHANGED <<thread, mishaps>>
     ELSE /\ thread' = Updated(thread, <<>>)
          /\ page' = [page EXCEPT ![t] = Page("ownConclusions")]
          /\ Noted({"strayed"})
  /\ UNCHANGED <<generation, run, trees, cleaning>>

\* conclusions/submit
SubmitConclusions(t) ==
  /\ page[t].at = "conclusions"
  /\ Begin(t, "conclusions", Text("C"), TRUE)
  /\ UNCHANGED thread

\* conclusions/submit with user_provided: stored, then resumed all the same.
SubmitOwnConclusions(t) ==
  /\ page[t].at = "ownConclusions" /\ thread # NoThread
  /\ thread' = Updated(thread, [concl |-> "C", conclEd |-> "C"])
  /\ Begin(t, "own", Text("C"), TRUE)

\* design/submit
SubmitDesign(t) ==
  /\ page[t].at = "design"
  /\ Begin(t, "design", Text("D"), TRUE)
  /\ UNCHANGED thread

\* retry-design and retry-build resume the thread with fields of its state.
RetryDesign(t) ==
  /\ page[t] = [at |-> "design", retry |-> TRUE] /\ thread # NoThread
  /\ Begin(t, "retryDesign", DesignRetry(thread), FALSE)
  /\ UNCHANGED thread

RetryBuild(t) ==
  /\ page[t].at = "buildError" /\ thread # NoThread
  /\ Begin(t, "retryBuild", BuildRetry(thread), FALSE)
  /\ UNCHANGED thread

\* retry-research and retry-conclusions run a subgraph beside the workflow.
\* The first does so in the background, on the state it reads as it starts.
RetryResearch(t) ==
  /\ Whole
  /\ page[t] = [at |-> "research", retry |-> TRUE] /\ run[t] = NotRunning
  /\ generation.there /\ thread # NoThread /\ run["background"] = NotRunning
  /\ run' = [run EXCEPT !["background"] =
       [kind |-> "retryResearch",
        input |-> [research |-> thread.research, augment |-> thread.augment,
                   augmented |-> thread.augmented]]]
  /\ page' = [page EXCEPT ![t] = Page("loading")]
  /\ Noted({})
  /\ UNCHANGED <<generation, thread, trees, cleaning>>

RetryConclusions(t) ==
  /\ page[t] = [at |-> "conclusions", retry |-> TRUE] /\ thread # NoThread
  /\ Begin(t, "retryConclusions", <<>>, FALSE)
  /\ UNCHANGED thread

\* The background task of generate: the first checkpoint is its input.
StartWorkflow ==
  /\ run["background"].kind = "first" /\ "value" \in DOMAIN run["background"]
  /\ thread' = run["background"].value
  /\ run' = [run EXCEPT !["background"] = [kind |-> "first", st |-> thread']]
  /\ UNCHANGED <<generation, page, trees, cleaning, mishaps>>

\* ainvoke loads the latest checkpoint. The value is for the node the thread
\* waits at; at another node, or at the end, it is lost.
Load(t) ==
  /\ "value" \in DOMAIN run[t] /\ run[t].kind # "retryConclusions"
  /\ IF thread = NoThread
     THEN /\ run' = [run EXCEPT ![t] = NotRunning]
          /\ page' = [page EXCEPT ![t] = Page("error")]
          /\ UNCHANGED thread
     ELSE LET st == IF thread.next \in Waiting THEN Resumed(thread, run[t].value)
                    ELSE thread IN
          /\ thread' = st
          /\ run' = [run EXCEPT ![t] = [kind |-> run[t].kind, st |-> st]]
          /\ UNCHANGED page
  /\ UNCHANGED <<generation, trees, cleaning, mishaps>>

\* One node of the workflow, and the checkpoint after it.
Node(a) ==
  /\ run[a].kind \notin {"retryResearch", "retryConclusions"} /\ "st" \in DOMAIN run[a]
  /\ run[a].st.next \in {"research", "conclusions", "design", "build"}
  /\ \E st \in NodeOutcomes(run[a].st, run[a].kind \in {"first", "research"}) :
       /\ run' = [run EXCEPT ![a].st = st]
       /\ thread' = st
       /\ mishaps' = mishaps \cup Strayed(run[a].st.next, st)
  /\ UNCHANGED <<generation, page, trees, cleaning>>

\* save_decision_tree_node commits the tree; its checkpoint follows.
SaveTree(a) ==
  /\ "st" \in DOMAIN run[a] /\ run[a].st.next = "save"
  /\ Len(trees) < MaxTrees
  /\ trees' = Append(trees, IF run[a].st.designEd # "" THEN run[a].st.designEd
                            ELSE run[a].st.design)
  /\ run' = [run EXCEPT ![a].st.next = "saved", ![a].st.tree = Len(trees')]
  /\ UNCHANGED <<generation, thread, page, cleaning, mishaps>>

SaveFails(a) ==
  /\ "st" \in DOMAIN run[a] /\ run[a].st.next = "save"
  /\ run' = [run EXCEPT ![a].st.next = "end"]
  /\ thread' = run'[a].st
  /\ UNCHANGED <<generation, page, trees, cleaning, mishaps>>

\* Mutant: the tree is not noted in the thread.
SaveUnnoted(a) ==
  /\ "st" \in DOMAIN run[a] /\ run[a].st.next = "saved"
  /\ run' = [run EXCEPT ![a].st.next = "end"]
  /\ UNCHANGED <<generation, thread, page, trees, cleaning, mishaps>>

SaveCheckpoint(a) ==
  /\ "st" \in DOMAIN run[a] /\ run[a].st.next = "saved"
  /\ run' = [run EXCEPT ![a].st.next = "end"]
  /\ thread' = run'[a].st
  /\ UNCHANGED <<generation, page, trees, cleaning, mishaps>>

\* complete_generation deletes the row, and the checkpoints after it.
Complete(t) ==
  IF generation.there
  THEN /\ generation' = [there |-> FALSE, fresh |-> FALSE]
       /\ run' = [run EXCEPT ![t] = [kind |-> "cleanup"]]
  ELSE run' = [run EXCEPT ![t] = NotRunning] /\ UNCHANGED generation

\* The request is answered once the workflow waits or has ended.
Respond(t) ==
  /\ "st" \in DOMAIN run[t] /\ run[t].kind # "retryConclusions"
  /\ run[t].st.next \in Waiting \cup {"end"}
  /\ LET st == run[t].st
         saved == thread # NoThread /\ thread.tree # 0 IN
     IF /\ run[t].kind \in {"design", "retryBuild"} /\ saved
        /\ run[t].kind = "design" => PageAfter("design", st, thread) # Page("error")
     THEN /\ page' = [page EXCEPT ![t] = Page("editor")]
          /\ Complete(t)
     ELSE /\ page' = [page EXCEPT ![t] = PageAfter(run[t].kind, st, thread)]
          /\ run' = [run EXCEPT ![t] = NotRunning]
          /\ UNCHANGED generation
  /\ UNCHANGED <<thread, trees, cleaning, mishaps>>

\* The background task of generate: research_complete makes the tabs that
\* wait for it load the research page.
ResearchComplete ==
  /\ run["background"].kind = "first" /\ "st" \in DOMAIN run["background"]
  /\ run["background"].st.next = "wait_research"
  /\ run' = [run EXCEPT !["background"] = NotRunning]
  /\ page' = [t \in Tabs |->
                IF page[t].at # "loading" THEN page[t]
                ELSE IF generation.there /\ thread # NoThread
                THEN ResearchPage(thread) ELSE Page("error")]
  /\ UNCHANGED <<generation, thread, trees, cleaning, mishaps>>

\* _run_retry_research_workflow: the subgraph on the state it has read, its
\* output into the thread as it is by then.
ResearchRetried ==
  /\ run["background"].kind = "retryResearch"
  /\ \E st \in Researched(run["background"].input, TRUE) :
       thread' = Updated(thread, [research |-> st.research, augmented |-> st.augmented])
  /\ run' = [run EXCEPT !["background"] = NotRunning]
  /\ page' = [t \in Tabs |-> IF page[t].at # "loading" THEN page[t]
                              ELSE IF generation.there THEN ResearchPage(thread')
                              ELSE Page("error")]
  /\ UNCHANGED <<generation, trees, cleaning, mishaps>>

\* retry-conclusions, which never takes those of the brief.
ConclusionsRetried(t) ==
  /\ run[t].kind = "retryConclusions"
  /\ \E st \in Concluded(FirstState) :
       /\ thread' = Updated(thread, [concl |-> st.concl])
       /\ mishaps' = mishaps \cup Strayed("conclusions", st)
  /\ page' = [page EXCEPT ![t] = ConclusionsPage(thread')]
  /\ run' = [run EXCEPT ![t] = NotRunning]
  /\ UNCHANGED <<generation, trees, cleaning>>

\* A handler catches an exception: an error page, and for two of the routes
\* the end of the generation unless the error reads like a passing one.
Fail(t) ==
  /\ Whole
  /\ run[t].kind \in {"research", "design", "retryDesign", "retryBuild", "retryConclusions"}
  /\ page' = [page EXCEPT ![t] = Page("error")]
  /\ \/ run[t].kind \in {"research", "design"} /\ Complete(t)
     \/ run' = [run EXCEPT ![t] = NotRunning] /\ UNCHANGED generation
  /\ mishaps' = mishaps \cup {"torn"}
  /\ UNCHANGED <<thread, trees, cleaning>>

\* An exception no handler catches, or the death of the process: the tab is
\* left with the page it had.
Crash(a) ==
  /\ Whole
  /\ run[a] # NotRunning
  /\ run' = [run EXCEPT ![a] = NotRunning]
  /\ mishaps' = mishaps \cup {"torn"}
  /\ UNCHANGED <<generation, thread, page, trees, cleaning>>

\* The link on the page for own conclusions.
BackToResearch(t) ==
  /\ page[t].at = "ownConclusions" /\ run[t] = NotRunning /\ generation.there
  /\ page' = [page EXCEPT ![t] = IF thread = NoThread THEN Page("error")
                                 ELSE ResearchPage(thread)]
  /\ UNCHANGED <<generation, thread, run, trees, cleaning, mishaps>>

\* From the dashboard: view_generation and resume_generation ...
View(t) ==
  /\ run[t] = NotRunning /\ generation.there
  /\ IF thread # NoThread /\ thread.tree # 0
     THEN page' = [page EXCEPT ![t] = Page("editor")] /\ Complete(t)
     ELSE /\ page' = [page EXCEPT ![t] = PageFor(thread)]
          /\ UNCHANGED <<generation, run>>
  /\ UNCHANGED <<thread, trees, cleaning, mishaps>>

\* ... and abandon_generation, which deletes the row first.
Abandon(t) ==
  /\ run[t] = NotRunning /\ generation.there
  /\ page' = [page EXCEPT ![t] = Page("dashboard")]
  /\ Complete(t)
  /\ UNCHANGED <<thread, trees, cleaning, mishaps>>

\* delete_checkpoints_for_thread, after the row is gone.
DeleteCheckpoints(t) ==
  /\ run[t].kind = "cleanup"
  /\ thread' = NoThread
  /\ run' = [run EXCEPT ![t] = NotRunning]
  /\ UNCHANGED <<generation, page, trees, cleaning, mishaps>>

-----------------------------------------------------------------------------
(* Maintenance *)

\* Nobody touches the row for an hour; no request takes that long.
TimePasses ==
  /\ generation.there /\ generation.fresh /\ \A a \in Actors : ~InFlight(a)
  /\ generation' = [generation EXCEPT !.fresh = FALSE]
  /\ UNCHANGED <<thread, run, page, trees, cleaning, mishaps>>

\* cleanup_expired_generations: selects the rows nobody has touched since a
\* time it computes once, deletes checkpoints thread by thread, then deletes
\* the rows still not touched since.
SelectStale ==
  /\ cleaning = "idle" /\ generation.there /\ ~generation.fresh
  /\ cleaning' = "selected"
  /\ UNCHANGED <<generation, thread, run, page, trees, mishaps>>

PurgeStale ==
  /\ cleaning = "selected"
  /\ thread' = NoThread
  /\ cleaning' = "purged"
  /\ mishaps' = IF generation.fresh \/ \E a \in Actors : InFlight(a)
                THEN mishaps \cup {"torn"} ELSE mishaps
  /\ UNCHANGED <<generation, run, page, trees>>

DeleteStale ==
  /\ cleaning = "purged"
  /\ generation' = IF generation.fresh THEN generation
                   ELSE [there |-> FALSE, fresh |-> FALSE]
  /\ cleaning' = "idle"
  /\ UNCHANGED <<thread, run, page, trees, mishaps>>

\* delete_orphaned_checkpoints
\* Mutant: only in the maintenance that deletes rows.
SweepWithRows ==
  /\ cleaning = "purged" /\ ~generation.there /\ thread # NoThread
  /\ thread' = NoThread
  /\ UNCHANGED <<generation, run, page, trees, cleaning, mishaps>>

SweepOrphans ==
  /\ ~generation.there /\ thread # NoThread
  /\ thread' = NoThread
  /\ UNCHANGED <<generation, run, page, trees, cleaning, mishaps>>

-----------------------------------------------------------------------------
Submit(t) ==
  \/ SubmitResearch(t) \/ SkipConclusions(t) \/ SubmitConclusions(t)
  \/ SubmitOwnConclusions(t) \/ SubmitDesign(t) \/ RetryResearch(t)
  \/ RetryConclusions(t) \/ RetryDesign(t) \/ RetryBuild(t)
  \/ BackToResearch(t) \/ View(t) \/ Abandon(t)

Work(a) == Node(a) \/ SaveTree(a) \/ SaveFails(a) \/ SaveCheckpoint(a)

Serve(t) == Load(t) \/ Respond(t) \/ ConclusionsRetried(t) \/ DeleteCheckpoints(t)

InBackground == StartWorkflow \/ ResearchComplete \/ ResearchRetried

Maintain == TimePasses \/ SelectStale \/ PurgeStale \/ DeleteStale \/ SweepOrphans

WizardNext ==
  \/ \E t \in Tabs : Submit(t) \/ Serve(t) \/ Fail(t)
  \/ \E a \in Actors : Work(a) \/ Crash(a)
  \/ InBackground \/ Maintain

WizardFairness ==
  /\ \A a \in Actors : WF_wizardVars(Work(a))
  /\ \A t \in Tabs : WF_wizardVars(Serve(t))
  /\ WF_wizardVars(InBackground) /\ WF_wizardVars(SweepOrphans)

WizardSpec == WizardInit /\ [][WizardNext]_wizardVars /\ WizardFairness

-----------------------------------------------------------------------------
(* Properties *)

\* If nothing goes other than straight, what the user submits on a page is
\* what that page's field holds, and a tree is built from the design the
\* user has submitted.
StraightRunsBuildWhatWasSubmitted ==
  mishaps = {} =>
    /\ \A n \in 1..Len(trees) : trees[n] = "D"
    /\ thread # NoThread =>
         /\ thread.conclEd \in {"", "C"}
         /\ thread.designEd \in {"", "D"}

\* A generation makes one tree, unless two requests ran at once or one broke
\* off.
OneTreePerGeneration ==
  "torn" \notin mishaps => Len(trees) <= 1

\* Checkpoints go for good once their row is gone, whoever still runs on
\* the thread and whatever died in between.
CheckpointsGoWithTheirRow == ~generation.there ~> [](thread = NoThread)
=============================================================================
