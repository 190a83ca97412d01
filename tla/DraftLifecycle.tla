--------------------------- MODULE DraftLifecycle ---------------------------
(***************************************************************************)
(* One saved decision tree and the requests that share it: the web editor, *)
(* which loads the graph, changes it and saves it whole without a lock;    *)
(* the authoring tools of an assistant, which replace it under a row lock  *)
(* if its hash is still the one the client was given; Deploy, which        *)
(* compiles an unlocked read and checks the hash again under the lock; and *)
(* the viewer and the questionnaire, which read through a cache kept in    *)
(* the memory of the process.                                              *)
(*                                                                         *)
(* A graph is the set of edits it holds, and its hash is the graph itself. *)
(* A step is what one request does to shared state between two awaits; a   *)
(* critical section under the row lock is one step, the commit included.   *)
(***************************************************************************)
EXTENDS Naturals, Sequences

CONSTANTS
  Requests,      \* requests of the process that may overlap
  Edits,         \* what a save may add to the graph or take out of it
  Corpora,       \* research texts of the tree
  Deployable,    \* graphs that pass the Deploy gate
  MaxArtifacts,  \* bound on the artifacts of the tree
  None           \* no graph, no text, nothing cached

Graphs     == SUBSET Edits
MaybeGraph == {None} \cup Graphs
MaybeText  == {None} \cup Corpora

ASSUME DeployableAssumption == Deployable \subseteq Graphs
ASSUME NoneAssumption       == None \notin Corpora /\ \A g \in Graphs : g # None
ASSUME BoundAssumption      == MaxArtifacts \in Nat

VARIABLES
  saved,      \* graph_data of the tree's row; None once the tree is deleted
  corpus,     \* the row of the research text, if there is one
  artifacts,  \* compiled artifacts of the tree, by artifact_version
  current,    \* version current_artifact_id points at, 0 for none
  cache,      \* the graph cached under the tree's key
  request,    \* what each request is doing, and its copies
  owed        \* history: acknowledged edits that nobody has taken out

storageVars == <<saved, corpus, artifacts, current, cache, request, owed>>

\* `late` is history too: what was saved since an editor loaded its copy.
Doing(pc, graph, text, late) == [pc |-> pc, graph |-> graph, text |-> text, late |-> late]
Idle == Doing("idle", None, None, {})

StorageInit ==
  /\ saved \in Graphs
  /\ corpus \in MaybeText
  /\ artifacts = <<>> /\ current = 0
  /\ cache = None
  /\ request = [r \in Requests |-> Idle]
  /\ owed = saved

Begin(r, pc)  == /\ request[r].pc = "idle" /\ saved # None
                 /\ request' = [request EXCEPT ![r] = Doing(pc, saved, None, {})]
Becomes(r, w) == request' = [request EXCEPT ![r] = w]
Ends(r)       == Becomes(r, Idle)
At(r, pc)     == request[r].pc = pc

Unsaved    == UNCHANGED <<saved, owed>>
Undeployed == UNCHANGED <<artifacts, current>>

\* Request r commits `graph`, which has `added` and lacks `removed`; what the
\* editors at work have not seen of it is late for them.
Commits(r, w, graph, added, removed) ==
  /\ saved' = graph
  /\ request' = [q \in Requests |->
                   IF q = r THEN w
                   ELSE IF At(q, "editing") THEN [request[q] EXCEPT !.late = @ \cup added]
                   ELSE request[q]]
  /\ owed' = (owed \cup added) \ removed

Changed(copy, added, removed) == (copy \cup added) \ removed

\* One edit goes in or one comes out.
OneEdit == {<<{x}, {}>> : x \in Edits} \cup {<<{}, {x}>> : x \in Edits}
-----------------------------------------------------------------------------
(* The editor: one request loads, changes, saves, and renders the page.    *)

\* Mutant: the load node tries the cache first, as the viewer does.
CachedEditorLoad(r) ==
  /\ request[r].pc = "idle" /\ saved # None
  /\ Becomes(r, Doing("editing", IF cache = None THEN saved ELSE cache, None, {}))
  /\ UNCHANGED <<corpus, cache>> /\ Unsaved /\ Undeployed

\* The route's authorization reads the row; the workflow's own loads in the
\* same session return that object unchanged.
EditorLoad(r) ==
  /\ Begin(r, "editing")
  /\ UNCHANGED <<corpus, cache>> /\ Unsaved /\ Undeployed

\* The operation is refused or its commit fails; the page is rendered from the
\* copy.
EditorRefused(r) ==
  /\ At(r, "editing")
  /\ Becomes(r, Doing("rendering", request[r].graph, None, {}))
  /\ UNCHANGED <<corpus, cache>> /\ Unsaved /\ Undeployed

\* Validation never blocks; the whole graph is written over whatever the row
\* holds by now, and what was saved since the load is lost unless it was in
\* the copy.
EditorSave(r) ==
  /\ At(r, "editing")
  /\ IF saved = None
     THEN Ends(r) /\ Unsaved
     ELSE \E e \in OneEdit :
            LET graph == Changed(request[r].graph, e[1], e[2]) IN
            Commits(r, Doing("committed", graph, None, {}), graph, e[1],
                    e[2] \cup (request[r].late \ graph))
  /\ UNCHANGED <<corpus, cache>> /\ Undeployed

\* db.refresh after the commit reads the row once more; it fails on a row
\* that is gone.
EditorRefresh(r) ==
  /\ At(r, "committed")
  /\ IF saved = None THEN Ends(r) ELSE Becomes(r, Doing("refreshed", saved, None, {}))
  /\ UNCHANGED <<corpus, cache>> /\ Unsaved /\ Undeployed

EditorInvalidate(r) ==
  /\ At(r, "refreshed")
  /\ cache' = None
  /\ Becomes(r, Doing("rendering", request[r].graph, None, {}))
  /\ UNCHANGED corpus /\ Unsaved /\ Undeployed
-----------------------------------------------------------------------------
(* The authoring tools: get_draft, then update_draft with the hash.        *)

AgentGet(r) ==
  /\ Begin(r, "fetched")
  /\ UNCHANGED <<corpus, cache>> /\ Unsaved /\ Undeployed

\* SELECT ... FOR UPDATE, the comparison, the write and the commit. A client
\* told of a conflict, or of a row that is gone, starts again.
AgentUpdate(r) ==
  /\ At(r, "fetched")
  /\ IF saved # request[r].graph
     THEN Ends(r) /\ Unsaved
     ELSE \E e \in OneEdit :
            LET graph == Changed(request[r].graph, e[1], e[2]) IN
            Commits(r, Doing("updated", graph, None, {}), graph, e[1], e[2])
  /\ UNCHANGED <<corpus, cache>> /\ Undeployed

\* The client keeps the hash of what it sent and may go on from there.
AgentInvalidate(r) ==
  /\ At(r, "updated")
  /\ cache' = None
  /\ \/ Becomes(r, Doing("fetched", request[r].graph, None, {}))
     \/ Ends(r)
  /\ UNCHANGED corpus /\ Unsaved /\ Undeployed
-----------------------------------------------------------------------------
(* Deploy.                                                                 *)

\* The graph is read without a lock and must pass the gate.
DeployLoad(r) ==
  /\ Begin(r, "compiling") /\ saved \in Deployable
  /\ UNCHANGED <<corpus, cache>> /\ Unsaved /\ Undeployed

\* The research text is read later, and not looked at again.
DeployReadCorpus(r) ==
  /\ At(r, "compiling")
  /\ Becomes(r, Doing("compiled", request[r].graph, corpus, {}))
  /\ UNCHANGED <<corpus, cache>> /\ Unsaved /\ Undeployed

Artifact(r) == [graph |-> request[r].graph, text |-> request[r].text]

\* Mutant: the hash is not compared again under the lock.
UncheckedDeployPersist(r) ==
  /\ At(r, "compiled")
  /\ IF saved = None
     THEN Ends(r) /\ Undeployed
     ELSE /\ Becomes(r, Doing("deployed", None, None, {}))
          /\ IF current # 0 /\ artifacts[current] = Artifact(r)
             THEN Undeployed
             ELSE /\ Len(artifacts) < MaxArtifacts
                  /\ artifacts' = Append(artifacts, Artifact(r))
                  /\ current' = Len(artifacts) + 1
  /\ UNCHANGED <<corpus, cache>> /\ Unsaved

\* Mutant: a new artifact whatever the current one is.
AppendingDeployPersist(r) ==
  /\ At(r, "compiled")
  /\ IF saved # request[r].graph
     THEN Ends(r) /\ Undeployed
     ELSE /\ Becomes(r, Doing("deployed", None, None, {}))
          /\ Len(artifacts) < MaxArtifacts
          /\ artifacts' = Append(artifacts, Artifact(r))
          /\ current' = Len(artifacts) + 1
  /\ UNCHANGED <<corpus, cache>> /\ Unsaved

\* Under the row lock: the hash again, the identity of the current artifact,
\* else the next version, and the pointer. The commit releases the lock.
DeployPersist(r) ==
  /\ At(r, "compiled")
  /\ IF saved # request[r].graph
     THEN Ends(r) /\ Undeployed
     ELSE /\ Becomes(r, Doing("deployed", None, None, {}))
          /\ IF current # 0 /\ artifacts[current] = Artifact(r)
             THEN Undeployed
             ELSE /\ Len(artifacts) < MaxArtifacts
                  /\ artifacts' = Append(artifacts, Artifact(r))
                  /\ current' = Len(artifacts) + 1
  /\ UNCHANGED <<corpus, cache>> /\ Unsaved

DeployAnswer(r) ==
  /\ At(r, "deployed") /\ Ends(r)
  /\ UNCHANGED <<corpus, cache>> /\ Unsaved /\ Undeployed

SaveCorpus ==
  /\ saved # None
  /\ corpus' \in MaybeText
  /\ UNCHANGED <<cache, request>> /\ Unsaved /\ Undeployed
-----------------------------------------------------------------------------
(* The readers and the cache.                                              *)

\* A miss reads the row; a hit stores nothing and reads no graph.
ReadMiss(r) ==
  /\ cache = None
  /\ Begin(r, "missed")
  /\ UNCHANGED <<corpus, cache>> /\ Unsaved /\ Undeployed

\* The editor's page goes through the viewer, whose own read of the row finds
\* the object its session holds already.
EditorRender(r) ==
  /\ At(r, "rendering")
  /\ IF cache = None /\ saved # None
     THEN Becomes(r, Doing("missed", request[r].graph, None, {}))
     ELSE Ends(r)
  /\ UNCHANGED <<corpus, cache>> /\ Unsaved /\ Undeployed

\* The reader stores what it read, whatever happened since.
StoreRead(r) ==
  /\ At(r, "missed")
  /\ cache' = request[r].graph
  /\ Ends(r)
  /\ UNCHANGED corpus /\ Unsaved /\ Undeployed

\* Mutant: entries have no time to live.
NeverExpire == FALSE

\* The entry's hour is over.
Expire ==
  /\ cache # None
  /\ cache' = None
  /\ UNCHANGED <<corpus, request>> /\ Unsaved /\ Undeployed
-----------------------------------------------------------------------------
\* The whole version family is deleted; artifacts and text go with the row.
DeleteTree ==
  /\ saved # None
  /\ saved' = None /\ corpus' = None /\ artifacts' = <<>> /\ current' = 0
  /\ owed' = {}
  /\ UNCHANGED <<cache, request>>

\* The process dies: what it was doing and its cache are gone.
Restart ==
  /\ request' = [r \in Requests |-> Idle]
  /\ cache' = None
  /\ UNCHANGED corpus /\ Unsaved /\ Undeployed

Editor(r) == \/ EditorLoad(r) \/ EditorRefused(r) \/ EditorSave(r) \/ EditorRefresh(r)
             \/ EditorInvalidate(r) \/ EditorRender(r)
Agent(r)  == AgentGet(r) \/ AgentUpdate(r) \/ AgentInvalidate(r)
Deploy(r) == DeployLoad(r) \/ DeployReadCorpus(r) \/ DeployPersist(r) \/ DeployAnswer(r)
Reader(r) == ReadMiss(r) \/ StoreRead(r)

StorageNext ==
  \/ \E r \in Requests : Editor(r) \/ Agent(r) \/ Deploy(r) \/ Reader(r)
  \/ SaveCorpus \/ Expire \/ DeleteTree \/ Restart

\* The clock runs whatever the requests do.
StorageSpec == StorageInit /\ [][StorageNext]_storageVars /\ WF_storageVars(Expire)
-----------------------------------------------------------------------------
Pcs == {"idle", "editing", "committed", "refreshed", "rendering", "fetched", "updated",
        "compiling", "compiled", "deployed", "missed"}

StorageTypeOK ==
  /\ saved \in MaybeGraph
  /\ corpus \in MaybeText
  /\ artifacts \in Seq([graph : Graphs, text : MaybeText])
  /\ current \in 0 .. Len(artifacts)
  /\ cache \in MaybeGraph
  /\ request \in [Requests -> [pc : Pcs, graph : MaybeGraph,
                               text : MaybeText, late : SUBSET Edits]]
  /\ owed \in Graphs

\* An edit whose save was acknowledged stays in the draft until somebody who
\* has it in view takes it out, or an editor saves a copy it loaded before that
\* edit was saved: the hash comparison of the authoring tools never lets one
\* client overwrite another, or an editor, and the load of the editor, which
\* goes past the cache, bounds what its unlocked save can lose.
AcknowledgedEditsSurvive == saved # None => owed \subseteq saved

Live == /\ saved # None /\ current # 0
        /\ artifacts[current].graph = saved

\* A Deploy that answers with success leaves the tree live, with a graph that
\* passed the gate, whatever was saved between its unlocked read and its lock.
SuccessfulDeployIsLive ==
  [][\A r \in Requests :
       request[r].pc # "deployed" /\ request'[r].pc = "deployed"
         => Live' /\ saved' \in Deployable]_storageVars

\* Deploying an unchanged draft again, or twice at the same time, makes no
\* second artifact: one version never repeats the one before it, and the tree
\* points at the newest.
DeploysAreIdempotent ==
  /\ current = Len(artifacts)
  /\ \A v \in 1 .. Len(artifacts) - 1 : artifacts[v] # artifacts[v + 1]

\* A graph that is no longer the saved one does not stay in the cache for ever,
\* even where a reader or an editor's page stored it after the save that
\* replaced it had already invalidated the entry.
OutdatedGraphsLeaveTheCache ==
  \A g \in Graphs : (cache = g /\ saved # g) ~> (cache # g \/ saved = g)
=============================================================================
