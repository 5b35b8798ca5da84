------------------------------ MODULE Pipeline ------------------------------
(***************************************************************************)
(* What one job does to the graph of a repository: IngestionPipeline of    *)
(* indexing/pipeline.py, driven by IngestionJobRunner._execute, over the   *)
(* native store's transactions.                                            *)
(*                                                                         *)
(* A step is one durable transaction or one look at the sources; edits of  *)
(* the sources and the death of the process fall between any two of them.  *)
(* The job is the row the runner works on: which rows there are, and how   *)
(* they merge beyond what touches this row, is module IngestionJobs.       *)
(***************************************************************************)
EXTENDS Integers, FiniteSets

CONSTANTS
  Files,        \* relative paths, numbered in their sorted order
  Refs,         \* <<s, t>>: whatever the contents, s refers to a symbol of t
  Steady,       \* environment: files indexed to begin with, never removed
  Deletable,    \* environment: files that clients report as deleted
  Unparsable,   \* contents the parser rejects
  Modes,        \* job modes requested
  BatchFiles,   \* INGESTION_BATCH_MAX_FILES
  MaxAttempts,  \* ingestion_jobs.max_attempts
  MaxEdits, MaxRequests, MaxFaults, MaxCrashes  \* bounds

ASSUME PipelineAssumption ==
  /\ IsFiniteSet(Files) /\ Files \subseteq Nat
  /\ Refs \subseteq Files \X Files
  /\ Steady \subseteq Files /\ Deletable \subseteq Files
  /\ Modes \subseteq {"files", "full", "force_full"}
  /\ BatchFiles \in Nat \ {0} /\ MaxAttempts \in Nat \ {0}
  /\ {MaxEdits, MaxRequests, MaxFaults, MaxCrashes} \subseteq Nat

VARIABLES
  disk,      \* the sources: content of each file, 0 where there is none
  newest,    \* the newest content written so far
  nodes,     \* native graph: the content each file's nodes describe, 0: none
  embedded,  \* files whose nodes have their vectors
  edges,     \* stored relationships, as pairs of files
  hashes,    \* ingested_files: the acknowledged content, 0 without a record
  doubted,   \* history: files whose record may name what is not stored
  ready,     \* catalog: semantic_ready rather than semantic_stale
  job,       \* the row the runner works on
  pass,      \* locals of the pass in progress
  edits, requests, faults, crashes

graph == <<nodes, embedded, edges, hashes, doubted>>
counters == <<edits, requests, faults, crashes>>
vars == <<disk, newest, graph, ready, job, pass, counters>>

Contents == 0 .. MaxEdits + 1
Snapshots == [Files -> Contents]
Empty == [f \in Files |-> 0]
Present(s) == {f \in Files : s[f] # 0}

\* The pass: entries is the list of discovered contents, doomed the paths
\* _delete_paths has still to remove, left what is not yet acknowledged.
Idle == [pc |-> "idle", entries |-> Empty, changed |-> {}, parsed |-> {},
         left |-> {}, plan |-> {}, doomed |-> {}, ingested |-> FALSE,
         degraded |-> FALSE]

NoJob == [status |-> "none", mode |-> "full", files |-> {}, deleted |-> {},
          frozen |-> FALSE, manifest |-> Empty, acked |-> {}, attempts |-> 0]

At(pc) == job.status = "running" /\ pass.pc = pc
Goto(pc) == pass' = [pass EXCEPT !.pc = pc]

Failed == pass.changed \ pass.parsed

\* The first complete-file batch of a set, in path order.
Batch(S) == {f \in S : Cardinality({g \in S : g < f}) < BatchFiles}

Init ==
  /\ disk \in {s \in [Files -> {0, 1}] : \A f \in Steady : s[f] = 1}
  /\ newest = 1
  /\ nodes = [f \in Files |-> IF f \in Steady THEN 1 ELSE 0]
  /\ hashes = nodes
  /\ embedded = Steady
  /\ edges = Refs \cap (Steady \X Steady)
  /\ doubted = {}
  /\ ready = (Steady # {})
  /\ job = NoJob
  /\ pass = Idle
  /\ edits = 0 /\ requests = 0 /\ faults = 0 /\ crashes = 0

(***************************************************************************)
(* The environment: somebody edits the sources and asks for work.          *)
(***************************************************************************)
\* A record may be doubted of a file that is put back to what it names.
Edit(f, c) ==
  /\ edits < MaxEdits
  /\ c # disk[f]
  /\ c = 0 => f \notin Steady
  /\ c <= newest + 1
  /\ disk' = [disk EXCEPT ![f] = c]
  /\ newest' = IF c > newest THEN c ELSE newest
  /\ edits' = edits + 1
  /\ doubted' = IF c # 0 /\ c = hashes[f] THEN doubted \cup {f} ELSE doubted
  /\ UNCHANGED <<nodes, embedded, edges, hashes, ready, job, pass,
                 requests, faults, crashes>>

\* A request meets no row, or the queued row of a retry, which it widens.
\* Deleted paths are those the client sees gone.
Request(mode, F, D) ==
  /\ requests < MaxRequests
  /\ mode \in Modes
  /\ D \subseteq Deletable \ Present(disk)
  /\ (mode = "files") = (F \cup D # {})
  /\ requests' = requests + 1
  /\ \/ /\ job.status = "none"
        /\ job' = [NoJob EXCEPT !.status = "queued", !.mode = mode,
                                !.files = F, !.deleted = D]
     \/ /\ job.status = "queued"
        /\ job' = IF mode = "force_full" \/ (mode = "full" /\ job.mode = "files")
                  THEN [NoJob EXCEPT !.status = "queued", !.mode = mode,
                                     !.attempts = job.attempts]
                  ELSE IF mode = "files" /\ job.mode = "files"
                  THEN [job EXCEPT !.files = @ \cup F, !.deleted = @ \cup D]
                  ELSE job
  /\ UNCHANGED <<disk, newest, graph, ready, pass, edits, faults, crashes>>

(***************************************************************************)
(* The runner: withdraw readiness, freeze the manifest of a force job.     *)
(***************************************************************************)
Start ==
  /\ job.status = "queued"
  /\ job' = [job EXCEPT !.status = "running"]
  /\ ready' = FALSE
  /\ Goto("opened")
  /\ UNCHANGED <<disk, newest, graph, counters>>

FreezeManifest ==
  /\ At("opened")
  /\ job.mode = "force_full" /\ ~job.frozen
  /\ job' = [job EXCEPT !.frozen = TRUE, !.manifest = disk]
  /\ UNCHANGED <<disk, newest, graph, ready, pass, counters>>

\* fail_or_retry: the row is queued again or given up.
FailOrRetry ==
  /\ job' = IF job.attempts + 1 >= MaxAttempts THEN NoJob
            ELSE [job EXCEPT !.status = "queued", !.attempts = @ + 1]
  /\ pass' = Idle
  /\ UNCHANGED <<disk, newest, graph, ready>>

(***************************************************************************)
(* Discovery and the choice of what to do.                                 *)
(***************************************************************************)
MissingEmbeddings == Present(nodes) \ embedded

\* Discovered sources whose record differs or whose vectors are missing.
Changed(entries) ==
  {f \in Present(entries) : hashes[f] # entries[f] \/ f \in MissingEmbeddings}

Begin(entries, changed, doomed) ==
  pass' = [Idle EXCEPT !.pc = "sweep", !.entries = entries,
                       !.changed = changed, !.doomed = doomed]

\* Variant: only files that have nodes are swept.
SweepableByNodes(entries) == Present(nodes) \ Present(entries)

\* The sweep looks at records and nodes, not only at records.
Sweepable(entries) == (Present(nodes) \cup Present(hashes)) \ Present(entries)

DiscoverAll ==
  /\ At("opened") /\ job.mode = "full"
  /\ Begin(disk, Changed(disk), Sweepable(disk))
  /\ UNCHANGED <<disk, newest, graph, ready, job, counters>>

DiscoverListed ==
  /\ At("opened") /\ job.mode = "files"
  /\ LET listed == [f \in Files |-> IF f \in job.files THEN disk[f] ELSE 0]
     IN  Begin(listed, Changed(listed), {})
  /\ UNCHANGED <<disk, newest, graph, ready, job, counters>>

\* _entries_from_force_snapshot: only the targets not yet acknowledged.
Pending == Present(job.manifest) \ job.acked

\* Variant: a retry takes the sources as they are now.
DiscoverFrozenAnyway ==
  /\ At("opened") /\ job.mode = "force_full" /\ job.frozen
  /\ Begin([f \in Files |-> IF f \in Pending THEN disk[f] ELSE 0],
           {f \in Pending : disk[f] # 0}, {})
  /\ UNCHANGED <<disk, newest, graph, ready, job, counters>>

DiscoverFrozen ==
  /\ At("opened") /\ job.mode = "force_full" /\ job.frozen
  /\ \A f \in Pending : disk[f] = job.manifest[f]
  /\ Begin([f \in Files |-> IF f \in Pending THEN job.manifest[f] ELSE 0],
           Pending, {})
  /\ UNCHANGED <<disk, newest, graph, ready, job, counters>>

SnapshotDrifted ==
  /\ At("opened") /\ job.mode = "force_full" /\ job.frozen
  /\ \E f \in Pending : disk[f] # job.manifest[f]
  /\ FailOrRetry
  /\ UNCHANGED counters

(***************************************************************************)
(* _delete_paths: per batch, first the nodes, then the records.            *)
(***************************************************************************)
Drop(S) ==
  /\ nodes' = [f \in Files |-> IF f \in S THEN 0 ELSE nodes[f]]
  /\ embedded' = embedded \ S
  /\ edges' = {e \in edges : e[1] \notin S /\ e[2] \notin S}

\* What a client reported as deleted may have come back and been indexed.
DeleteNodes ==
  /\ At("sweep") /\ pass.doomed # {}
  /\ Drop(Batch(pass.doomed))
  /\ doubted' = IF pass.ingested THEN doubted \cup Batch(pass.doomed) ELSE doubted
  /\ Goto("forget")
  /\ UNCHANGED <<disk, newest, hashes, ready, job, counters>>

DeleteRecords ==
  /\ At("forget")
  /\ LET batch == Batch(pass.doomed)
     IN  /\ hashes' = [f \in Files |-> IF f \in batch THEN 0 ELSE hashes[f]]
         /\ doubted' = doubted \ batch
         /\ pass' = [pass EXCEPT !.pc = "sweep", !.doomed = @ \ batch]
  /\ UNCHANGED <<disk, newest, nodes, embedded, edges, ready, job, counters>>

(***************************************************************************)
(* Structure: parse, plan, replace.                                        *)
(***************************************************************************)
\* Variant: a replaced file takes its inbound edges with it.
NoRetainedEdges(parsed) == {}

\* Edges into a replaced file that an unchanged file owns.
RetainedInboundEdges(parsed) ==
  {e \in edges : e[2] \in parsed /\ e[1] \notin parsed}

\* Variant: targets are resolved among the parsed files only.
PlannedWithinPlan(parsed) == {e \in Refs : e[1] \in parsed /\ e[2] \in parsed}

PlannedEdges(parsed) ==
  {e \in Refs : e[1] \in parsed /\ (e[2] \in parsed \/ nodes[e[2]] # 0)}

\* The bytes are hashed before they are parsed; a file that changed since its
\* discovery, or that the parser rejects, is left out of the plan.
Parse ==
  /\ At("sweep") /\ pass.doomed = {} /\ ~pass.ingested /\ pass.changed # {}
  /\ LET parsed == {f \in pass.changed : /\ disk[f] = pass.entries[f]
                                         /\ disk[f] \notin Unparsable}
     IN  pass' = [pass EXCEPT !.pc = "delete", !.parsed = parsed,
                              !.left = parsed,
                              !.plan = PlannedEdges(parsed) \cup
                                       RetainedInboundEdges(parsed)]
  /\ UNCHANGED <<disk, newest, graph, ready, job, counters>>

\* A force job replaces files whose record already names their content.
DeleteReplaced ==
  /\ At("delete")
  /\ Drop(pass.parsed)
  /\ doubted' = IF job.mode = "force_full" THEN doubted \cup pass.parsed ELSE doubted
  /\ Goto("nodes")
  /\ UNCHANGED <<disk, newest, hashes, ready, job, counters>>

UpsertNodes ==
  /\ At("nodes")
  /\ nodes' = [f \in Files |-> IF f \in pass.parsed THEN pass.entries[f]
                               ELSE nodes[f]]
  /\ Goto("edges")
  /\ UNCHANGED <<disk, newest, embedded, edges, hashes, doubted, ready, job, counters>>

UpsertEdges ==
  /\ At("edges")
  /\ edges' = edges \cup pass.plan
  /\ Goto("embed")
  /\ UNCHANGED <<disk, newest, nodes, embedded, hashes, doubted, ready, job, counters>>

(***************************************************************************)
(* Batches: embed, look at the sources again, acknowledge.                 *)
(***************************************************************************)
Embed ==
  /\ At("embed") /\ pass.left # {}
  /\ embedded' = embedded \cup Batch(pass.left)
  /\ Goto("check")
  /\ UNCHANGED <<disk, newest, nodes, edges, hashes, doubted, ready, job, counters>>

Degrade ==
  /\ pass' = [pass EXCEPT !.pc = "embed", !.left = {}, !.degraded = TRUE]
  /\ UNCHANGED <<disk, newest, graph, ready, job, edits, requests, crashes>>

EmbeddingFails ==
  /\ At("embed") /\ pass.left # {}
  /\ faults < MaxFaults /\ faults' = faults + 1
  /\ Degrade

SourcesAreStable == \A f \in Batch(pass.left) : disk[f] = pass.entries[f]

CheckSources ==
  /\ At("check")
  /\ \/ SourcesAreStable /\ Goto("acknowledge")
        /\ UNCHANGED <<disk, newest, graph, ready, job, counters>>
     \/ ~SourcesAreStable /\ Degrade /\ UNCHANGED faults

Acknowledge ==
  /\ At("acknowledge")
  /\ LET batch == Batch(pass.left)
     IN  /\ hashes' = [f \in Files |-> IF f \in batch THEN pass.entries[f]
                                       ELSE hashes[f]]
         /\ doubted' = doubted \ batch
         /\ pass' = IF job.mode = "force_full"
                    THEN [pass EXCEPT !.pc = "checkpoint"]
                    ELSE [pass EXCEPT !.pc = "embed", !.left = @ \ batch]
  /\ UNCHANGED <<disk, newest, nodes, embedded, edges, ready, job, counters>>

\* Variant: the whole plan is checkpointed with its first batch.
CheckpointPlan ==
  /\ At("checkpoint")
  /\ job' = [job EXCEPT !.acked = @ \cup pass.parsed]
  /\ pass' = [pass EXCEPT !.pc = "embed", !.left = @ \ Batch(pass.left)]
  /\ UNCHANGED <<disk, newest, graph, ready, counters>>

\* acknowledge_force_full_snapshot_files, in the other database.
Checkpoint ==
  /\ At("checkpoint")
  /\ LET batch == Batch(pass.left)
     IN  /\ job' = [job EXCEPT !.acked = @ \cup batch]
         /\ pass' = [pass EXCEPT !.pc = "embed", !.left = @ \ batch]
  /\ UNCHANGED <<disk, newest, graph, ready, counters>>

\* After the batches, or with nothing changed: the explicit deletions.
IngestedEntries ==
  /\ \/ At("embed") /\ pass.left = {}
     \/ At("sweep") /\ pass.doomed = {} /\ ~pass.ingested /\ pass.changed = {}
  /\ pass' = [pass EXCEPT !.pc = "sweep", !.ingested = TRUE,
                !.doomed = IF job.mode = "files" THEN job.deleted ELSE {}]
  /\ UNCHANGED <<disk, newest, graph, ready, job, counters>>

(***************************************************************************)
(* The end of the pass.                                                    *)
(***************************************************************************)
Ingested == At("sweep") /\ pass.ingested /\ pass.doomed = {}

\* Variant: a degraded pass counts as a success.
SucceedDegraded ==
  /\ Ingested
  /\ ready' = TRUE
  /\ job' = NoJob
  /\ pass' = Idle
  /\ UNCHANGED <<disk, newest, graph, counters>>

\* The runner publishes readiness and completes the row.
Succeed ==
  /\ Ingested /\ ~pass.degraded
  /\ ready' = TRUE
  /\ job' = NoJob
  /\ pass' = Idle
  /\ UNCHANGED <<disk, newest, graph, counters>>

DegradedPass ==
  /\ Ingested /\ pass.degraded
  /\ FailOrRetry
  /\ UNCHANGED counters

\* Any native or database call may raise; its transaction has no effect.
Raise ==
  /\ job.status = "running"
  /\ pass.pc # "check"
  /\ faults < MaxFaults /\ faults' = faults + 1
  /\ FailOrRetry
  /\ UNCHANGED <<edits, requests, crashes>>

\* _check_cancelled: only between two durable operations.  A cancel-all is
\* the only cancellation, and ends every indexing row.
Cancelled ==
  /\ \/ At("opened")
     \/ At("sweep") /\ (pass.doomed # {} \/ (~pass.ingested /\ pass.changed # {}))
     \/ At("delete")
     \/ At("embed") /\ pass.left # {}
  /\ job' = NoJob
  /\ pass' = Idle
  /\ UNCHANGED <<disk, newest, graph, ready, counters>>

\* The process dies; the next daemon queues the row again, as it was.
Crash ==
  /\ job.status = "running"
  /\ crashes < MaxCrashes /\ crashes' = crashes + 1
  /\ job' = [job EXCEPT !.status = "queued"]
  /\ pass' = Idle
  /\ UNCHANGED <<disk, newest, graph, ready, edits, requests, faults>>

Delete == DeleteNodes \/ DeleteRecords
Replace == Parse \/ DeleteReplaced \/ UpsertNodes \/ UpsertEdges
Enrich == Embed \/ EmbeddingFails \/ CheckSources \/ Acknowledge \/ Checkpoint
Discover == DiscoverAll \/ DiscoverListed \/ DiscoverFrozen \/ SnapshotDrifted

Next ==
  \/ \E f \in Files, c \in Contents : Edit(f, c)
  \/ \E mode \in Modes, F, D \in SUBSET Files : Request(mode, F, D)
  \/ Start \/ FreezeManifest \/ Discover \/ Delete \/ Replace \/ Enrich
  \/ IngestedEntries \/ Succeed \/ DegradedPass
  \/ Raise \/ Cancelled \/ Crash

Spec == Init /\ [][Next]_vars

-----------------------------------------------------------------------------
(***************************************************************************)
(* Properties.                                                             *)
(***************************************************************************)
Positions == {"idle", "opened", "sweep", "forget", "delete", "nodes", "edges",
              "embed", "check", "acknowledge", "checkpoint"}

Passes == [pc : Positions, entries : Snapshots, changed : SUBSET Files,
           parsed : SUBSET Files, left : SUBSET Files,
           plan : SUBSET (Files \X Files), doomed : SUBSET Files,
           ingested : BOOLEAN, degraded : BOOLEAN]

Jobs == [status : {"none", "queued", "running"},
         mode : {"files", "full", "force_full"},
         files : SUBSET Files, deleted : SUBSET Files, frozen : BOOLEAN,
         manifest : Snapshots, acked : SUBSET Files,
         attempts : 0 .. MaxAttempts - 1]

\* The variables hold values of their types, vectors and relationships belong
\* to files that have nodes, and a pass is in progress exactly while the row
\* is running.
TypeOK ==
  /\ disk \in Snapshots /\ nodes \in Snapshots /\ hashes \in Snapshots
  /\ newest \in Contents \ {0}
  /\ embedded \subseteq Present(nodes)
  /\ edges \subseteq Present(nodes) \X Present(nodes)
  /\ doubted \subseteq Files
  /\ ready \in BOOLEAN
  /\ job \in Jobs
  /\ pass \in Passes
  /\ (pass.pc = "idle") = (job.status # "running")
  /\ edits \in 0 .. MaxEdits /\ requests \in 0 .. MaxRequests
  /\ faults \in 0 .. MaxFaults /\ crashes \in 0 .. MaxCrashes

\* A hash is recorded only for content whose nodes, vectors and outgoing
\* relationships are already stored (pipeline.py:453, "an ingested hash is the
\* retry checkpoint proving semantic durability").
AcknowledgedIsDurable ==
  [][\A f \in Files : hashes'[f] \notin {0, hashes[f]} =>
       /\ nodes[f] = hashes'[f]
       /\ f \in embedded
       /\ \A e \in Refs : e[1] = f /\ nodes[e[2]] # 0 => e \in edges]_vars

\* Across retries, deaths and the gap between the two databases, a target
\* marked acknowledged in the manifest of a force job is in the graph with its
\* frozen content, acknowledged and embedded (jobs.py:556): no retry skips it.
CheckpointIsTrue ==
  \A f \in job.acked :
    /\ hashes[f] = job.manifest[f]
    /\ nodes[f] = job.manifest[f]
    /\ f \in embedded

Publishes == ~ready /\ ready'

\* A force job ends well only when each target of its manifest has been
\* processed by it, or the last pass left it out of the plan: it could not be
\* parsed, or changed between the look at the manifest and the parse
\* (runner.py:226).
ForceCoversItsManifest ==
  [][Publishes /\ job.mode = "force_full" =>
       Present(job.manifest) \subseteq job.acked \cup Failed]_vars

\* A force job acknowledges no content but that of its manifest, however the
\* sources change between its attempts (pipeline.py:277).
ForceAcksItsSnapshot ==
  [][job.status = "running" /\ job.mode = "force_full" =>
       \A f \in Files : hashes'[f] \in {hashes[f], job.manifest[f]}]_vars

\* Whatever earlier passes left behind when they were cut off, a full pass that
\* succeeds leaves for each discovered file nodes, vectors and record of what it
\* discovered, and nothing of any other file (pipeline.py:267).  Save for files it
\* could not parse or that changed under it, and for doubted ones: those that,
\* since they were last acknowledged, went back to the content of their record,
\* were taken away by a force job or were deleted for a client.
FullPassIsExact ==
  [][Publishes /\ job.mode = "full" =>
       \A f \in Files \ (Failed \cup doubted) :
         /\ nodes[f] = pass.entries[f] /\ hashes[f] = pass.entries[f]
         /\ pass.entries[f] # 0 => f \in embedded]_vars

\* Between passes a store that is published as ready holds, for each record,
\* the content the record names.  The specification says so: "A successful
\* content hash proves that exact content parsed, its structural plan was
\* installed, every embeddable node was accepted by the provider"
\* (specs/2026-08-27-resumable-batch-ingestion.md:84).  It does not hold when a file
\* is changed, indexed and reverted (README, divergences).
ReadyHashesAreTrue ==
  ready => \A f \in Present(hashes) : nodes[f] = hashes[f] /\ f \in embedded

Acknowledged(f) == nodes[f] # 0 /\ hashes[f] = nodes[f] /\ f \in embedded

RelationshipsKept ==
  ready => \A e \in Refs : Acknowledged(e[1]) /\ Acknowledged(e[2])
                             => e \in edges

\* Where the targets of relationships never disappear, replacing files keeps
\* the relationships between acknowledged files (pipeline.py:684).  Of what follows
\* the first failure or death it says nothing: see EdgesSurvive.
UninterruptedKeepsEdges == faults = 0 /\ crashes = 0 => RelationshipsKept

\* The same after a death.  _retained_inbound_edges is there to "preserve those
\* inbound relationships before deletion and bind them to the deterministic
\* replacement node IDs" (pipeline.py:691).  It does not hold (README, divergences).
EdgesSurvive == RelationshipsKept

-----------------------------------------------------------------------------
(***************************************************************************)
(* The inductive invariant behind the properties of force jobs and of      *)
(* acknowledgements.                                                       *)
(***************************************************************************)
Replacing == {"delete", "nodes", "edges"}
Enriching == {"embed", "check", "acknowledge", "checkpoint"}

\* A pass narrows: discovered, changed, parsed, not yet acknowledged.
PassShape ==
  /\ pass.changed \subseteq Present(pass.entries)
  /\ pass.parsed \subseteq pass.changed
  /\ pass.left \subseteq pass.parsed

\* What the position of the pass says about the graph.
StructureStored ==
  /\ pass.pc \in Enriching \cup {"edges"} =>
       \A f \in pass.parsed : nodes[f] = pass.entries[f]
  /\ pass.pc \in {"check", "acknowledge", "checkpoint"} =>
       Batch(pass.left) \subseteq embedded
  /\ pass.pc = "checkpoint" =>
       /\ job.mode = "force_full"
       /\ \A f \in Batch(pass.left) : hashes[f] = pass.entries[f]

\* The plan has all relationships that parsed files owe, and only such as
\* will find both their ends.
PlanStored ==
  /\ pass.pc \in Replacing \cup Enriching =>
       \A e \in Refs :
         e[1] \in pass.parsed /\ (e[2] \in pass.parsed \/ nodes[e[2]] # 0)
           => e \in pass.plan
  /\ pass.pc \in Replacing =>
       pass.plan \subseteq (Present(nodes) \cup pass.parsed) \X
                          (Present(nodes) \cup pass.parsed)
  /\ pass.pc \in Enriching => pass.plan \subseteq edges

\* A force job in progress works through what its manifest still wants.
ForceShape ==
  /\ job.acked # {} => job.mode = "force_full" /\ job.frozen
  /\ job.mode = "force_full" /\ pass.pc \notin {"idle", "opened"} =>
       /\ job.frozen
       /\ pass.doomed = {} /\ pass.pc # "forget"
       /\ \A f \in pass.changed : pass.entries[f] = job.manifest[f]
       /\ Present(job.manifest) \subseteq job.acked \cup pass.changed
       /\ pass.left \cap job.acked = {}
       /\ pass.pc \in Replacing \/ (pass.pc = "sweep" /\ ~pass.ingested) =>
            pass.changed \cap job.acked = {}
       /\ ~pass.degraded /\ pass.pc \in Replacing \cup Enriching =>
            pass.parsed \subseteq job.acked \cup pass.left
       /\ ~pass.degraded /\ pass.ingested => pass.parsed \subseteq job.acked

\* The whole of it.
IInv ==
  /\ TypeOK
  /\ PassShape
  /\ StructureStored
  /\ PlanStored
  /\ ForceShape
  /\ CheckpointIsTrue
-----------------------------------------------------------------------------
(***************************************************************************)
(* The invariants behind full passes.                                      *)
(***************************************************************************)
\* A file that the graph holds as the pass discovered it.
Exact(f) ==
  /\ nodes[f] = pass.entries[f] /\ hashes[f] = pass.entries[f]
  /\ pass.entries[f] # 0 => f \in embedded

\* A full pass that has looked at the sources: what is gone from them is gone
\* from the graph or doomed, a file it leaves alone has the record of what it
\* discovered, and what it parsed is exact or still to be acknowledged.
FullShape ==
  job.mode = "full" /\ pass.pc \notin {"idle", "opened"} =>
    /\ pass.doomed \cap Present(pass.entries) = {}
    /\ pass.pc \in Replacing \cup Enriching \/ pass.ingested => pass.doomed = {}
    /\ pass.pc \in Replacing \cup Enriching => ~pass.ingested
    /\ pass.pc \in Replacing => pass.left = pass.parsed
    /\ pass.pc = "forget" => \A f \in Batch(pass.doomed) : nodes[f] = 0
    /\ pass.ingested /\ ~pass.degraded => pass.left = {}
    /\ \A f \in Files :
         /\ pass.entries[f] = 0 => f \in pass.doomed \/ (nodes[f] = 0 /\ hashes[f] = 0)
         /\ f \in Present(pass.entries) \ pass.changed =>
              hashes[f] = pass.entries[f] /\ (nodes[f] = 0 \/ f \in embedded)
         /\ f \in pass.parsed /\ ~pass.degraded /\ (pass.pc \in Enriching \/ pass.ingested)
              => f \in pass.left \/ Exact(f)

\* Whatever the modes, edits and cuts: a full pass that succeeds makes every
\* file exact that it worked on or that has left the sources.  Only of a file
\* whose record already names the discovered content does it trust the record.
FullPassTrustsOnlyRecords ==
  [][Publishes /\ job.mode = "full" =>
       \A f \in Files \ Failed :
         Exact(f) \/ (f \in Present(pass.entries) /\ hashes[f] = pass.entries[f])]_vars

\* The pass has acknowledged nothing yet.
BeforeBatches ==
  \/ pass.pc \in Replacing
  \/ pass.pc \in {"sweep", "forget"} /\ ~pass.ingested

\* Of a file that is not doubted, a record that names what is in the sources is
\* that of stored nodes and vectors.  Sweeping and replacing leave such a file
\* alone, unless for a client or a force job; and a full pass leaves alone only
\* files that are stored as it discovered them.
RecordsAreTrusted ==
  /\ pass.pc \in Replacing \cup Enriching => pass.doomed = {}
  /\ job.mode = "force_full" /\ pass.pc = "nodes" => pass.parsed \subseteq doubted
  /\ \A f \in Files \ doubted :
       /\ disk[f] # 0 /\ hashes[f] = disk[f] =>
            /\ nodes[f] = disk[f] /\ f \in embedded
            /\ f \in pass.doomed => pass.ingested
            /\ f \in pass.changed /\ BeforeBatches => job.mode = "force_full"
       /\ job.mode = "full" /\ pass.pc \notin {"idle", "opened"} =>
            (f \in Present(pass.entries) \ pass.changed => nodes[f] = pass.entries[f])

(***************************************************************************)
(* The invariant behind uninterrupted passes.                              *)
(***************************************************************************)
\* Files that stay in the sources are never doomed, and as long as no pass is
\* cut off their nodes are away only while they are replaced; a relationship to
\* one is stored whenever both ends are, or is in the plan of the replacement.
TargetsKeepTheirEdges ==
  /\ Steady \subseteq Present(disk)
  /\ pass.doomed \cap Steady = {} /\ job.deleted \cap Steady = {}
  /\ ready => pass.pc = "idle"
  /\ faults = 0 /\ crashes = 0 =>
       \A e \in Refs : e[2] \in Steady =>
         /\ nodes[e[2]] # 0 \/ (pass.pc = "nodes" /\ e[2] \in pass.parsed)
         /\ nodes[e[1]] # 0 \/ (pass.pc = "nodes" /\ e[1] \in pass.parsed) =>
              e \in edges \/ (pass.pc \in {"nodes", "edges"} /\ e \in pass.plan)
         /\ pass.pc = "delete" /\ e \in edges /\ e[2] \in pass.parsed => e \in pass.plan
=============================================================================
