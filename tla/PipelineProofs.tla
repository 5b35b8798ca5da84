--------------------------- MODULE PipelineProofs ---------------------------
(***************************************************************************)
(* Proofs about a job's pass over the graph of a repository, for every set *)
(* of files and relationships, every batch size and any number of edits,   *)
(* requests, failures and deaths.                                          *)
(***************************************************************************)
EXTENDS Pipeline, TLAPS

(***************************************************************************)
(* The values the passes are built from.                                   *)
(***************************************************************************)

\* No content is a content, and the empty snapshot a snapshot.
LEMMA EmptyFacts ==
  /\ 0 \in Contents /\ 1 \in Contents
  /\ Empty \in Snapshots
  /\ Present(Empty) = {}
  BY PipelineAssumption DEF Contents, Snapshots, Empty, Present

\* What a pass and the absent row look like.
LEMMA IdleFacts ==
  /\ Idle \in Passes
  /\ NoJob \in Jobs
  /\ NoJob.status # "running" /\ NoJob.acked = {}
<1>1. 0 \in 0 .. MaxAttempts - 1
  BY PipelineAssumption
<1> QED BY EmptyFacts, <1>1 DEF Idle, NoJob, Passes, Jobs, Positions

\* A batch is a part of the set it is cut from.
LEMMA BatchFacts == ASSUME NEW S PROVE Batch(S) \subseteq S
  BY DEF Batch

\* Files taken out of a snapshot, or taken over from another, give a snapshot.
LEMMA SnapshotFacts ==
  ASSUME NEW t \in Snapshots, NEW S
  PROVE  /\ [f \in Files |-> IF f \in S THEN 0 ELSE t[f]] \in Snapshots
         /\ \A s \in Snapshots :
              [f \in Files |-> IF f \in S THEN s[f] ELSE t[f]] \in Snapshots
  BY EmptyFacts DEF Snapshots

(***************************************************************************)
(* Type correctness, with the shape of the pass and the plan it rests on.  *)
(***************************************************************************)

\* The end of a pass: the graph stays, the row is dropped or given back.
Ends ==
  /\ pass' = Idle
  /\ job' \in Jobs /\ job'.status # "running"
  /\ \/ job' = NoJob
     \/ /\ job'.acked = job.acked /\ job'.mode = job.mode
        /\ job'.frozen = job.frozen /\ job'.manifest = job.manifest
  /\ UNCHANGED <<disk, newest, graph>>

\* fail_or_retry gives the row back with one attempt more, or drops it.
LEMMA FailOrRetryEnds == ASSUME TypeOK, FailOrRetry PROVE Ends
<1>1. job.attempts + 1 < MaxAttempts => job.attempts + 1 \in 0 .. MaxAttempts - 1
  BY PipelineAssumption DEF TypeOK, Jobs
<1>2. job.attempts + 1 < MaxAttempts \/ job.attempts + 1 >= MaxAttempts
  BY PipelineAssumption DEF TypeOK, Jobs
<1>3. CASE job.attempts + 1 >= MaxAttempts
  BY <1>3, IdleFacts DEF TypeOK, FailOrRetry, NoJob, Ends
<1>4. CASE ~(job.attempts + 1 >= MaxAttempts)
  BY <1>1, <1>2, <1>4 DEF TypeOK, Jobs, FailOrRetry, Ends
<1> QED BY <1>3, <1>4

\* These steps end a pass.
LEMMA EndSteps ==
  ASSUME TypeOK,
         SnapshotDrifted \/ DegradedPass \/ Succeed \/ Raise \/ Cancelled \/ Crash
  PROVE  /\ Ends
         /\ ready' \in BOOLEAN
         /\ UNCHANGED <<edits, requests>>
         /\ faults' \in 0 .. MaxFaults /\ crashes' \in 0 .. MaxCrashes
<1>1. CASE SnapshotDrifted
  BY <1>1, FailOrRetryEnds DEF TypeOK, SnapshotDrifted, FailOrRetry, counters
<1>2. CASE DegradedPass
  BY <1>2, FailOrRetryEnds DEF TypeOK, DegradedPass, FailOrRetry, counters
<1>3. CASE Raise
  BY <1>3, FailOrRetryEnds, PipelineAssumption DEF TypeOK, Raise, FailOrRetry
<1>4. CASE Succeed
  BY <1>4, IdleFacts DEF TypeOK, Succeed, Ends, counters
<1>5. CASE Cancelled
  BY <1>5, IdleFacts DEF TypeOK, Cancelled, Ends, counters
<1>6. CASE Crash
  BY <1>6, PipelineAssumption DEF TypeOK, Crash, Ends, Jobs
<1> QED BY <1>1, <1>2, <1>3, <1>4, <1>5, <1>6

\* What the end of a pass leaves of the invariant.
LEMMA EndKeeps ==
  ASSUME IInv, Ends, ready' \in BOOLEAN, UNCHANGED <<edits, requests>>,
         faults' \in 0 .. MaxFaults, crashes' \in 0 .. MaxCrashes
  PROVE  IInv'
<1> USE DEF IInv
<1>1. TypeOK'
  BY IdleFacts DEF TypeOK, Ends, graph, Idle, Present
<1>2. PassShape' /\ StructureStored' /\ PlanStored'
  BY DEF Ends, Idle, PassShape, StructureStored, PlanStored, Replacing, Enriching
<1>3. ForceShape'
  BY DEF Ends, Idle, NoJob, ForceShape
<1>4. CheckpointIsTrue'
  BY DEF Ends, NoJob, CheckpointIsTrue, graph
<1> QED BY <1>1, <1>2, <1>3, <1>4

(***************************************************************************)
(* The environment and the start of a pass.                                *)
(***************************************************************************)

\* Edits leave everything but the sources alone.
LEMMA EditKeeps ==
  ASSUME IInv, NEW f \in Files, NEW c \in Contents, Edit(f, c)
  PROVE  IInv'
<1> USE DEF IInv
<1>1. disk' \in Snapshots
  BY DEF Edit, TypeOK, Snapshots
<1>2. newest' \in Contents \ {0}
  BY PipelineAssumption DEF Edit, TypeOK, Contents
<1>3. edits' \in 0 .. MaxEdits
  BY PipelineAssumption DEF Edit, TypeOK
<1>4. /\ UNCHANGED <<nodes, embedded, edges, hashes, ready, job, pass,
                     requests, faults, crashes>>
      /\ doubted' \subseteq Files
  BY DEF Edit, TypeOK
<1>5. TypeOK'
  BY <1>1, <1>2, <1>3, <1>4 DEF TypeOK, Present, graph
<1>6. PassShape' /\ StructureStored' /\ PlanStored' /\ ForceShape' /\ CheckpointIsTrue'
  BY <1>4 DEF PassShape, StructureStored, PlanStored, ForceShape, CheckpointIsTrue,
              Present, Batch, graph
<1> QED BY <1>5, <1>6

\* A request replaces or widens a row that nobody works on; a force request
\* starts without acknowledgements, and nothing else touches those of a row.
LEMMA RequestKeeps ==
  ASSUME IInv, NEW mode, NEW F \in SUBSET Files, NEW D \in SUBSET Files,
         Request(mode, F, D)
  PROVE  IInv'
<1> USE DEF IInv
<1>1. mode \in {"files", "full", "force_full"}
  BY PipelineAssumption DEF Request
<1>2. /\ job' \in Jobs /\ job'.status = "queued"
      /\ job'.acked = {} \/ (job'.acked = job.acked /\ job'.mode = job.mode
                             /\ job'.frozen = job.frozen
                             /\ job'.manifest = job.manifest)
  <2>1. CASE job.status = "none"
    <3>1. job' = [NoJob EXCEPT !.status = "queued", !.mode = mode,
                               !.files = F, !.deleted = D]
      BY <2>1 DEF Request
    <3> QED BY <1>1, <3>1, IdleFacts DEF Jobs
  <2>2. CASE job.status = "queued"
    <3>1. CASE mode = "force_full" \/ (mode = "full" /\ job.mode = "files")
      <4>1. job' = [NoJob EXCEPT !.status = "queued", !.mode = mode,
                                 !.attempts = job.attempts]
        BY <2>2, <3>1 DEF Request
      <4> QED BY <1>1, <4>1, IdleFacts DEF TypeOK, Jobs
    <3>2. CASE ~(mode = "force_full" \/ (mode = "full" /\ job.mode = "files"))
      <4>1. CASE mode = "files" /\ job.mode = "files"
        <5>1. job' = [job EXCEPT !.files = @ \cup F, !.deleted = @ \cup D]
          BY <2>2, <3>2, <4>1 DEF Request
        <5> QED BY <2>2, <5>1 DEF TypeOK, Jobs
      <4>2. CASE ~(mode = "files" /\ job.mode = "files")
        BY <2>2, <3>2, <4>2 DEF Request, TypeOK
      <4> QED BY <4>1, <4>2
    <3> QED BY <3>1, <3>2
  <2> QED BY <2>1, <2>2 DEF Request
<1>3. requests' \in 0 .. MaxRequests
  BY PipelineAssumption DEF Request, TypeOK
<1>4. /\ UNCHANGED <<disk, newest, graph, ready, pass, edits, faults, crashes>>
      /\ pass.pc = "idle"
  BY DEF Request, TypeOK
<1>5. TypeOK'
  BY <1>2, <1>3, <1>4 DEF TypeOK, Present, graph
<1>6. PassShape' /\ StructureStored' /\ PlanStored'
  BY <1>4 DEF PassShape, StructureStored, PlanStored, Replacing, Enriching
<1>7. ForceShape' /\ CheckpointIsTrue'
  BY <1>2, <1>4 DEF ForceShape, CheckpointIsTrue, graph
<1> QED BY <1>5, <1>6, <1>7

\* The runner takes the row up.
LEMMA StartKeeps == ASSUME IInv, Start PROVE IInv'
<1> USE DEF IInv
<1>1. TypeOK'
  BY DEF Start, Goto, TypeOK, Jobs, Passes, Positions, Present, graph, counters
<1>2. PassShape'
  BY DEF Start, Goto, TypeOK, Passes, PassShape
<1>3. StructureStored' /\ PlanStored'
  BY DEF Start, Goto, TypeOK, Passes, StructureStored, PlanStored, Replacing, Enriching
<1>4. ForceShape' /\ CheckpointIsTrue'
  BY DEF Start, Goto, TypeOK, Jobs, Passes, ForceShape, CheckpointIsTrue, graph
<1> QED BY <1>1, <1>2, <1>3, <1>4

\* A manifest is installed where none was, so nothing is acknowledged yet.
LEMMA FreezeManifestKeeps == ASSUME IInv, FreezeManifest PROVE IInv'
<1> USE DEF IInv
<1>1. job.acked = {}
  BY DEF FreezeManifest, ForceShape
<1>2. /\ job' \in Jobs /\ job'.acked = {} /\ job'.status = "running"
      /\ pass.pc = "opened"
      /\ UNCHANGED <<disk, newest, graph, ready, pass, counters>>
  BY <1>1 DEF FreezeManifest, At, TypeOK, Jobs
<1>3. TypeOK'
  BY <1>2 DEF TypeOK, Present, graph, counters
<1>4. PassShape' /\ StructureStored' /\ PlanStored'
  BY <1>2 DEF PassShape, StructureStored, PlanStored, Replacing, Enriching
<1>5. ForceShape' /\ CheckpointIsTrue'
  BY <1>2 DEF ForceShape, CheckpointIsTrue
<1> QED BY <1>3, <1>4, <1>5

(***************************************************************************)
(* Discovery.                                                              *)
(***************************************************************************)

\* A pass that begins has chosen some of the sources it discovered.
LEMMA BeginFacts ==
  ASSUME NEW entries \in Snapshots, NEW changed \in SUBSET Present(entries),
         NEW doomed \in SUBSET Files, Begin(entries, changed, doomed)
  PROVE  /\ pass' \in Passes
         /\ pass'.pc = "sweep" /\ pass'.entries = entries
         /\ pass'.changed = changed /\ pass'.doomed = doomed
         /\ pass'.parsed = {} /\ pass'.left = {}
         /\ ~pass'.ingested /\ ~pass'.degraded
<1>1. changed \subseteq Files
  BY DEF Present
<1> QED BY <1>1, EmptyFacts DEF Begin, Idle, Passes, Positions

\* Whatever the mode: the invariant apart from what a force job wants.
LEMMA BeginKeeps ==
  ASSUME IInv, At("opened"),
         NEW entries \in Snapshots, NEW changed \in SUBSET Present(entries),
         NEW doomed \in SUBSET Files, Begin(entries, changed, doomed),
         UNCHANGED <<disk, newest, graph, ready, job, counters>>
  PROVE  TypeOK' /\ PassShape' /\ StructureStored' /\ PlanStored' /\ CheckpointIsTrue'
<1> USE DEF IInv
<1>1. TypeOK'
  <2>1. pass' \in Passes /\ pass'.pc = "sweep"
    BY BeginFacts
  <2> QED BY <2>1 DEF At, TypeOK, Present, graph, counters
<1>2. PassShape' /\ StructureStored' /\ PlanStored'
  BY BeginFacts DEF PassShape, StructureStored, PlanStored, Replacing, Enriching
<1>3. CheckpointIsTrue'
  BY DEF CheckpointIsTrue, graph
<1> QED BY <1>1, <1>2, <1>3

\* The three discoveries.
LEMMA DiscoverKeeps ==
  ASSUME IInv, DiscoverAll \/ DiscoverListed \/ DiscoverFrozen
  PROVE  IInv'
<1> USE DEF IInv
<1>1. CASE DiscoverAll
  <2>1. /\ disk \in Snapshots /\ Changed(disk) \subseteq Present(disk)
        /\ Sweepable(disk) \subseteq Files
    BY DEF TypeOK, Changed, Sweepable, Present
  <2>2. TypeOK' /\ PassShape' /\ StructureStored' /\ PlanStored' /\ CheckpointIsTrue'
    BY <1>1, <2>1, BeginKeeps DEF DiscoverAll
  <2>3. ForceShape'
    BY <1>1 DEF DiscoverAll, ForceShape
  <2> QED BY <2>2, <2>3
<1>2. CASE DiscoverListed
  <2> DEFINE listed == [f \in Files |-> IF f \in job.files THEN disk[f] ELSE 0]
  <2>1. listed \in Snapshots
    BY EmptyFacts DEF TypeOK, Snapshots
  <2>2. Changed(listed) \subseteq Present(listed)
    BY DEF Changed
  <2>3. Begin(listed, Changed(listed), {})
    BY <1>2 DEF DiscoverListed
  <2> HIDE DEF listed
  <2>4. TypeOK' /\ PassShape' /\ StructureStored' /\ PlanStored' /\ CheckpointIsTrue'
    BY <1>2, <2>1, <2>2, <2>3, BeginKeeps DEF DiscoverListed
  <2>5. ForceShape'
    BY <1>2 DEF DiscoverListed, ForceShape
  <2> QED BY <2>4, <2>5
<1>3. CASE DiscoverFrozen
  <2> DEFINE frozen == [f \in Files |-> IF f \in Pending THEN job.manifest[f] ELSE 0]
  <2>1. frozen \in Snapshots
    BY EmptyFacts DEF TypeOK, Jobs, Snapshots
  <2>2. Pending \subseteq Present(frozen) /\ \A f \in Pending : frozen[f] = job.manifest[f]
    BY DEF Pending, Present
  <2>3. Begin(frozen, Pending, {})
    BY <1>3 DEF DiscoverFrozen
  <2> HIDE DEF frozen
  <2>4. TypeOK' /\ PassShape' /\ StructureStored' /\ PlanStored' /\ CheckpointIsTrue'
    BY <1>3, <2>1, <2>2, <2>3, BeginKeeps DEF DiscoverFrozen
  <2>5. /\ pass'.pc = "sweep" /\ pass'.entries = frozen /\ pass'.changed = Pending
        /\ pass'.doomed = {} /\ pass'.left = {} /\ pass'.parsed = {}
        /\ ~pass'.ingested
    BY <2>1, <2>2, <2>3, BeginFacts
  <2>6. /\ job.frozen /\ job.mode = "force_full" /\ UNCHANGED job
        /\ Pending \cap job.acked = {}
        /\ Present(job.manifest) \subseteq job.acked \cup Pending
    BY <1>3 DEF DiscoverFrozen, Pending
  <2>7. ForceShape'
    BY <2>2, <2>5, <2>6 DEF ForceShape, Replacing, Enriching, Present
  <2> QED BY <2>4, <2>7
<1> QED BY <1>1, <1>2, <1>3

(***************************************************************************)
(* Deletions.                                                              *)
(***************************************************************************)

\* A deletion takes nodes, vectors and relationships of its files together.
LEMMA DropFacts ==
  ASSUME TypeOK, NEW S, Drop(S)
  PROVE  /\ nodes' \in Snapshots
         /\ embedded' \subseteq Present(nodes')
         /\ edges' \subseteq Present(nodes') \X Present(nodes')
         /\ \A f \in Files : f \notin S => nodes'[f] = nodes[f]
         /\ \A f \in Files \ S : f \in embedded => f \in embedded'
         /\ \A f \in Files : nodes'[f] # 0 => nodes[f] # 0
<1>1. nodes' \in Snapshots
  BY SnapshotFacts DEF Drop, TypeOK
<1>2. \A f \in Files : nodes'[f] = IF f \in S THEN 0 ELSE nodes[f]
  BY DEF Drop
<1>3. Present(nodes') = Present(nodes) \ S
  BY <1>2 DEF Present
<1>4. embedded' = embedded \ S /\ embedded \subseteq Present(nodes)
  BY DEF Drop, TypeOK
<1>5. edges' \subseteq Present(nodes') \X Present(nodes')
  <2> SUFFICES ASSUME NEW e \in edges'
               PROVE  e \in Present(nodes') \X Present(nodes')
    OBVIOUS
  <2>1. /\ e \in Present(nodes) \X Present(nodes)
        /\ e[1] \notin S /\ e[2] \notin S
    BY DEF Drop, TypeOK
  <2> QED BY <1>3, <2>1
<1>6. embedded' \subseteq Present(nodes')
  BY <1>3, <1>4
<1> QED BY <1>1, <1>2, <1>4, <1>5, <1>6

\* Removed sources: a force job has none.
LEMMA DeleteNodesKeeps == ASSUME IInv, DeleteNodes PROVE IInv'
<1> USE DEF IInv
<1> DEFINE batch == Batch(pass.doomed)
<1>1. /\ Drop(batch)
      /\ pass' \in Passes /\ pass'.pc = "forget"
      /\ pass'.changed = pass.changed /\ pass'.entries = pass.entries
      /\ pass'.parsed = pass.parsed /\ pass'.left = pass.left
      /\ pass.pc = "sweep" /\ pass.doomed # {} /\ job.status = "running"
      /\ UNCHANGED <<disk, newest, hashes, ready, job, counters>>
      /\ doubted' \subseteq Files
  BY DEF DeleteNodes, Goto, At, TypeOK, Passes, Positions, Batch
<1> HIDE DEF batch
<1>2. TypeOK'
  BY <1>1, DropFacts DEF TypeOK, counters
<1>3. PassShape' /\ StructureStored' /\ PlanStored'
  BY <1>1 DEF PassShape, StructureStored, PlanStored, Replacing, Enriching
<1>4. job.mode # "force_full" /\ job.acked = {}
  BY <1>1 DEF ForceShape
<1>5. ForceShape' /\ CheckpointIsTrue'
  BY <1>1, <1>4 DEF ForceShape, CheckpointIsTrue
<1> QED BY <1>2, <1>3, <1>5

\* Their records follow.
LEMMA DeleteRecordsKeeps == ASSUME IInv, DeleteRecords PROVE IInv'
<1> USE DEF IInv
<1> DEFINE batch == Batch(pass.doomed)
<1>1. /\ hashes' = [f \in Files |-> IF f \in batch THEN 0 ELSE hashes[f]]
      /\ pass' \in Passes /\ pass'.pc = "sweep"
      /\ pass'.changed = pass.changed /\ pass'.entries = pass.entries
      /\ pass'.parsed = pass.parsed /\ pass'.left = pass.left
      /\ pass.pc = "forget" /\ job.status = "running"
      /\ UNCHANGED <<disk, newest, nodes, embedded, edges, ready, job, counters>>
      /\ doubted' \subseteq Files
  BY DEF DeleteRecords, At, TypeOK, Passes, Positions, Batch
<1> HIDE DEF batch
<1>2. hashes' \in Snapshots
  BY <1>1, SnapshotFacts DEF TypeOK
<1>3. TypeOK'
  BY <1>1, <1>2 DEF TypeOK, counters
<1>4. PassShape' /\ StructureStored' /\ PlanStored'
  BY <1>1 DEF PassShape, StructureStored, PlanStored, Replacing, Enriching
<1>5. job.mode # "force_full" /\ job.acked = {}
  BY <1>1 DEF ForceShape
<1>6. ForceShape' /\ CheckpointIsTrue'
  BY <1>1, <1>5 DEF ForceShape, CheckpointIsTrue
<1> QED BY <1>3, <1>4, <1>6

(***************************************************************************)
(* Structure.                                                              *)
(***************************************************************************)

\* The plan of the parsed files has their relationships to files that will
\* have nodes, and the retained ones of others to them.
LEMMA PlanFacts ==
  ASSUME TypeOK, NEW parsed \in SUBSET Files,
         NEW plan, plan = PlannedEdges(parsed) \cup RetainedInboundEdges(parsed)
  PROVE  /\ plan \subseteq (Present(nodes) \cup parsed) \X (Present(nodes) \cup parsed)
         /\ plan \subseteq Files \X Files
         /\ \A e \in Refs : e[1] \in parsed /\ (e[2] \in parsed \/ nodes[e[2]] # 0)
              => e \in plan
<1>1. PlannedEdges(parsed) \subseteq (Present(nodes) \cup parsed) \X (Present(nodes) \cup parsed)
  <2> SUFFICES ASSUME NEW e \in PlannedEdges(parsed)
               PROVE  e \in (Present(nodes) \cup parsed) \X (Present(nodes) \cup parsed)
    OBVIOUS
  <2>1. /\ e \in Files \X Files /\ e[1] \in parsed
        /\ e[2] \in parsed \/ nodes[e[2]] # 0
    BY PipelineAssumption DEF PlannedEdges
  <2> QED BY <2>1 DEF Present
<1>2. RetainedInboundEdges(parsed) \subseteq Present(nodes) \X Present(nodes)
  BY DEF RetainedInboundEdges, TypeOK
<1>3. Present(nodes) \subseteq Files
  BY DEF Present
<1>4. plan \subseteq (Present(nodes) \cup parsed) \X (Present(nodes) \cup parsed)
  BY <1>1, <1>2
<1> QED BY <1>3, <1>4 DEF PlannedEdges

\* Parsing selects and plans.
LEMMA ParseKeeps == ASSUME IInv, Parse PROVE IInv'
<1> USE DEF IInv
<1> DEFINE parsed == {f \in pass.changed : /\ disk[f] = pass.entries[f]
                                           /\ disk[f] \notin Unparsable}
           plan == PlannedEdges(parsed) \cup RetainedInboundEdges(parsed)
<1>1. /\ pass.pc = "sweep" /\ ~pass.ingested /\ job.status = "running"
      /\ pass' = [pass EXCEPT !.pc = "delete", !.parsed = parsed,
                              !.left = parsed, !.plan = plan]
      /\ UNCHANGED <<disk, newest, graph, ready, job, counters>>
  BY DEF Parse, At
<1>2. parsed \subseteq pass.changed /\ pass.changed \subseteq Files
  BY DEF TypeOK, Passes
<1> HIDE DEF parsed
<1>3. /\ plan \subseteq (Present(nodes) \cup parsed) \X (Present(nodes) \cup parsed)
      /\ plan \subseteq Files \X Files
      /\ \A e \in Refs : e[1] \in parsed /\ (e[2] \in parsed \/ nodes[e[2]] # 0)
           => e \in plan
  BY <1>2, PlanFacts
<1> HIDE DEF plan
<1>4. /\ pass' \in Passes /\ pass'.pc = "delete"
      /\ pass'.parsed = parsed /\ pass'.left = parsed /\ pass'.plan = plan
      /\ pass'.changed = pass.changed /\ pass'.entries = pass.entries
      /\ pass'.doomed = pass.doomed /\ pass'.ingested = pass.ingested
      /\ pass'.degraded = pass.degraded
  BY <1>1, <1>2, <1>3 DEF TypeOK, Passes, Positions
<1>5. TypeOK'
  BY <1>1, <1>4 DEF TypeOK, Present, graph, counters
<1>6. PassShape' /\ StructureStored'
  BY <1>2, <1>4 DEF PassShape, StructureStored, Enriching
<1>7. PlanStored'
  BY <1>1, <1>3, <1>4 DEF PlanStored, Present, graph, Enriching
<1>8. ForceShape' /\ CheckpointIsTrue'
  BY <1>1, <1>2, <1>4 DEF ForceShape, CheckpointIsTrue, graph, Replacing, Enriching
<1> QED BY <1>5, <1>6, <1>7, <1>8

\* A pass that only moves on keeps its locals.
LEMMA GotoFacts ==
  ASSUME TypeOK, NEW pc \in Positions, Goto(pc)
  PROVE  /\ pass' \in Passes /\ pass'.pc = pc
         /\ pass'.parsed = pass.parsed /\ pass'.left = pass.left
         /\ pass'.plan = pass.plan
         /\ pass'.changed = pass.changed /\ pass'.entries = pass.entries
         /\ pass'.doomed = pass.doomed /\ pass'.ingested = pass.ingested
         /\ pass'.degraded = pass.degraded
  BY DEF TypeOK, Passes, Goto

\* What is acknowledged in the manifest is not replaced again.
LEMMA DeleteReplacedKeeps == ASSUME IInv, DeleteReplaced PROVE IInv'
<1> USE DEF IInv
<1>1. /\ pass.pc = "delete" /\ job.status = "running"
      /\ Drop(pass.parsed) /\ Goto("nodes") /\ "nodes" \in Positions
      /\ UNCHANGED <<disk, newest, hashes, ready, job, counters>>
      /\ doubted' \subseteq Files
  BY DEF DeleteReplaced, At, Positions, TypeOK, Passes, PassShape, Present
<1>2. TypeOK'
  BY <1>1, GotoFacts, DropFacts DEF TypeOK, counters
<1>3. PassShape' /\ StructureStored'
  BY <1>1, GotoFacts DEF PassShape, StructureStored, Enriching
<1>4. PlanStored'
  <2>1. Present(nodes) \subseteq Present(nodes') \cup pass.parsed
    BY <1>1, DropFacts DEF Present
  <2>2. \A e \in Refs : e[2] \in Files
    BY PipelineAssumption
  <2>3. pass.plan \subseteq (Present(nodes) \cup pass.parsed) \X
                             (Present(nodes) \cup pass.parsed)
    BY <1>1 DEF PlanStored, Replacing
  <2>4. pass.plan \subseteq (Present(nodes') \cup pass.parsed) \X
                             (Present(nodes') \cup pass.parsed)
    BY <2>1, <2>3
  <2>5. \A e \in Refs :
          e[1] \in pass.parsed /\ (e[2] \in pass.parsed \/ nodes'[e[2]] # 0)
            => e \in pass.plan
    BY <1>1, <2>2, DropFacts DEF PlanStored, Replacing
  <2> QED BY <1>1, <2>4, <2>5, GotoFacts DEF PlanStored, Enriching
<1>5. ForceShape'
  BY <1>1, GotoFacts DEF ForceShape, Replacing, Enriching
<1>6. CheckpointIsTrue'
  <2>1. job.acked \cap pass.parsed = {} /\ job.acked \subseteq Files
    BY <1>1 DEF ForceShape, PassShape, TypeOK, Jobs, Replacing
  <2> QED BY <1>1, <2>1, DropFacts DEF CheckpointIsTrue
<1> QED BY <1>2, <1>3, <1>4, <1>5, <1>6

\* The new nodes: each parsed file gets the content it was discovered with.
LEMMA UpsertNodesKeeps == ASSUME IInv, UpsertNodes PROVE IInv'
<1> USE DEF IInv
<1>1. /\ pass.pc = "nodes" /\ job.status = "running"
      /\ nodes' = [f \in Files |-> IF f \in pass.parsed THEN pass.entries[f]
                                   ELSE nodes[f]]
      /\ Goto("edges") /\ "edges" \in Positions
      /\ UNCHANGED <<disk, newest, embedded, edges, hashes, ready, job, counters>>
      /\ doubted' \subseteq Files
  BY DEF UpsertNodes, At, Positions, TypeOK, Passes
<1>2. nodes' \in Snapshots
  <2>1. pass.entries \in Snapshots /\ nodes \in Snapshots
    BY DEF TypeOK, Passes
  <2> QED BY <1>1, <2>1, SnapshotFacts
<1>3. /\ \A f \in Files : nodes'[f] = IF f \in pass.parsed THEN pass.entries[f]
                                      ELSE nodes[f]
      /\ pass.parsed \subseteq Files
      /\ \A f \in pass.parsed : pass.entries[f] # 0
  BY <1>1 DEF PassShape, Present
<1>4. Present(nodes') = Present(nodes) \cup pass.parsed
  BY <1>3 DEF Present
<1>5. TypeOK'
  BY <1>1, <1>2, <1>4, GotoFacts DEF TypeOK, counters
<1>6. PassShape' /\ StructureStored'
  BY <1>1, <1>3, GotoFacts DEF PassShape, StructureStored
<1>7. PlanStored'
  <2>1. \A e \in Refs : e[2] \in Files
    BY PipelineAssumption
  <2>2. \A e \in Refs :
          e[1] \in pass.parsed /\ (e[2] \in pass.parsed \/ nodes'[e[2]] # 0)
            => e \in pass.plan
    BY <1>1, <1>3, <2>1 DEF PlanStored, Replacing
  <2>3. pass.plan \subseteq (Present(nodes') \cup pass.parsed) \X
                             (Present(nodes') \cup pass.parsed)
    BY <1>1, <1>4 DEF PlanStored, Replacing
  <2> QED BY <1>1, <2>2, <2>3, GotoFacts DEF PlanStored, Enriching
<1>8. ForceShape'
  BY <1>1, GotoFacts DEF ForceShape, Replacing, Enriching
<1>9. CheckpointIsTrue'
  <2>1. job.acked \cap pass.parsed = {} /\ job.acked \subseteq Files
    BY <1>1 DEF ForceShape, PassShape, TypeOK, Jobs, Replacing
  <2> QED BY <1>1, <1>3, <2>1 DEF CheckpointIsTrue
<1> QED BY <1>5, <1>6, <1>7, <1>8, <1>9

\* The planned relationships find their ends.
LEMMA UpsertEdgesKeeps == ASSUME IInv, UpsertEdges PROVE IInv'
<1> USE DEF IInv
<1>1. /\ pass.pc = "edges" /\ job.status = "running"
      /\ edges' = edges \cup pass.plan
      /\ Goto("embed") /\ "embed" \in Positions
      /\ UNCHANGED <<disk, newest, nodes, embedded, hashes, ready, job, counters>>
      /\ doubted' \subseteq Files
  BY DEF UpsertEdges, At, Positions, TypeOK, Passes
<1>2. pass.parsed \subseteq Present(nodes)
  BY <1>1 DEF StructureStored, PassShape, Present
<1>3. pass.plan \subseteq Present(nodes) \X Present(nodes)
  BY <1>1, <1>2 DEF PlanStored, Replacing
<1>4. TypeOK'
  BY <1>1, <1>3, GotoFacts DEF TypeOK, counters, Present
<1>5. PassShape' /\ StructureStored'
  BY <1>1, GotoFacts DEF PassShape, StructureStored
<1>6. PlanStored'
  BY <1>1, GotoFacts DEF PlanStored, Replacing, Enriching
<1>7. ForceShape' /\ CheckpointIsTrue'
  BY <1>1, GotoFacts DEF ForceShape, CheckpointIsTrue, Replacing, Enriching
<1> QED BY <1>4, <1>5, <1>6, <1>7

(***************************************************************************)
(* Batches.                                                                *)
(***************************************************************************)

\* Vectors are written for files whose nodes are stored.
LEMMA EmbedKeeps == ASSUME IInv, Embed PROVE IInv'
<1> USE DEF IInv
<1>1. /\ pass.pc = "embed" /\ job.status = "running"
      /\ embedded' = embedded \cup Batch(pass.left)
      /\ Goto("check") /\ "check" \in Positions
      /\ UNCHANGED <<disk, newest, nodes, edges, hashes, ready, job, counters>>
      /\ doubted' \subseteq Files
  BY DEF Embed, At, Positions, TypeOK, Passes
<1>2. Batch(pass.left) \subseteq Present(nodes)
  BY <1>1, BatchFacts DEF StructureStored, PassShape, Present, Enriching
<1>3. TypeOK'
  BY <1>1, <1>2, GotoFacts DEF TypeOK, counters, Present
<1>4. PassShape'
  BY <1>1, GotoFacts DEF PassShape
<1>5. StructureStored'
  BY <1>1, GotoFacts DEF StructureStored, Enriching, Batch
<1>6. PlanStored'
  BY <1>1, GotoFacts DEF PlanStored, Replacing, Enriching
<1>7. ForceShape' /\ CheckpointIsTrue'
  BY <1>1, GotoFacts DEF ForceShape, CheckpointIsTrue, Replacing, Enriching
<1> QED BY <1>3, <1>4, <1>5, <1>6, <1>7

\* A degraded pass has nothing left to acknowledge.
LEMMA DegradeKeeps ==
  ASSUME IInv, Degrade, pass.pc \in {"embed", "check"}, job.status = "running",
         faults' \in 0 .. MaxFaults
  PROVE  IInv'
<1> USE DEF IInv
<1>1. /\ pass' \in Passes /\ pass'.pc = "embed" /\ pass'.left = {}
      /\ pass'.degraded
      /\ pass'.parsed = pass.parsed /\ pass'.plan = pass.plan
      /\ pass'.changed = pass.changed /\ pass'.entries = pass.entries
      /\ pass'.doomed = pass.doomed /\ pass'.ingested = pass.ingested
      /\ UNCHANGED <<disk, newest, graph, ready, job, edits, requests, crashes>>
  BY DEF Degrade, TypeOK, Passes, Positions
<1>2. TypeOK'
  BY <1>1 DEF TypeOK, Present, graph
<1>3. PassShape' /\ StructureStored'
  BY <1>1 DEF PassShape, StructureStored, Enriching, graph
<1>4. PlanStored'
  BY <1>1 DEF PlanStored, Replacing, Enriching, graph
<1>5. ForceShape' /\ CheckpointIsTrue'
  BY <1>1 DEF ForceShape, CheckpointIsTrue, Replacing, graph
<1> QED BY <1>2, <1>3, <1>4, <1>5

\* The two ways to degrade, and the stable sources.
LEMMA CheckKeeps == ASSUME IInv, EmbeddingFails \/ CheckSources PROVE IInv'
<1>1. CASE EmbeddingFails
  BY <1>1, DegradeKeeps, PipelineAssumption DEF EmbeddingFails, At, IInv, TypeOK
<1>2. CASE CheckSources /\ Degrade /\ UNCHANGED faults
  BY <1>2, DegradeKeeps DEF CheckSources, At, IInv, TypeOK
<1>3. CASE CheckSources /\ ~(Degrade /\ UNCHANGED faults)
  <2> USE DEF IInv
  <2>1. /\ pass.pc = "check" /\ job.status = "running"
        /\ Goto("acknowledge") /\ "acknowledge" \in Positions
        /\ UNCHANGED <<disk, newest, graph, ready, job, counters>>
    BY <1>3 DEF CheckSources, At, Positions
  <2>2. TypeOK'
    BY <2>1, GotoFacts DEF TypeOK, Present, graph, counters
  <2>3. PassShape' /\ StructureStored'
    BY <2>1, GotoFacts DEF PassShape, StructureStored, Enriching, Batch, graph
  <2>4. PlanStored'
    BY <2>1, GotoFacts DEF PlanStored, Replacing, Enriching, graph
  <2>5. ForceShape' /\ CheckpointIsTrue'
    BY <2>1, GotoFacts DEF ForceShape, CheckpointIsTrue, Replacing, Enriching, graph
  <2> QED BY <2>2, <2>3, <2>4, <2>5
<1> QED BY <1>1, <1>2, <1>3

\* The hashes of a batch whose nodes and vectors are stored.
LEMMA AcknowledgeKeeps == ASSUME IInv, Acknowledge PROVE IInv'
<1> USE DEF IInv
<1> DEFINE batch == Batch(pass.left)
<1>1. /\ pass.pc = "acknowledge" /\ job.status = "running"
      /\ hashes' = [f \in Files |-> IF f \in batch THEN pass.entries[f] ELSE hashes[f]]
      /\ UNCHANGED <<disk, newest, nodes, embedded, edges, ready, job, counters>>
      /\ doubted' \subseteq Files
  BY DEF Acknowledge, At, TypeOK
<1>2. /\ batch \subseteq pass.left /\ pass.left \subseteq Files
      /\ pass.entries \in Snapshots /\ hashes \in Snapshots
  BY BatchFacts DEF TypeOK, Passes
<1>3. CASE job.mode = "force_full"
  <2>1. /\ Goto("checkpoint") /\ "checkpoint" \in Positions
        /\ \A f \in Batch(pass.left) : hashes'[f] = pass.entries[f]
    BY <1>1, <1>2, <1>3 DEF Acknowledge, Goto, Positions
  <2> HIDE DEF batch
  <2>2. hashes' \in Snapshots
    BY <1>1, <1>2, SnapshotFacts
  <2>3. TypeOK'
    BY <1>1, <2>1, <2>2, GotoFacts DEF TypeOK, counters
  <2>4. PassShape' /\ StructureStored'
    BY <1>1, <1>3, <2>1, GotoFacts DEF PassShape, StructureStored, Enriching, Batch
  <2>5. PlanStored'
    BY <1>1, <2>1, GotoFacts DEF PlanStored, Replacing, Enriching
  <2>6. ForceShape'
    BY <1>1, <2>1, GotoFacts DEF ForceShape, Replacing, Enriching
  <2>7. CheckpointIsTrue'
    <3>1. job.acked \cap batch = {} /\ job.acked \subseteq Files
      BY <1>1, <1>2, <1>3 DEF ForceShape, TypeOK, Jobs
    <3> QED BY <1>1, <3>1 DEF CheckpointIsTrue
  <2> QED BY <2>3, <2>4, <2>5, <2>6, <2>7
<1>4. CASE job.mode # "force_full"
  <2>1. pass' = [pass EXCEPT !.pc = "embed", !.left = @ \ batch]
    BY <1>4 DEF Acknowledge
  <2> HIDE DEF batch
  <2>2. /\ pass' \in Passes /\ pass'.pc = "embed" /\ pass'.left \subseteq pass.left
        /\ pass'.parsed = pass.parsed /\ pass'.plan = pass.plan
        /\ pass'.changed = pass.changed /\ pass'.entries = pass.entries
    BY <2>1 DEF TypeOK, Passes, Positions
  <2>3. hashes' \in Snapshots
    BY <1>1, <1>2, SnapshotFacts
  <2>4. TypeOK'
    BY <1>1, <2>2, <2>3 DEF TypeOK, counters
  <2>5. PassShape' /\ StructureStored'
    BY <1>1, <2>2 DEF PassShape, StructureStored, Enriching
  <2>6. PlanStored'
    BY <1>1, <2>2 DEF PlanStored, Replacing, Enriching
  <2>7. ForceShape' /\ CheckpointIsTrue'
    BY <1>1, <1>4 DEF ForceShape, CheckpointIsTrue
  <2> QED BY <2>4, <2>5, <2>6, <2>7
<1> QED BY <1>3, <1>4

\* The batch becomes part of what no retry of the force job looks at again.
LEMMA CheckpointKeeps == ASSUME IInv, Checkpoint PROVE IInv'
<1> USE DEF IInv
<1> DEFINE batch == Batch(pass.left)
<1>1. /\ pass.pc = "checkpoint" /\ job.status = "running"
      /\ job' = [job EXCEPT !.acked = @ \cup batch]
      /\ pass' = [pass EXCEPT !.pc = "embed", !.left = @ \ batch]
      /\ UNCHANGED <<disk, newest, graph, ready, counters>>
  BY DEF Checkpoint, At
<1>2. /\ batch \subseteq pass.left /\ pass.left \subseteq Files
      /\ pass.left \subseteq pass.parsed /\ pass.parsed \subseteq pass.changed
  BY BatchFacts DEF TypeOK, Passes, PassShape
<1>3. \A f \in batch : /\ hashes[f] = pass.entries[f] /\ nodes[f] = pass.entries[f]
                       /\ f \in embedded
  BY <1>1, <1>2 DEF StructureStored, Enriching
<1>4. job.mode = "force_full"
  BY <1>1 DEF StructureStored
<1> HIDE DEF batch
<1>5. /\ pass' \in Passes /\ pass'.pc = "embed" /\ pass'.left = pass.left \ batch
      /\ pass'.parsed = pass.parsed /\ pass'.plan = pass.plan
      /\ pass'.changed = pass.changed /\ pass'.entries = pass.entries
      /\ pass'.doomed = pass.doomed /\ pass'.ingested = pass.ingested
      /\ pass'.degraded = pass.degraded
  BY <1>1 DEF TypeOK, Passes, Positions
<1>6. /\ job' \in Jobs /\ job'.acked = job.acked \cup batch
      /\ job'.status = "running" /\ job'.mode = job.mode
      /\ job'.frozen = job.frozen /\ job'.manifest = job.manifest
  BY <1>1, <1>2 DEF TypeOK, Jobs
<1>7. TypeOK'
  BY <1>1, <1>5, <1>6 DEF TypeOK, Present, graph, counters
<1>8. PassShape' /\ StructureStored'
  BY <1>1, <1>5 DEF PassShape, StructureStored, Enriching, graph
<1>9. PlanStored'
  BY <1>1, <1>5 DEF PlanStored, Replacing, Enriching, graph
<1>10. ForceShape'
  BY <1>1, <1>2, <1>5, <1>6, <1>4 DEF ForceShape, Replacing, Enriching
<1>11. \A f \in batch : pass.entries[f] = job.manifest[f]
  BY <1>1, <1>2, <1>4 DEF ForceShape
<1>12. CheckpointIsTrue'
  BY <1>1, <1>3, <1>6, <1>11 DEF CheckpointIsTrue, graph
<1> QED BY <1>7, <1>8, <1>9, <1>10, <1>12

\* The batches are through, the deletions a client asked for begin.
LEMMA IngestedEntriesKeeps == ASSUME IInv, IngestedEntries PROVE IInv'
<1> USE DEF IInv
<1> DEFINE doomed == IF job.mode = "files" THEN job.deleted ELSE {}
<1>1. /\ job.status = "running" /\ pass.pc \in {"embed", "sweep"}
      /\ pass.pc = "embed" => pass.left = {}
      /\ pass.pc = "sweep" => ~pass.ingested /\ pass.changed = {}
      /\ pass' = [pass EXCEPT !.pc = "sweep", !.ingested = TRUE, !.doomed = doomed]
      /\ UNCHANGED <<disk, newest, graph, ready, job, counters>>
  BY DEF IngestedEntries, At
<1>2. doomed \in SUBSET Files /\ (job.mode = "force_full" => doomed = {})
  BY DEF TypeOK, Jobs
<1> HIDE DEF doomed
<1>3. /\ pass' \in Passes /\ pass'.pc = "sweep" /\ pass'.ingested
      /\ pass'.doomed = doomed
      /\ pass'.parsed = pass.parsed /\ pass'.left = pass.left
      /\ pass'.changed = pass.changed /\ pass'.entries = pass.entries
      /\ pass'.degraded = pass.degraded
  BY <1>1, <1>2 DEF TypeOK, Passes, Positions
<1>4. TypeOK'
  BY <1>1, <1>3 DEF TypeOK, Present, graph, counters
<1>5. PassShape' /\ StructureStored' /\ PlanStored'
  BY <1>3 DEF PassShape, StructureStored, PlanStored, Replacing, Enriching
<1>6. ForceShape'
  BY <1>1, <1>2, <1>3 DEF ForceShape, PassShape, Replacing, Enriching
<1>7. CheckpointIsTrue'
  BY <1>1 DEF CheckpointIsTrue, graph
<1> QED BY <1>4, <1>5, <1>6, <1>7

(***************************************************************************)
(* The theorems.                                                           *)
(***************************************************************************)

\* Every step keeps the invariant.
LEMMA InvStep == IInv /\ [Next]_vars => IInv'
<1> SUFFICES ASSUME IInv, [Next]_vars PROVE IInv'
  OBVIOUS
<1>1. CASE \E f \in Files, c \in Contents : Edit(f, c)
  BY <1>1, EditKeeps
<1>2. CASE \E mode \in Modes, F, D \in SUBSET Files : Request(mode, F, D)
  BY <1>2, RequestKeeps
<1>3. CASE Start \/ FreezeManifest
  BY <1>3, StartKeeps, FreezeManifestKeeps
<1>4. CASE Delete \/ Replace
  BY <1>4, DeleteNodesKeeps, DeleteRecordsKeeps, ParseKeeps, DeleteReplacedKeeps,
     UpsertNodesKeeps, UpsertEdgesKeeps DEF Delete, Replace
<1>5. CASE Enrich \/ IngestedEntries
  BY <1>5, EmbedKeeps, CheckKeeps, AcknowledgeKeeps, CheckpointKeeps,
     IngestedEntriesKeeps DEF Enrich
<1>6. CASE DiscoverAll \/ DiscoverListed \/ DiscoverFrozen
  BY <1>6, DiscoverKeeps
<1>7. CASE SnapshotDrifted \/ DegradedPass \/ Succeed \/ Raise \/ Cancelled \/ Crash
  BY <1>7, EndSteps, EndKeeps DEF IInv
<1>8. CASE UNCHANGED vars
  <2> USE <1>8 DEF IInv, vars, graph, counters
  <2>1. TypeOK'
    BY DEF TypeOK, Present
  <2>2. PassShape' /\ StructureStored' /\ PlanStored'
    BY DEF PassShape, StructureStored, PlanStored, Present, Batch
  <2>3. ForceShape' /\ CheckpointIsTrue'
    BY DEF ForceShape, CheckpointIsTrue, Present
  <2> QED BY <2>1, <2>2, <2>3
<1> QED BY <1>1, <1>2, <1>3, <1>4, <1>5, <1>6, <1>7, <1>8 DEF Next, Discover

\* A repository at rest satisfies it.
LEMMA InitInv == Init => IInv
<1> SUFFICES ASSUME Init PROVE IInv
  OBVIOUS
<1> USE DEF Init
<1>1. /\ disk \in Snapshots /\ newest = 1
      /\ nodes = [f \in Files |-> IF f \in Steady THEN 1 ELSE 0] /\ hashes = nodes
      /\ embedded = Steady /\ edges = Refs \cap (Steady \X Steady)
      /\ ready \in BOOLEAN /\ job = NoJob /\ pass = Idle /\ doubted = {}
      /\ edits = 0 /\ requests = 0 /\ faults = 0 /\ crashes = 0
  BY EmptyFacts DEF Snapshots
<1> HIDE DEF Init
<1>2. nodes \in Snapshots
  BY <1>1, EmptyFacts DEF Snapshots
<1>3. Present(nodes) = Steady
  <2>1. \A f \in Files : nodes[f] = IF f \in Steady THEN 1 ELSE 0
    BY <1>1
  <2>2. Steady \subseteq Files
    BY PipelineAssumption
  <2> QED BY <2>1, <2>2 DEF Present
<1>4. /\ \A n \in Nat : 0 \in 0 .. n
      /\ {MaxEdits, MaxRequests, MaxFaults, MaxCrashes} \subseteq Nat
      /\ 1 \in Contents \ {0}
  BY EmptyFacts, PipelineAssumption
<1>5. Idle.pc = "idle"
  BY DEF Idle
<1>6. TypeOK
  <2>1. /\ pass \in Passes /\ job \in Jobs
        /\ pass.pc = "idle" /\ job.status # "running"
    BY <1>1, <1>5, IdleFacts
  <2>2. /\ embedded \subseteq Present(nodes)
        /\ edges \subseteq Present(nodes) \X Present(nodes)
    BY <1>1, <1>3
  <2>3. hashes \in Snapshots
    BY <1>1, <1>2
  <2> QED BY <1>1, <1>2, <1>4, <2>1, <2>2, <2>3 DEF TypeOK
<1>7. PassShape /\ StructureStored /\ PlanStored
  BY <1>1 DEF PassShape, StructureStored, PlanStored, Idle, Replacing, Enriching
<1>8. ForceShape /\ CheckpointIsTrue
  BY <1>1 DEF ForceShape, CheckpointIsTrue, Idle, NoJob
<1> QED BY <1>6, <1>7, <1>8 DEF IInv

\* The invariant holds in every reachable state.
THEOREM PassCorrect == Spec => []IInv
  BY InitInv, InvStep, PTL DEF Spec

\* Vectors and relationships never outlive the nodes they belong to, whatever
\* cuts a pass off (part of the type invariant).
THEOREM TypeCorrect == Spec => []TypeOK
<1>1. IInv => TypeOK
  BY DEF IInv
<1> QED BY <1>1, PassCorrect, PTL

\* What the manifest of a force job calls acknowledged is in the graph, although
\* the manifest and the graph are in two databases.
THEOREM CheckpointsAreTrue == Spec => []CheckpointIsTrue
<1>1. IInv => CheckpointIsTrue
  BY DEF IInv
<1> QED BY <1>1, PassCorrect, PTL

\* Only these two steps touch the records of the graph.
LEMMA HashesChange == [Next]_vars => Acknowledge \/ DeleteRecords \/ hashes' = hashes
<1> SUFFICES ASSUME [Next]_vars, ~Acknowledge, ~DeleteRecords
             PROVE  hashes' = hashes
  OBVIOUS
<1> USE DEF graph
<1>1. CASE \E f \in Files, c \in Contents : Edit(f, c)
  BY <1>1 DEF Edit
<1>2. CASE \E mode \in Modes, F, D \in SUBSET Files : Request(mode, F, D)
  BY <1>2 DEF Request
<1>3. CASE Start \/ FreezeManifest \/ DeleteNodes \/ Parse \/ DeleteReplaced
  BY <1>3 DEF Start, FreezeManifest, DeleteNodes, Parse, DeleteReplaced
<1>4. CASE UpsertNodes \/ UpsertEdges \/ Embed \/ Checkpoint \/ IngestedEntries
  BY <1>4 DEF UpsertNodes, UpsertEdges, Embed, Checkpoint, IngestedEntries
<1>5. CASE EmbeddingFails \/ CheckSources
  BY <1>5 DEF EmbeddingFails, CheckSources, Degrade
<1>6. CASE DiscoverAll \/ DiscoverListed \/ DiscoverFrozen
  BY <1>6 DEF DiscoverAll, DiscoverListed, DiscoverFrozen
<1>7. CASE SnapshotDrifted \/ DegradedPass \/ Succeed \/ Raise \/ Cancelled \/ Crash
  BY <1>7 DEF SnapshotDrifted, DegradedPass, Succeed, Raise, Cancelled, Crash, FailOrRetry
<1>8. CASE UNCHANGED vars
  BY <1>8 DEF vars
<1> QED BY <1>1, <1>2, <1>3, <1>4, <1>5, <1>6, <1>7, <1>8
        DEF Next, Discover, Delete, Replace, Enrich

\* What an acknowledgement finds stored.
LEMMA DurableStep ==
  ASSUME IInv, [Next]_vars, NEW f \in Files, hashes'[f] \notin {0, hashes[f]}
  PROVE  /\ nodes[f] = hashes'[f]
         /\ f \in embedded
         /\ \A e \in Refs : e[1] = f /\ nodes[e[2]] # 0 => e \in edges
<1> USE DEF IInv
<1>1. ~DeleteRecords
  BY DEF DeleteRecords, TypeOK, Snapshots
<1>2. Acknowledge
  BY <1>1, HashesChange
<1>3. pass.pc = "acknowledge" /\ f \in Batch(pass.left) /\ hashes'[f] = pass.entries[f]
  BY <1>2 DEF Acknowledge, At
<1>4. f \in pass.parsed
  BY <1>3, BatchFacts DEF PassShape
<1>5. nodes[f] = pass.entries[f] /\ f \in embedded
  BY <1>3, <1>4 DEF StructureStored, Enriching
<1>6. \A e \in Refs : e[1] = f /\ nodes[e[2]] # 0 => e \in edges
  BY <1>3, <1>4 DEF PlanStored, Enriching
<1> QED BY <1>3, <1>5, <1>6

\* A recorded hash proves stored nodes, vectors and relationships, for any
\* batch size and through every cut and retry.
THEOREM AcknowledgementsAreDurable == Spec => AcknowledgedIsDurable
<1>1. IInv /\ [Next]_vars =>
        [\A f \in Files : hashes'[f] \notin {0, hashes[f]} =>
           /\ nodes[f] = hashes'[f]
           /\ f \in embedded
           /\ \A e \in Refs : e[1] = f /\ nodes[e[2]] # 0 => e \in edges]_vars
  BY DurableStep
<1> QED BY <1>1, PassCorrect, PTL DEF Spec, AcknowledgedIsDurable

\* A force job acknowledges what its manifest names.
LEMMA SnapshotStep ==
  ASSUME IInv, [Next]_vars, job.mode = "force_full", NEW f \in Files
  PROVE  hashes'[f] \in {hashes[f], job.manifest[f]}
<1> USE DEF IInv
<1>1. ~DeleteRecords
  BY DEF DeleteRecords, At, ForceShape
<1>2. CASE Acknowledge
  <2>1. /\ pass.pc = "acknowledge"
        /\ \/ f \in Batch(pass.left) /\ hashes'[f] = pass.entries[f]
           \/ hashes'[f] = hashes[f]
    BY <1>2 DEF Acknowledge, At
  <2>2. f \in Batch(pass.left) => f \in pass.changed
    BY BatchFacts DEF PassShape
  <2> QED BY <2>1, <2>2 DEF ForceShape
<1> QED BY <1>1, <1>2, HashesChange

\* However the sources change between its attempts, a force job acknowledges
\* no content that its frozen manifest does not name.
THEOREM ForceKeepsToItsSnapshot == Spec => ForceAcksItsSnapshot
<1>1. IInv /\ [Next]_vars =>
        [job.status = "running" /\ job.mode = "force_full" =>
           \A f \in Files : hashes'[f] \in {hashes[f], job.manifest[f]}]_vars
  BY SnapshotStep
<1> QED BY <1>1, PassCorrect, PTL DEF Spec, ForceAcksItsSnapshot

\* Readiness is published by a success only.
LEMMA OnlySuccessPublishes == [Next]_vars /\ Publishes => Succeed
<1> SUFFICES ASSUME [Next]_vars, ready' # ready, ~Succeed, ~Start PROVE FALSE
  BY DEF Publishes, Start
<1>1. CASE \E f \in Files, c \in Contents : Edit(f, c)
  BY <1>1 DEF Edit
<1>2. CASE \E mode \in Modes, F, D \in SUBSET Files : Request(mode, F, D)
  BY <1>2 DEF Request
<1>3. CASE FreezeManifest \/ DeleteNodes \/ DeleteRecords \/ Parse \/ DeleteReplaced
  BY <1>3 DEF FreezeManifest, DeleteNodes, DeleteRecords, Parse, DeleteReplaced
<1>4. CASE UpsertNodes \/ UpsertEdges \/ Embed \/ Acknowledge \/ Checkpoint \/ IngestedEntries
  BY <1>4 DEF UpsertNodes, UpsertEdges, Embed, Acknowledge, Checkpoint, IngestedEntries
<1>5. CASE EmbeddingFails \/ CheckSources
  BY <1>5 DEF EmbeddingFails, CheckSources, Degrade
<1>6. CASE DiscoverAll \/ DiscoverListed \/ DiscoverFrozen
  BY <1>6 DEF DiscoverAll, DiscoverListed, DiscoverFrozen
<1>7. CASE SnapshotDrifted \/ DegradedPass \/ Raise \/ Cancelled \/ Crash
  BY <1>7 DEF SnapshotDrifted, DegradedPass, Raise, Cancelled, Crash, FailOrRetry
<1>8. CASE UNCHANGED vars
  BY <1>8 DEF vars
<1> QED BY <1>1, <1>2, <1>3, <1>4, <1>5, <1>6, <1>7, <1>8
        DEF Next, Discover, Delete, Replace, Enrich

\* A successful force job has come to the end of its manifest.
LEMMA CoverStep ==
  ASSUME IInv, [Next]_vars, Publishes, job.mode = "force_full"
  PROVE  Present(job.manifest) \subseteq job.acked \cup Failed
<1> USE DEF IInv
<1>1. pass.pc = "sweep" /\ pass.ingested /\ ~pass.degraded
  BY OnlySuccessPublishes DEF Succeed, Ingested, At
<1>2. /\ Present(job.manifest) \subseteq job.acked \cup pass.changed
      /\ pass.parsed \subseteq job.acked
  BY <1>1 DEF ForceShape
<1> QED BY <1>2 DEF Failed

\* No target of the manifest is skipped, whatever retries, deaths and batches
\* the force job went through.
THEOREM ForceIsComplete == Spec => ForceCoversItsManifest
<1>1. IInv /\ [Next]_vars =>
        [Publishes /\ job.mode = "force_full" =>
           Present(job.manifest) \subseteq job.acked \cup Failed]_vars
  BY CoverStep
<1> QED BY <1>1, PassCorrect, PTL DEF Spec, ForceCoversItsManifest

(***************************************************************************)
(* Full passes.                                                            *)
(***************************************************************************)

\* A full pass discovers every source, and dooms what is not one.
LEMMA FullBegins ==
  ASSUME IInv, DiscoverAll \/ DiscoverListed \/ DiscoverFrozen
  PROVE  FullShape'
<1> USE DEF IInv
<1>1. CASE DiscoverAll
  <2>1. /\ disk \in Snapshots /\ Changed(disk) \subseteq Present(disk)
        /\ Sweepable(disk) \subseteq Files
    BY DEF TypeOK, Changed, Sweepable, Present
  <2>2. /\ pass'.pc = "sweep" /\ pass'.entries = disk
        /\ pass'.changed = Changed(disk) /\ pass'.doomed = Sweepable(disk)
        /\ pass'.parsed = {} /\ pass'.left = {}
        /\ ~pass'.ingested /\ ~pass'.degraded
        /\ UNCHANGED graph
    <3>1. Begin(disk, Changed(disk), Sweepable(disk)) /\ UNCHANGED graph
      BY <1>1 DEF DiscoverAll
    <3> QED BY <2>1, <3>1, BeginFacts
  <2>3. Sweepable(disk) \cap Present(disk) = {}
    BY DEF Sweepable
  <2>4. ASSUME NEW f \in Files
        PROVE  /\ disk[f] = 0 => f \in Sweepable(disk) \/ (nodes[f] = 0 /\ hashes[f] = 0)
               /\ f \in Present(disk) \ Changed(disk) =>
                    hashes[f] = disk[f] /\ (nodes[f] = 0 \/ f \in embedded)
    BY DEF Sweepable, Changed, MissingEmbeddings, Present
  <2> QED BY <2>2, <2>3, <2>4 DEF FullShape, Replacing, Enriching, graph
<1>2. CASE DiscoverListed \/ DiscoverFrozen
  BY <1>2 DEF DiscoverListed, DiscoverFrozen, FullShape
<1> QED BY <1>1, <1>2

\* The sweep takes nodes and records of doomed files only.
LEMMA FullSweeps == ASSUME IInv, FullShape, DeleteNodes \/ DeleteRecords PROVE FullShape'
<1> USE DEF IInv
<1> DEFINE batch == Batch(pass.doomed)
<1>1. /\ batch \subseteq pass.doomed /\ pass.doomed \subseteq Files
      /\ job' = job
    BY BatchFacts DEF TypeOK, Passes, DeleteNodes, DeleteRecords
<1> SUFFICES ASSUME job.mode = "full" PROVE FullShape'
  BY <1>1 DEF FullShape
<1>2. CASE DeleteNodes
  <2>1. /\ Drop(batch) /\ pass.pc = "sweep" /\ pass.doomed # {}
        /\ Goto("forget") /\ "forget" \in Positions /\ UNCHANGED hashes
    BY <1>2 DEF DeleteNodes, At, Positions
  <2>2. \A f \in batch : nodes'[f] = 0
    BY <1>1, <2>1 DEF Drop
  <2>3. ~pass.ingested
    BY <2>1 DEF FullShape
  <2>4. Batch(pass'.doomed) = batch
    BY <2>1, GotoFacts
  <2> HIDE DEF batch
  <2>5. ASSUME NEW f \in Files
        PROVE  /\ pass.entries[f] = 0 => f \in pass.doomed \/ (nodes'[f] = 0 /\ hashes'[f] = 0)
               /\ f \in Present(pass.entries) \ pass.changed =>
                    hashes'[f] = pass.entries[f] /\ (nodes'[f] = 0 \/ f \in embedded')
    <3>1. nodes'[f] = nodes[f] \/ nodes'[f] = 0
      BY <2>1, DropFacts DEF Drop
    <3>2. f \in Present(pass.entries) => f \notin batch
      BY <1>1, <2>1 DEF FullShape
    <3>3. f \in Present(pass.entries) /\ f \in embedded => f \in embedded'
      BY <2>1, <3>2, DropFacts
    <3> QED BY <2>1, <3>1, <3>3 DEF FullShape
  <2> QED BY <2>1, <2>2, <2>3, <2>4, <2>5, GotoFacts DEF FullShape, Replacing, Enriching
<1>3. CASE DeleteRecords
  <2>1. /\ pass.pc = "forget"
        /\ hashes' = [f \in Files |-> IF f \in batch THEN 0 ELSE hashes[f]]
        /\ pass' = [pass EXCEPT !.pc = "sweep", !.doomed = @ \ batch]
        /\ UNCHANGED <<nodes, embedded>>
    BY <1>3 DEF DeleteRecords, At
  <2>2. \A f \in batch : nodes[f] = 0
    BY <2>1 DEF FullShape
  <2> HIDE DEF batch
  <2>3. /\ pass'.pc = "sweep" /\ pass'.entries = pass.entries
        /\ pass'.changed = pass.changed /\ pass'.doomed = pass.doomed \ batch
        /\ pass'.parsed = pass.parsed /\ pass'.left = pass.left
        /\ pass'.ingested = pass.ingested /\ pass'.degraded = pass.degraded
    BY <2>1 DEF TypeOK, Passes
  <2>4. pass.ingested => pass.doomed = {}
    BY <2>1 DEF FullShape
  <2>5. \A f \in Files : hashes'[f] = IF f \in batch THEN 0 ELSE hashes[f]
    BY <2>1
  <2>6. ASSUME NEW f \in Files
        PROVE  /\ pass.entries[f] = 0 =>
                    f \in pass.doomed \ batch \/ (nodes[f] = 0 /\ hashes'[f] = 0)
               /\ f \in Present(pass.entries) \ pass.changed =>
                    hashes'[f] = pass.entries[f] /\ (nodes[f] = 0 \/ f \in embedded)
               /\ f \in pass.parsed /\ ~pass.degraded /\ pass.ingested =>
                    f \in pass.left \/ (/\ nodes[f] = pass.entries[f]
                                        /\ hashes'[f] = pass.entries[f]
                                        /\ pass.entries[f] # 0 => f \in embedded)
    <3>1. f \in Present(pass.entries) => f \notin batch
      BY <1>1, <2>1 DEF FullShape
    <3>2. pass.ingested => f \notin batch
      BY <1>1, <2>4
    <3> QED BY <2>1, <2>2, <2>5, <3>1, <3>2 DEF FullShape, Exact
  <2>7. pass'.doomed \cap Present(pass'.entries) = {}
    BY <2>1, <2>3 DEF FullShape
  <2>8. /\ pass'.pc \in Replacing \cup Enriching \/ pass'.ingested => pass'.doomed = {}
        /\ pass'.ingested /\ ~pass'.degraded => pass'.left = {}
    BY <2>1, <2>3, <2>4 DEF FullShape, Replacing, Enriching
  <2> QED BY <2>1, <2>3, <2>6, <2>7, <2>8 DEF FullShape, Exact, Replacing, Enriching
<1> QED BY <1>2, <1>3

\* Replacing concerns the parsed files, which are among the changed ones.
LEMMA FullReplaces == ASSUME IInv, FullShape, Replace PROVE FullShape'
<1> USE DEF IInv
<1>1. /\ job' = job /\ UNCHANGED hashes
      /\ pass.pc \in {"sweep"} \cup Replacing
      /\ pass.pc = "sweep" => pass.doomed = {} /\ ~pass.ingested
  BY DEF Replace, Parse, DeleteReplaced, UpsertNodes, UpsertEdges, At, Replacing, graph
<1> SUFFICES ASSUME job.mode = "full" PROVE FullShape'
  BY <1>1 DEF FullShape
<1>2. pass.doomed = {} /\ ~pass.ingested
  BY <1>1 DEF FullShape, Replacing
<1>3. /\ pass'.pc \in Replacing \cup {"embed"}
      /\ pass'.entries = pass.entries /\ pass'.changed = pass.changed
      /\ pass'.doomed = {} /\ ~pass'.ingested /\ pass'.degraded = pass.degraded
      /\ pass'.left = pass'.parsed
  <2>1. CASE Parse
    <3> DEFINE parsed == {f \in pass.changed : /\ disk[f] = pass.entries[f]
                                               /\ disk[f] \notin Unparsable}
               plan == PlannedEdges(parsed) \cup RetainedInboundEdges(parsed)
    <3>1. pass' = [pass EXCEPT !.pc = "delete", !.parsed = parsed,
                               !.left = parsed, !.plan = plan]
      BY <2>1 DEF Parse
    <3> HIDE DEF parsed, plan
    <3> QED BY <1>2, <3>1 DEF TypeOK, Passes, Replacing
  <2>2. CASE DeleteReplaced
    BY <1>2, <2>2, GotoFacts DEF DeleteReplaced, FullShape, At, Positions, Replacing
  <2>3. CASE UpsertNodes
    BY <1>2, <2>3, GotoFacts DEF UpsertNodes, FullShape, At, Positions, Replacing
  <2>4. CASE UpsertEdges
    BY <1>2, <2>4, GotoFacts DEF UpsertEdges, FullShape, At, Positions, Replacing
  <2> QED BY <2>1, <2>2, <2>3, <2>4 DEF Replace
<1>4. ASSUME NEW f \in Files \ pass.changed
      PROVE  nodes'[f] = nodes[f] /\ (f \in embedded => f \in embedded')
  <2>1. f \notin pass.parsed
    BY DEF PassShape
  <2> QED BY <2>1 DEF Replace, Parse, DeleteReplaced, UpsertNodes, UpsertEdges, Drop, graph
<1>5. pass.changed \subseteq Present(pass.entries)
  BY DEF PassShape
<1>6. ASSUME NEW f \in Files
      PROVE  /\ pass.entries[f] = 0 => nodes'[f] = 0 /\ hashes'[f] = 0
             /\ f \in Present(pass.entries) \ pass.changed =>
                  hashes'[f] = pass.entries[f] /\ (nodes'[f] = 0 \/ f \in embedded')
  <2>1. pass.entries[f] = 0 => f \notin pass.changed /\ nodes[f] = 0 /\ hashes[f] = 0
    BY <1>1, <1>2, <1>5 DEF FullShape, Present, Replacing
  <2>2. f \in Present(pass.entries) \ pass.changed =>
          hashes[f] = pass.entries[f] /\ (nodes[f] = 0 \/ f \in embedded)
    BY <1>1 DEF FullShape, Replacing
  <2> QED BY <1>1, <1>4, <2>1, <2>2
<1> QED BY <1>3, <1>6 DEF FullShape, Replacing, Enriching

\* Batches: what leaves the list is exact.
LEMMA FullEnriches ==
  ASSUME IInv, FullShape, Enrich \/ IngestedEntries
  PROVE  FullShape'
<1> USE DEF IInv
<1> DEFINE batch == Batch(pass.left)
<1>1. CASE Checkpoint
  <2>1. job.mode = "force_full" /\ job'.mode = job.mode
    BY <1>1 DEF Checkpoint, At, StructureStored, TypeOK, Jobs
  <2> QED BY <2>1 DEF FullShape
<1>2. CASE ~Checkpoint
  <2>1. job' = job /\ UNCHANGED nodes
    BY <1>2 DEF Enrich, Embed, EmbeddingFails, CheckSources, Degrade, Acknowledge,
                IngestedEntries, graph
  <2> SUFFICES ASSUME job.mode = "full" PROVE FullShape'
    BY <2>1 DEF FullShape
  <2>2. batch \subseteq pass.left /\ pass.left \subseteq pass.parsed
    BY BatchFacts DEF PassShape
  <2>3. CASE Embed \/ (CheckSources /\ ~(Degrade /\ UNCHANGED faults))
    <3>1. /\ pass.pc \in Enriching /\ UNCHANGED hashes /\ embedded \subseteq embedded'
          /\ Goto("check") \/ Goto("acknowledge")
          /\ {"check", "acknowledge"} \subseteq Positions \cap Enriching
      BY <2>3 DEF Embed, CheckSources, At, Enriching, Positions, graph
    <3>2. /\ pass'.pc \in {"check", "acknowledge"}
          /\ pass'.parsed = pass.parsed /\ pass'.left = pass.left
          /\ pass'.changed = pass.changed /\ pass'.entries = pass.entries
          /\ pass'.doomed = pass.doomed /\ pass'.ingested = pass.ingested
          /\ pass'.degraded = pass.degraded
      BY <3>1, GotoFacts
    <3> QED BY <2>1, <3>1, <3>2 DEF FullShape, Exact, Replacing, Enriching
  <2>4. CASE EmbeddingFails \/ (CheckSources /\ Degrade /\ UNCHANGED faults)
    <3>1. /\ pass.pc \in {"embed", "check"} /\ UNCHANGED graph
          /\ pass'.pc = "embed" /\ pass'.left = {} /\ pass'.degraded
          /\ pass'.parsed = pass.parsed
          /\ pass'.changed = pass.changed /\ pass'.entries = pass.entries
          /\ pass'.doomed = pass.doomed /\ pass'.ingested = pass.ingested
      BY <2>4 DEF EmbeddingFails, CheckSources, At, Degrade, TypeOK, Passes, graph
    <3> QED BY <3>1 DEF FullShape, Exact, Replacing, Enriching, graph
  <2>5. CASE Acknowledge
    <3>1. /\ pass.pc = "acknowledge" /\ UNCHANGED embedded
          /\ hashes' = [f \in Files |-> IF f \in batch THEN pass.entries[f] ELSE hashes[f]]
          /\ pass' = [pass EXCEPT !.pc = "embed", !.left = @ \ batch]
      BY <2>5 DEF Acknowledge, At
    <3>2. \A f \in batch : nodes[f] = pass.entries[f] /\ f \in embedded
      BY <2>2, <3>1 DEF StructureStored, Enriching
    <3> HIDE DEF batch
    <3>3. /\ pass'.pc = "embed" /\ pass'.left = pass.left \ batch
          /\ pass'.parsed = pass.parsed
          /\ pass'.changed = pass.changed /\ pass'.entries = pass.entries
          /\ pass'.doomed = pass.doomed /\ pass'.ingested = pass.ingested
          /\ pass'.degraded = pass.degraded
      BY <3>1 DEF TypeOK, Passes
    <3>4. batch \subseteq pass.changed /\ pass.changed \subseteq Present(pass.entries)
      BY <2>2 DEF PassShape
    <3>5. pass.doomed = {} /\ ~pass.ingested
      BY <3>1 DEF FullShape, Enriching
    <3>6. ASSUME NEW f \in Files
          PROVE  /\ pass.entries[f] = 0 => nodes[f] = 0 /\ hashes'[f] = 0
                 /\ f \in Present(pass.entries) \ pass.changed =>
                      hashes'[f] = pass.entries[f] /\ (nodes[f] = 0 \/ f \in embedded)
                 /\ f \in pass.parsed /\ ~pass.degraded =>
                      f \in pass.left \ batch \/ (/\ nodes[f] = pass.entries[f]
                                                  /\ hashes'[f] = pass.entries[f]
                                                  /\ pass.entries[f] # 0 => f \in embedded)
      <4>1. hashes'[f] = IF f \in batch THEN pass.entries[f] ELSE hashes[f]
        BY <3>1
      <4>2. /\ pass.entries[f] = 0 => nodes[f] = 0 /\ hashes[f] = 0
            /\ f \in Present(pass.entries) \ pass.changed =>
                 hashes[f] = pass.entries[f] /\ (nodes[f] = 0 \/ f \in embedded)
            /\ f \in pass.parsed /\ ~pass.degraded =>
                 f \in pass.left \/ (/\ nodes[f] = pass.entries[f]
                                     /\ hashes[f] = pass.entries[f]
                                     /\ pass.entries[f] # 0 => f \in embedded)
        BY <3>1, <3>5 DEF FullShape, Exact, Enriching
      <4> QED BY <3>2, <3>4, <4>1, <4>2
    <3> QED BY <2>1, <3>1, <3>3, <3>5, <3>6 DEF FullShape, Exact, Replacing, Enriching
  <2>6. CASE IngestedEntries
    <3>1. /\ pass' = [pass EXCEPT !.pc = "sweep", !.ingested = TRUE, !.doomed = {}]
          /\ UNCHANGED graph
          /\ \/ pass.pc = "embed" /\ pass.left = {}
             \/ pass.pc = "sweep" /\ pass.doomed = {} /\ pass.changed = {}
      <4>1. (IF job.mode = "files" THEN job.deleted ELSE {}) = {}
        OBVIOUS
      <4> QED BY <2>6, <4>1 DEF IngestedEntries, At
    <3>2. /\ pass'.pc = "sweep" /\ pass'.ingested /\ pass'.doomed = {}
          /\ pass'.parsed = pass.parsed /\ pass'.left = pass.left
          /\ pass'.changed = pass.changed /\ pass'.entries = pass.entries
          /\ pass'.degraded = pass.degraded
      BY <3>1 DEF TypeOK, Passes
    <3>3. pass.doomed = {} /\ pass.left = {}
      BY <3>1 DEF FullShape, PassShape, Enriching
    <3>4. pass.pc = "sweep" => pass.parsed = {}
      BY <3>1 DEF PassShape
    <3> QED BY <3>1, <3>2, <3>3, <3>4 DEF FullShape, Exact, Replacing, Enriching, graph
  <2> QED BY <1>2, <2>3, <2>4, <2>5, <2>6 DEF Enrich
<1> QED BY <1>1, <1>2

\* Every step keeps the shape of a full pass.
LEMMA FullStep == IInv /\ FullShape /\ [Next]_vars => FullShape'
<1> SUFFICES ASSUME IInv, FullShape, [Next]_vars PROVE FullShape'
  OBVIOUS
<1>1. CASE \E f \in Files, c \in Contents : Edit(f, c)
  BY <1>1 DEF Edit, FullShape, Exact, Present, Batch, graph
<1>2. CASE \E mode \in Modes, F, D \in SUBSET Files : Request(mode, F, D)
  <2>1. pass.pc = "idle" /\ pass' = pass
    BY <1>2 DEF Request, IInv, TypeOK
  <2> QED BY <2>1 DEF FullShape
<1>3. CASE Start
  BY <1>3, GotoFacts DEF Start, IInv, Positions, FullShape
<1>4. CASE FreezeManifest
  BY <1>4 DEF FreezeManifest, At, FullShape
<1>5. CASE DiscoverAll \/ DiscoverListed \/ DiscoverFrozen
  BY <1>5, FullBegins
<1>6. CASE Delete
  BY <1>6, FullSweeps DEF Delete
<1>7. CASE Replace
  BY <1>7, FullReplaces
<1>8. CASE Enrich \/ IngestedEntries
  BY <1>8, FullEnriches
<1>9. CASE SnapshotDrifted \/ DegradedPass \/ Succeed \/ Raise \/ Cancelled \/ Crash
  BY <1>9, EndSteps DEF IInv, Ends, Idle, FullShape
<1>10. CASE UNCHANGED vars
  BY <1>10 DEF vars, FullShape, Exact, Present, Batch, graph
<1> QED BY <1>1, <1>2, <1>3, <1>4, <1>5, <1>6, <1>7, <1>8, <1>9, <1>10 DEF Next, Discover

\* A full pass that ends well.
LEMMA FullEnds ==
  ASSUME IInv, FullShape, [Next]_vars, Publishes, job.mode = "full", NEW f \in Files \ Failed
  PROVE  \/ Exact(f)
         \/ /\ f \in Present(pass.entries) \ pass.changed
            /\ hashes[f] = pass.entries[f]
<1>1. /\ pass.pc = "sweep" /\ pass.ingested /\ ~pass.degraded /\ pass.doomed = {}
  BY OnlySuccessPublishes DEF Succeed, Ingested, At
<1>2. CASE pass.entries[f] = 0
  BY <1>1, <1>2 DEF FullShape, Exact
<1>3. CASE f \in Present(pass.entries) \ pass.changed
  BY <1>1, <1>3 DEF FullShape
<1>4. CASE f \in pass.parsed
  BY <1>1, <1>4 DEF FullShape
<1> QED BY <1>2, <1>3, <1>4 DEF Failed, Present

\* Whatever the modes, edits, failures and deaths, each file stands where FullShape
\* says while a full pass runs: gone or doomed, left alone under a record of what
\* was discovered, still to be acknowledged, or exact (pipeline.py:357-461).
THEOREM FullPassesKeepTheirShape == Spec => []FullShape
<1>1. Init => FullShape
  BY DEF Init, Idle, FullShape
<1> QED BY <1>1, FullStep, PassCorrect, PTL DEF Spec

\* The end of a full pass is exact for all it worked on and all it swept; for the
\* rest it is as good as the records it found (pipeline.py:369).
THEOREM FullPassesDoTheirPart == Spec => FullPassTrustsOnlyRecords
<1>1. IInv /\ FullShape /\ [Next]_vars =>
        [Publishes /\ job.mode = "full" =>
           \A f \in Files \ Failed :
             Exact(f) \/ (f \in Present(pass.entries) /\ hashes[f] = pass.entries[f])]_vars
  BY FullEnds
<1> QED BY <1>1, FullPassesKeepTheirShape, PassCorrect, PTL DEF Spec, FullPassTrustsOnlyRecords

(***************************************************************************)
(* Records that can be trusted.                                            *)
(***************************************************************************)

\* An edit gives a file another content than its record names, none, or doubt.
LEMMA TrustEdits ==
  ASSUME IInv, RecordsAreTrusted, NEW g \in Files, NEW c \in Contents, Edit(g, c)
  PROVE  RecordsAreTrusted'
<1>1. /\ doubted \subseteq doubted'
      /\ UNCHANGED <<nodes, embedded, hashes, job, pass>>
  BY DEF Edit
<1>2. ASSUME NEW f \in Files \ doubted', disk'[f] # 0, hashes[f] = disk'[f]
      PROVE  disk'[f] = disk[f]
  <2>1. disk' = [disk EXCEPT ![g] = c] /\ disk \in [Files -> Contents]
    BY DEF Edit, IInv, TypeOK, Snapshots
  <2>2. f = g => disk'[f] = c
    BY <2>1
  <2>3. f # g
    BY <1>2, <2>2 DEF Edit
  <2> QED BY <2>1, <2>3
<1>3. BeforeBatches' <=> BeforeBatches
  BY <1>1 DEF BeforeBatches
<1> QED BY <1>1, <1>2, <1>3 DEF RecordsAreTrusted

\* Steps that leave the contents alone and say little of the pass.
LEMMA TrustRests ==
  ASSUME IInv, RecordsAreTrusted, UNCHANGED <<disk, graph>>,
         \/ pass'.pc \in {"idle", "opened"} \cup Enriching
         \/ pass'.pc = "sweep" /\ pass'.ingested,
         \/ pass' = Idle
         \/ /\ pass'.ingested \/ (pass'.doomed \subseteq pass.doomed
                                  /\ pass'.ingested = pass.ingested)
            /\ pass'.pc \in Enriching => pass'.doomed = {}
            /\ \/ pass'.pc \in {"idle", "opened"}
               \/ /\ pass.pc \notin {"idle", "opened"} /\ job'.mode = job.mode
                  /\ pass'.changed = pass.changed /\ pass'.entries = pass.entries
  PROVE  RecordsAreTrusted'
<1>1. UNCHANGED <<disk, nodes, embedded, hashes, doubted>>
  BY DEF graph
<1>2. ~BeforeBatches' /\ pass'.pc \notin Replacing /\ pass'.pc # "nodes"
  <2>1. ~(pass'.pc \in {"sweep", "forget"} /\ ~pass'.ingested)
    BY DEF Enriching
  <2> QED BY <2>1 DEF BeforeBatches, Replacing, Enriching
<1>3. CASE pass' = Idle
  <2>1. pass'.pc = "idle" /\ pass'.doomed = {}
    BY <1>3 DEF Idle
  <2> QED BY <1>1, <1>2, <2>1 DEF RecordsAreTrusted
<1>4. CASE pass' # Idle
  BY <1>1, <1>2, <1>4 DEF RecordsAreTrusted
<1> QED BY <1>3, <1>4

\* A discovery under trust: what it takes up without force has another record,
\* and what it leaves alone is stored as it found it.
LEMMA TrustBegins ==
  ASSUME IInv, RecordsAreTrusted, DiscoverAll \/ DiscoverListed \/ DiscoverFrozen
  PROVE  RecordsAreTrusted'
<1> USE DEF IInv
<1>1. UNCHANGED <<disk, nodes, embedded, hashes, doubted, job>>
  BY DEF DiscoverAll, DiscoverListed, DiscoverFrozen, graph
<1>2. ASSUME NEW entries \in Snapshots, NEW changed \in SUBSET Present(entries),
             NEW doomed \in SUBSET Files,
             \A f \in Files : entries[f] \in {0, disk[f]},
             \A f \in doomed : disk[f] = 0,
             job.mode # "force_full" => changed = Changed(entries),
             job.mode = "full" => entries = disk,
             Begin(entries, changed, doomed)
      PROVE  RecordsAreTrusted'
  <2>1. /\ pass'.pc = "sweep" /\ pass'.entries = entries
        /\ pass'.changed = changed /\ pass'.doomed = doomed
    BY <1>2, BeginFacts
  <2>2. pass'.pc \notin Replacing \cup Enriching /\ pass'.pc # "nodes"
    BY <2>1 DEF Replacing, Enriching
  <2>3. ASSUME NEW f \in Files \ doubted, disk[f] # 0, hashes[f] = disk[f]
        PROVE  /\ nodes[f] = disk[f] /\ f \in embedded
               /\ f \notin doomed
               /\ f \in changed => job.mode = "force_full"
    <3>1. nodes[f] = disk[f] /\ f \in embedded
      BY <2>3 DEF RecordsAreTrusted
    <3>2. f \in Changed(entries) => hashes[f] # entries[f] /\ entries[f] # 0
      BY <3>1 DEF Changed, MissingEmbeddings, Present
    <3> QED BY <1>2, <2>3, <3>1, <3>2
  <2>4. ASSUME NEW f \in Files \ doubted, job.mode = "full",
               f \in Present(entries) \ changed
        PROVE  nodes[f] = entries[f]
    <3>1. entries[f] = disk[f] /\ disk[f] # 0 /\ hashes[f] = entries[f]
      BY <1>2, <2>4 DEF Changed, Present
    <3> QED BY <2>3, <3>1
  <2> QED BY <1>1, <2>1, <2>2, <2>3, <2>4 DEF RecordsAreTrusted
<1>3. CASE DiscoverAll
  <2>1. /\ disk \in Snapshots /\ Sweepable(disk) \in SUBSET Files
        /\ Changed(disk) \in SUBSET Present(disk)
        /\ \A f \in Sweepable(disk) : disk[f] = 0
    BY DEF TypeOK, Sweepable, Present, Changed
  <2>2. Begin(disk, Changed(disk), Sweepable(disk))
    BY <1>3 DEF DiscoverAll
  <2> QED BY <1>2, <2>1, <2>2
<1>4. CASE DiscoverListed
  <2> DEFINE listed == [f \in Files |-> IF f \in job.files THEN disk[f] ELSE 0]
  <2>1. listed \in Snapshots /\ \A f \in Files : listed[f] \in {0, disk[f]}
    BY EmptyFacts DEF TypeOK, Snapshots
  <2>2. Begin(listed, Changed(listed), {}) /\ job.mode # "full"
    BY <1>4 DEF DiscoverListed
  <2> HIDE DEF listed
  <2>3. Changed(listed) \in SUBSET Present(listed)
    BY DEF Changed
  <2> QED BY <1>2, <2>1, <2>2, <2>3
<1>5. CASE DiscoverFrozen
  <2> DEFINE left == [f \in Files |-> IF f \in Pending THEN job.manifest[f] ELSE 0]
  <2>1. /\ left \in Snapshots
        /\ \A f \in Files : left[f] \in {0, disk[f]}
        /\ Pending \in SUBSET Present(left)
    <3>1. job.manifest \in Snapshots
      BY DEF TypeOK, Jobs
    <3>2. \A f \in Pending : f \in Files /\ disk[f] = job.manifest[f] /\ job.manifest[f] # 0
      BY <1>5 DEF DiscoverFrozen, Pending, Present
    <3> QED BY <3>1, <3>2, EmptyFacts DEF Snapshots, Present
  <2>2. Begin(left, Pending, {}) /\ job.mode = "force_full"
    BY <1>5 DEF DiscoverFrozen
  <2> HIDE DEF left
  <2> QED BY <1>2, <2>1, <2>2
<1> QED BY <1>3, <1>4, <1>5

\* The sweep takes what is gone, or has come back with another content; what it
\* takes for a client is doubted until its record is gone too.
LEMMA TrustSweeps ==
  ASSUME IInv, FullShape, RecordsAreTrusted, DeleteNodes \/ DeleteRecords
  PROVE  RecordsAreTrusted'
<1> USE DEF IInv
<1> DEFINE batch == Batch(pass.doomed)
<1>1. /\ UNCHANGED <<disk, job>> /\ batch \subseteq pass.doomed /\ pass.doomed \subseteq Files
      /\ pass.pc \in {"sweep", "forget"}
  BY BatchFacts DEF DeleteNodes, DeleteRecords, At, TypeOK, Passes
<1>2. /\ pass'.pc \in {"sweep", "forget"} /\ pass'.entries = pass.entries
      /\ pass'.changed = pass.changed /\ pass'.doomed \subseteq pass.doomed
      /\ pass'.ingested = pass.ingested
  <2> HIDE DEF batch
  <2>1. CASE DeleteNodes
    BY <2>1, GotoFacts DEF DeleteNodes, Positions
  <2>2. CASE DeleteRecords
    <3>1. pass' = [pass EXCEPT !.pc = "sweep", !.doomed = @ \ batch]
      BY <2>2 DEF DeleteRecords, batch
    <3> QED BY <3>1 DEF TypeOK, Passes
  <2> QED BY <2>1, <2>2
<1>3. ASSUME NEW f \in Files \ doubted'
      PROVE  \/ /\ f \notin doubted
                /\ nodes'[f] = nodes[f] /\ (f \in embedded => f \in embedded')
                /\ hashes'[f] = hashes[f]
             \/ /\ f \in pass.doomed \ doubted /\ ~pass.ingested
                /\ hashes'[f] = hashes[f]
             \/ f \in pass.doomed /\ hashes'[f] = 0
  <2>1. CASE DeleteNodes
    <3>1. /\ Drop(batch) /\ UNCHANGED hashes
          /\ doubted' = IF pass.ingested THEN doubted \cup batch ELSE doubted
      BY <2>1 DEF DeleteNodes
    <3> HIDE DEF batch
    <3> QED BY <1>1, <1>3, <3>1, DropFacts
  <2>2. CASE DeleteRecords
    <3>1. /\ UNCHANGED <<nodes, embedded>> /\ doubted' = doubted \ batch
          /\ hashes' = [g \in Files |-> IF g \in batch THEN 0 ELSE hashes[g]]
      BY <2>2 DEF DeleteRecords
    <3> HIDE DEF batch
    <3> QED BY <1>1, <1>3, <3>1
  <2> QED BY <2>1, <2>2
<1> HIDE DEF batch
<1>4. ASSUME NEW f \in Files \ doubted'
      PROVE  /\ disk[f] # 0 /\ hashes'[f] = disk[f] =>
                  /\ nodes'[f] = disk[f] /\ f \in embedded'
                  /\ f \in pass'.doomed => pass.ingested
                  /\ f \in pass.changed /\ BeforeBatches => job.mode = "force_full"
             /\ job.mode = "full" =>
                  (f \in Present(pass.entries) \ pass.changed => nodes'[f] = pass.entries[f])
  <2>1. job.mode = "full" /\ f \in pass.doomed => f \notin Present(pass.entries)
    BY <1>1 DEF FullShape
  <2>2. CASE /\ f \notin doubted
             /\ nodes'[f] = nodes[f] /\ (f \in embedded => f \in embedded')
             /\ hashes'[f] = hashes[f]
    BY <1>1, <1>2, <2>2 DEF RecordsAreTrusted
  <2>3. CASE /\ f \in pass.doomed \ doubted /\ ~pass.ingested
             /\ hashes'[f] = hashes[f]
    BY <2>1, <2>3 DEF RecordsAreTrusted
  <2>4. CASE f \in pass.doomed /\ hashes'[f] = 0
    BY <2>1, <2>4
  <2> QED BY <1>3, <2>2, <2>3, <2>4
<1>5. BeforeBatches' => BeforeBatches
  BY <1>1, <1>2 DEF BeforeBatches, Replacing
<1>6. pass'.pc \notin Replacing \cup Enriching /\ pass'.pc # "nodes"
  BY <1>2 DEF Replacing, Enriching
<1> QED BY <1>1, <1>2, <1>4, <1>5, <1>6 DEF RecordsAreTrusted

\* A file that is replaced without force has another record than its content;
\* one that is replaced by force is doubted.
LEMMA TrustReplaces ==
  ASSUME IInv, RecordsAreTrusted, Replace
  PROVE  RecordsAreTrusted'
<1> USE DEF IInv
<1>1. /\ UNCHANGED <<disk, hashes, job>> /\ BeforeBatches /\ pass.doomed = {}
      /\ pass.pc \notin {"idle", "opened"} /\ doubted \subseteq doubted'
  BY DEF Replace, Parse, DeleteReplaced, UpsertNodes, UpsertEdges, At, Replacing,
     graph, BeforeBatches, RecordsAreTrusted
<1>2. /\ pass'.pc \in Replacing \cup {"embed"}
      /\ pass'.entries = pass.entries /\ pass'.changed = pass.changed
      /\ pass'.doomed = {}
      /\ job.mode = "force_full" /\ pass'.pc = "nodes" => pass'.parsed \subseteq doubted'
  <2>1. CASE Parse
    <3> DEFINE parsed == {f \in pass.changed : /\ disk[f] = pass.entries[f]
                                               /\ disk[f] \notin Unparsable}
               plan == PlannedEdges(parsed) \cup RetainedInboundEdges(parsed)
    <3>1. pass' = [pass EXCEPT !.pc = "delete", !.parsed = parsed,
                               !.left = parsed, !.plan = plan]
      BY <2>1 DEF Parse
    <3> HIDE DEF parsed, plan
    <3> QED BY <1>1, <3>1 DEF TypeOK, Passes, Replacing
  <2>2. CASE DeleteReplaced
    <3>1. job.mode = "force_full" => pass.parsed \subseteq doubted'
      BY <2>2 DEF DeleteReplaced
    <3> QED BY <1>1, <2>2, <3>1, GotoFacts DEF DeleteReplaced, Positions, Replacing
  <2>3. CASE UpsertNodes
    BY <1>1, <2>3, GotoFacts DEF UpsertNodes, Positions, Replacing
  <2>4. CASE UpsertEdges
    BY <1>1, <2>4, GotoFacts DEF UpsertEdges, Positions, Replacing
  <2> QED BY <2>1, <2>2, <2>3, <2>4 DEF Replace
<1>3. ASSUME NEW f \in Files \ doubted'
      PROVE  \/ nodes'[f] = nodes[f] /\ (f \in embedded => f \in embedded')
             \/ f \in pass.changed /\ job.mode # "force_full"
  <2>1. f \in pass.parsed => f \in pass.changed
    BY DEF PassShape
  <2>2. CASE Parse \/ UpsertEdges
    BY <2>2 DEF Parse, UpsertEdges, graph
  <2>3. CASE DeleteReplaced
    BY <1>3, <2>1, <2>3 DEF DeleteReplaced, Drop
  <2>4. CASE UpsertNodes
    <3>1. job.mode = "force_full" => f \notin pass.parsed
      BY <1>1, <1>3, <2>4 DEF UpsertNodes, At, RecordsAreTrusted
    <3> QED BY <2>1, <2>4, <3>1 DEF UpsertNodes
  <2> QED BY <2>2, <2>3, <2>4 DEF Replace
<1>4. ASSUME NEW f \in Files \ doubted'
      PROVE  /\ disk[f] # 0 /\ hashes[f] = disk[f] =>
                  /\ nodes'[f] = disk[f] /\ f \in embedded'
                  /\ f \in pass.changed => job.mode = "force_full"
             /\ job.mode = "full" =>
                  (f \in Present(pass.entries) \ pass.changed => nodes'[f] = pass.entries[f])
  <2>1. f \in Files \ doubted
    BY <1>1
  <2> QED BY <1>1, <1>3, <2>1 DEF RecordsAreTrusted
<1> QED BY <1>1, <1>2, <1>4 DEF RecordsAreTrusted

\* A vector more harms no record.
LEMMA TrustEmbeds ==
  ASSUME IInv, RecordsAreTrusted, Embed
  PROVE  RecordsAreTrusted'
<1>1. /\ UNCHANGED <<disk, nodes, hashes, doubted, job>> /\ embedded \subseteq embedded'
      /\ pass.pc = "embed"
  BY DEF Embed, At
<1>2. /\ pass'.pc = "check" /\ pass'.entries = pass.entries
      /\ pass'.changed = pass.changed /\ pass'.doomed = pass.doomed
  BY GotoFacts DEF Embed, IInv, Positions
<1>3. pass.doomed = {}
  BY <1>1 DEF RecordsAreTrusted, Enriching
<1>4. ~BeforeBatches'
  BY <1>2 DEF BeforeBatches, Replacing
<1> QED BY <1>1, <1>2, <1>3, <1>4 DEF RecordsAreTrusted

\* An acknowledgement records what is stored, and ends the doubt.
LEMMA TrustAcknowledges ==
  ASSUME IInv, RecordsAreTrusted, Acknowledge
  PROVE  RecordsAreTrusted'
<1> USE DEF IInv
<1> DEFINE batch == Batch(pass.left)
<1>1. /\ pass.pc = "acknowledge" /\ doubted' = doubted \ batch
      /\ hashes' = [f \in Files |-> IF f \in batch THEN pass.entries[f] ELSE hashes[f]]
      /\ pass' \in {[pass EXCEPT !.pc = "checkpoint"],
                    [pass EXCEPT !.pc = "embed", !.left = @ \ batch]}
      /\ UNCHANGED <<disk, nodes, embedded, job>>
  BY DEF Acknowledge, At
<1>2. batch \subseteq pass.parsed /\ batch \subseteq pass.changed
  BY BatchFacts DEF PassShape
<1>3. \A f \in batch : nodes[f] = pass.entries[f] /\ f \in embedded
  BY <1>1, <1>2 DEF StructureStored, Enriching
<1> HIDE DEF batch
<1>4. /\ pass'.pc \in {"checkpoint", "embed"} /\ pass'.entries = pass.entries
      /\ pass'.changed = pass.changed /\ pass'.doomed = pass.doomed
  BY <1>1 DEF TypeOK, Passes
<1>5. pass.doomed = {}
  BY <1>1 DEF RecordsAreTrusted, Enriching
<1>6. ~BeforeBatches' /\ pass'.pc # "nodes"
  BY <1>4 DEF BeforeBatches, Replacing
<1>7. ASSUME NEW f \in Files \ doubted'
      PROVE  /\ disk[f] # 0 /\ hashes'[f] = disk[f] => nodes[f] = disk[f] /\ f \in embedded
             /\ job.mode = "full" =>
                  (f \in Present(pass.entries) \ pass.changed => nodes[f] = pass.entries[f])
  <2>1. CASE f \in batch
    BY <1>1, <1>2, <1>3, <2>1
  <2>2. CASE f \notin batch
    BY <1>1, <1>7, <2>2 DEF RecordsAreTrusted
  <2> QED BY <2>1, <2>2
<1> QED BY <1>1, <1>4, <1>5, <1>6, <1>7 DEF RecordsAreTrusted

\* Every step keeps the records trustworthy.
LEMMA TrustStep ==
  ASSUME IInv, FullShape, RecordsAreTrusted, [Next]_vars
  PROVE  RecordsAreTrusted'
<1> USE DEF IInv
<1>1. CASE \E f \in Files, c \in Contents : Edit(f, c)
  BY <1>1, TrustEdits
<1>2. CASE \E mode \in Modes, F, D \in SUBSET Files : Request(mode, F, D)
  <2>1. pass.pc = "idle" /\ pass' = pass /\ UNCHANGED <<disk, graph>>
    BY <1>2 DEF Request, TypeOK
  <2> QED BY <2>1, TrustRests DEF Enriching
<1>3. CASE Start
  <2>1. /\ UNCHANGED <<disk, graph>>
        /\ pass'.pc = "opened" /\ pass'.entries = pass.entries
        /\ pass'.doomed = pass.doomed /\ pass'.ingested = pass.ingested
    BY <1>3, GotoFacts DEF Start, Positions
  <2> QED BY <2>1, TrustRests DEF Enriching
<1>4. CASE FreezeManifest
  BY <1>4, TrustRests DEF FreezeManifest, At, Enriching
<1>5. CASE Checkpoint
  <2>1. /\ UNCHANGED <<disk, graph>> /\ pass.pc = "checkpoint" /\ job'.mode = job.mode
    BY <1>5 DEF Checkpoint, At, TypeOK, Jobs
  <2>2. /\ pass'.pc = "embed" /\ pass'.entries = pass.entries
        /\ pass'.changed = pass.changed /\ pass'.doomed = pass.doomed
        /\ pass'.ingested = pass.ingested
    BY <1>5 DEF Checkpoint, TypeOK, Passes
  <2>3. pass.doomed = {}
    BY <2>1 DEF RecordsAreTrusted, Enriching
  <2> QED BY <2>1, <2>2, <2>3, TrustRests DEF Enriching
<1>6. CASE DiscoverAll \/ DiscoverListed \/ DiscoverFrozen
  BY <1>6, TrustBegins
<1>7. CASE Delete
  BY <1>7, TrustSweeps DEF Delete
<1>8. CASE Replace
  BY <1>8, TrustReplaces
<1>9. CASE Embed \/ Acknowledge
  BY <1>9, TrustEmbeds, TrustAcknowledges
<1>10. CASE EmbeddingFails \/ CheckSources
  <2>1. /\ UNCHANGED <<disk, graph, job>> /\ pass.pc \in {"embed", "check"}
    BY <1>10 DEF EmbeddingFails, CheckSources, At, Degrade
  <2>2. /\ pass'.pc \in {"embed", "acknowledge"} /\ pass'.entries = pass.entries
        /\ pass'.changed = pass.changed /\ pass'.doomed = pass.doomed
        /\ pass'.ingested = pass.ingested
    <3>1. CASE Degrade
      BY <3>1 DEF Degrade, TypeOK, Passes
    <3>2. CASE Goto("acknowledge")
      BY <3>2, GotoFacts DEF Positions
    <3> QED BY <1>10, <3>1, <3>2 DEF EmbeddingFails, CheckSources
  <2>3. pass.doomed = {}
    BY <2>1 DEF RecordsAreTrusted, Enriching
  <2> QED BY <2>1, <2>2, <2>3, TrustRests DEF Enriching
<1>11. CASE IngestedEntries
  <2>1. /\ UNCHANGED <<disk, graph, job>> /\ pass.pc \in {"embed", "sweep"}
    BY <1>11 DEF IngestedEntries, At
  <2>2. /\ pass'.pc = "sweep" /\ pass'.ingested /\ pass'.entries = pass.entries
        /\ pass'.changed = pass.changed
    <3> DEFINE doomed == IF job.mode = "files" THEN job.deleted ELSE {}
    <3>1. pass' = [pass EXCEPT !.pc = "sweep", !.ingested = TRUE, !.doomed = doomed]
      BY <1>11 DEF IngestedEntries
    <3> HIDE DEF doomed
    <3> QED BY <3>1 DEF TypeOK, Passes
  <2> QED BY <2>1, <2>2, TrustRests DEF Enriching
<1>12. CASE SnapshotDrifted \/ DegradedPass \/ Succeed \/ Raise \/ Cancelled \/ Crash
  <2>1. pass' = Idle /\ UNCHANGED <<disk, graph>>
    BY <1>12, EndSteps DEF Ends
  <2>2. pass'.pc = "idle"
    BY <2>1 DEF Idle
  <2> QED BY <2>1, <2>2, TrustRests
<1>13. CASE UNCHANGED vars
  BY <1>13 DEF vars, graph, RecordsAreTrusted, BeforeBatches, Present
<1> QED BY <1>1, <1>2, <1>3, <1>4, <1>5, <1>6, <1>7, <1>8, <1>9, <1>10, <1>11, <1>12,
        <1>13 DEF Next, Discover, Enrich

\* A record that names what is in the sources describes stored nodes and vectors,
\* whatever passes were cut off, unless the file went back to that content, was
\* forced or was deleted for a client since its last acknowledgement
\* (pipeline.py:369 compares with the record).
THEOREM RecordsCanBeTrusted == Spec => []RecordsAreTrusted
<1>1. Init => RecordsAreTrusted
  <2> SUFFICES ASSUME Init PROVE RecordsAreTrusted
    OBVIOUS
  <2>1. pass.pc = "idle" /\ pass.doomed = {}
    BY DEF Init, Idle
  <2>2. \A f \in Files : /\ nodes[f] = IF f \in Steady THEN 1 ELSE 0
                         /\ hashes[f] = nodes[f]
                         /\ f \in Steady => f \in embedded
    BY PipelineAssumption DEF Init
  <2>3. ~BeforeBatches /\ pass.pc \notin Replacing \cup Enriching /\ pass.pc # "nodes"
    BY <2>1 DEF BeforeBatches, Replacing, Enriching
  <2> QED BY <2>1, <2>2, <2>3 DEF RecordsAreTrusted
<1>2. IInv /\ FullShape /\ RecordsAreTrusted /\ [Next]_vars => RecordsAreTrusted'
  BY TrustStep
<1> QED BY <1>1, <1>2, PassCorrect, FullPassesKeepTheirShape, PTL DEF Spec

\* A full pass that succeeds is exact for every file it could parse and that is
\* not doubted, whatever earlier passes left behind when they were cut off
\* (pipeline.py:267).
THEOREM FullPassesAreExact == Spec => FullPassIsExact
<1>1. ASSUME IInv, FullShape, RecordsAreTrusted, [Next]_vars, Publishes, job.mode = "full",
             NEW f \in Files \ (Failed \cup doubted)
      PROVE  /\ nodes[f] = pass.entries[f] /\ hashes[f] = pass.entries[f]
             /\ pass.entries[f] # 0 => f \in embedded
  <2>1. CASE Exact(f)
    BY <2>1 DEF Exact
  <2>2. CASE f \in Present(pass.entries) \ pass.changed /\ hashes[f] = pass.entries[f]
    <3>1. pass.pc = "sweep"
      BY <1>1, OnlySuccessPublishes DEF Succeed, Ingested, At
    <3>2. nodes[f] = pass.entries[f]
      BY <1>1, <2>2, <3>1 DEF RecordsAreTrusted
    <3>3. nodes[f] = 0 \/ f \in embedded
      BY <1>1, <2>2, <3>1 DEF FullShape
    <3> QED BY <2>2, <3>2, <3>3
  <2> QED BY <1>1, <2>1, <2>2, FullEnds
<1>2. IInv /\ FullShape /\ RecordsAreTrusted /\ [Next]_vars =>
        [Publishes /\ job.mode = "full" =>
           \A f \in Files \ (Failed \cup doubted) :
             /\ nodes[f] = pass.entries[f] /\ hashes[f] = pass.entries[f]
             /\ pass.entries[f] # 0 => f \in embedded]_vars
  BY <1>1
<1> QED BY <1>2, PassCorrect, FullPassesKeepTheirShape, RecordsCanBeTrusted, PTL
        DEF Spec, FullPassIsExact

(***************************************************************************)
(* Relationships across uninterrupted passes.                              *)
(***************************************************************************)

\* Steps that leave the graph alone, outside the replacement of files.
LEMMA EdgesRest ==
  ASSUME TargetsKeepTheirEdges, UNCHANGED <<nodes, edges>>,
         Steady \subseteq Present(disk'),
         pass'.doomed \cap Steady = {}, job'.deleted \cap Steady = {},
         ready' => pass'.pc = "idle",
         faults' = 0 /\ crashes' = 0 =>
           /\ faults = 0 /\ crashes = 0
           /\ \/ pass' = pass
              \/ /\ pass.pc \notin {"nodes", "edges"}
                 /\ pass'.pc \notin {"delete", "nodes", "edges"}
  PROVE  TargetsKeepTheirEdges'
  BY DEF TargetsKeepTheirEdges

\* Sources that stay are never swept.
LEMMA EdgesBegin ==
  ASSUME IInv, TargetsKeepTheirEdges, DiscoverAll \/ DiscoverListed \/ DiscoverFrozen
  PROVE  TargetsKeepTheirEdges'
<1> USE DEF IInv
<1>1. ASSUME NEW entries \in Snapshots, NEW changed \in SUBSET Present(entries),
             NEW doomed \in SUBSET Files, Begin(entries, changed, doomed),
             doomed \cap Present(disk) = {}
      PROVE  pass'.pc = "sweep" /\ pass'.doomed \cap Steady = {}
  <2>1. pass'.pc = "sweep" /\ pass'.doomed = doomed
    BY <1>1, BeginFacts
  <2> QED BY <1>1, <2>1 DEF TargetsKeepTheirEdges
<1>2. /\ UNCHANGED <<disk, nodes, edges, job, ready, faults, crashes>>
      /\ pass.pc = "opened"
  BY DEF DiscoverAll, DiscoverListed, DiscoverFrozen, At, graph, counters
<1>3. pass'.pc = "sweep" /\ pass'.doomed \cap Steady = {}
  <2>1. CASE DiscoverAll
    <3>1. /\ disk \in Snapshots /\ Changed(disk) \in SUBSET Present(disk)
          /\ Sweepable(disk) \in SUBSET Files /\ Sweepable(disk) \cap Present(disk) = {}
      BY DEF TypeOK, Changed, Sweepable, Present
    <3>2. Begin(disk, Changed(disk), Sweepable(disk))
      BY <2>1 DEF DiscoverAll
    <3> QED BY <1>1, <3>1, <3>2
  <2>2. CASE DiscoverListed
    <3> DEFINE listed == [f \in Files |-> IF f \in job.files THEN disk[f] ELSE 0]
    <3>1. Begin(listed, Changed(listed), {})
      BY <2>2 DEF DiscoverListed
    <3>2. listed \in Snapshots
      BY EmptyFacts DEF TypeOK, Snapshots
    <3> HIDE DEF listed
    <3>3. Changed(listed) \in SUBSET Present(listed)
      BY DEF Changed
    <3> QED BY <1>1, <3>1, <3>2, <3>3
  <2>3. CASE DiscoverFrozen
    <3> DEFINE frozen == [f \in Files |-> IF f \in Pending THEN job.manifest[f] ELSE 0]
    <3>1. Begin(frozen, Pending, {})
      BY <2>3 DEF DiscoverFrozen
    <3>2. frozen \in Snapshots
      BY EmptyFacts DEF TypeOK, Jobs, Snapshots
    <3>3. Pending \in SUBSET Present(frozen)
      BY DEF Pending, Present
    <3> HIDE DEF frozen
    <3> QED BY <1>1, <3>1, <3>2, <3>3
  <2> QED BY <2>1, <2>2, <2>3
<1>4. ~ready
  BY <1>2 DEF TargetsKeepTheirEdges
<1> QED BY <1>2, <1>3, <1>4, EdgesRest DEF TargetsKeepTheirEdges

\* The sweep takes the relationships of files that go, with their nodes.
LEMMA EdgesSweep ==
  ASSUME IInv, TargetsKeepTheirEdges, DeleteNodes \/ DeleteRecords
  PROVE  TargetsKeepTheirEdges'
<1> USE DEF IInv
<1> DEFINE batch == Batch(pass.doomed)
<1>1. /\ UNCHANGED <<disk, job, ready, faults, crashes>>
      /\ pass.pc \in {"sweep", "forget"}
  BY DEF DeleteNodes, DeleteRecords, At, counters
<1>2. ~ready
  BY <1>1 DEF TargetsKeepTheirEdges
<1>3. batch \subseteq pass.doomed
  BY BatchFacts
<1> HIDE DEF batch
<1>4. CASE DeleteNodes
  <2>1. Drop(batch) /\ Goto("forget")
    BY <1>4 DEF DeleteNodes, batch
  <2>2. pass'.pc = "forget" /\ pass'.doomed = pass.doomed
    BY <2>1, GotoFacts DEF Positions
  <2>3. /\ \A f \in Files : nodes'[f] = IF f \in batch THEN 0 ELSE nodes[f]
        /\ edges' = {e \in edges : e[1] \notin batch /\ e[2] \notin batch}
    BY <2>1 DEF Drop
  <2>4. ASSUME faults = 0, crashes = 0, NEW e \in Refs, e[2] \in Steady
        PROVE  /\ nodes'[e[2]] # 0
               /\ nodes'[e[1]] # 0 => e \in edges'
    <3>1. e[1] \in Files /\ e[2] \in Files
      BY PipelineAssumption
    <3>2. e[2] \notin batch
      BY <1>3, <2>4 DEF TargetsKeepTheirEdges
    <3> QED BY <1>1, <2>3, <2>4, <3>1, <3>2 DEF TargetsKeepTheirEdges
  <2> QED BY <1>1, <1>2, <2>2, <2>4 DEF TargetsKeepTheirEdges
<1>5. CASE DeleteRecords
  <2>1. /\ pass' = [pass EXCEPT !.pc = "sweep", !.doomed = @ \ batch]
        /\ UNCHANGED <<nodes, edges>>
    BY <1>5 DEF DeleteRecords, batch
  <2>2. pass'.pc = "sweep" /\ pass'.doomed \subseteq pass.doomed
    BY <2>1 DEF TypeOK, Passes
  <2> QED BY <1>1, <1>2, <2>1, <2>2, EdgesRest DEF TargetsKeepTheirEdges
<1> QED BY <1>4, <1>5

\* A replacement carries the relationships from and to the files it replaces.
LEMMA EdgesReplace ==
  ASSUME IInv, TargetsKeepTheirEdges, Replace
  PROVE  TargetsKeepTheirEdges'
<1> USE DEF IInv
<1>1. /\ UNCHANGED <<disk, job, ready, faults, crashes>>
      /\ pass.pc \in {"sweep"} \cup Replacing
  BY DEF Replace, Parse, DeleteReplaced, UpsertNodes, UpsertEdges, At, Replacing, counters
<1>2. ~ready
  BY <1>1 DEF TargetsKeepTheirEdges, Replacing
<1>3. \A e \in Refs : e[1] \in Files /\ e[2] \in Files
  BY PipelineAssumption
<1>4. CASE Parse
  <2> DEFINE parsed == {f \in pass.changed : /\ disk[f] = pass.entries[f]
                                             /\ disk[f] \notin Unparsable}
             plan == PlannedEdges(parsed) \cup RetainedInboundEdges(parsed)
  <2>1. /\ pass' = [pass EXCEPT !.pc = "delete", !.parsed = parsed,
                                !.left = parsed, !.plan = plan]
        /\ UNCHANGED <<nodes, edges>> /\ pass.pc = "sweep"
    BY <1>4 DEF Parse, At, graph
  <2>2. ASSUME NEW e \in Refs, nodes[e[2]] # 0, e \in edges, e[2] \in parsed
        PROVE  e \in plan
    BY <2>2 DEF PlannedEdges, RetainedInboundEdges
  <2> HIDE DEF parsed, plan
  <2>3. /\ pass'.pc = "delete" /\ pass'.parsed = parsed /\ pass'.plan = plan
        /\ pass'.doomed = pass.doomed
    BY <2>1 DEF TypeOK, Passes
  <2> QED BY <1>1, <1>2, <2>1, <2>2, <2>3 DEF TargetsKeepTheirEdges
<1>5. CASE DeleteReplaced
  <2>1. Drop(pass.parsed) /\ Goto("nodes") /\ pass.pc = "delete"
    BY <1>5 DEF DeleteReplaced, At
  <2>2. /\ pass'.pc = "nodes" /\ pass'.parsed = pass.parsed /\ pass'.plan = pass.plan
        /\ pass'.doomed = pass.doomed
    BY <2>1, GotoFacts DEF Positions
  <2>3. /\ \A f \in Files : nodes'[f] = IF f \in pass.parsed THEN 0 ELSE nodes[f]
        /\ edges' = {e \in edges : e[1] \notin pass.parsed /\ e[2] \notin pass.parsed}
    BY <2>1 DEF Drop
  <2>4. ASSUME faults = 0, crashes = 0, NEW e \in Refs, e[2] \in Steady
        PROVE  /\ nodes'[e[2]] # 0 \/ e[2] \in pass.parsed
               /\ nodes'[e[1]] # 0 \/ e[1] \in pass.parsed =>
                    e \in edges' \/ e \in pass.plan
    <3>1. nodes[e[2]] # 0 /\ (nodes[e[1]] # 0 => e \in edges)
      BY <2>1, <2>4 DEF TargetsKeepTheirEdges
    <3>2. e \in edges /\ e[2] \in pass.parsed => e \in pass.plan
      BY <2>1, <2>4 DEF TargetsKeepTheirEdges
    <3>3. e[1] \in pass.parsed => e \in pass.plan
      BY <2>1, <3>1 DEF PlanStored, Replacing
    <3> QED BY <1>3, <2>3, <3>1, <3>2, <3>3
  <2> QED BY <1>1, <1>2, <2>2, <2>4 DEF TargetsKeepTheirEdges
<1>6. CASE UpsertNodes
  <2>1. /\ nodes' = [f \in Files |-> IF f \in pass.parsed THEN pass.entries[f]
                                     ELSE nodes[f]]
        /\ Goto("edges") /\ pass.pc = "nodes" /\ UNCHANGED edges
    BY <1>6 DEF UpsertNodes, At
  <2>2. /\ pass'.pc = "edges" /\ pass'.parsed = pass.parsed /\ pass'.plan = pass.plan
        /\ pass'.doomed = pass.doomed
    BY <2>1, GotoFacts DEF Positions
  <2>3. \A f \in Files : nodes'[f] # 0 <=> f \in pass.parsed \/ nodes[f] # 0
    BY <2>1 DEF PassShape, Present
  <2>4. ASSUME faults = 0, crashes = 0, NEW e \in Refs, e[2] \in Steady
        PROVE  /\ nodes'[e[2]] # 0
               /\ nodes'[e[1]] # 0 => e \in edges \/ e \in pass.plan
    BY <1>3, <2>1, <2>3, <2>4 DEF TargetsKeepTheirEdges
  <2> QED BY <1>1, <1>2, <2>1, <2>2, <2>4 DEF TargetsKeepTheirEdges
<1>7. CASE UpsertEdges
  <2>1. /\ edges' = edges \cup pass.plan /\ Goto("embed") /\ pass.pc = "edges"
        /\ UNCHANGED nodes
    BY <1>7 DEF UpsertEdges, At
  <2>2. /\ pass'.pc = "embed" /\ pass'.parsed = pass.parsed
        /\ pass'.doomed = pass.doomed
    BY <2>1, GotoFacts DEF Positions
  <2> QED BY <1>1, <1>2, <2>1, <2>2 DEF TargetsKeepTheirEdges
<1> QED BY <1>4, <1>5, <1>6, <1>7 DEF Replace

\* The rest of a pass touches no relationship and dooms no file that stays.
LEMMA EdgesEnrich ==
  ASSUME IInv, TargetsKeepTheirEdges, Enrich \/ IngestedEntries
  PROVE  TargetsKeepTheirEdges'
<1> USE DEF IInv
<1>1. /\ UNCHANGED <<disk, nodes, edges, ready, crashes>>
      /\ faults' = 0 => faults = 0
      /\ pass.pc \in Enriching \cup {"sweep"}
      /\ pass'.pc \in Enriching \cup {"sweep"}
      /\ pass'.doomed = pass.doomed \/ pass'.doomed \in {job.deleted, {}}
      /\ job'.deleted = job.deleted
  <2> USE DEF At, Enriching, graph, counters
  <2>1. CASE Embed
    BY <2>1, GotoFacts DEF Embed, Positions
  <2>2. CASE EmbeddingFails
    <3>1. faults \in Nat /\ faults' = faults + 1
      BY <2>2, PipelineAssumption DEF EmbeddingFails, TypeOK
    <3> QED BY <2>2, <3>1 DEF EmbeddingFails, Degrade, TypeOK, Passes
  <2>3. CASE CheckSources
    <3>1. CASE Degrade /\ UNCHANGED faults
      BY <2>3, <3>1 DEF CheckSources, Degrade, TypeOK, Passes
    <3>2. CASE ~(Degrade /\ UNCHANGED faults)
      BY <2>3, <3>2, GotoFacts DEF CheckSources, Positions
    <3> QED BY <3>1, <3>2
  <2>4. CASE Acknowledge
    BY <2>4 DEF Acknowledge, TypeOK, Passes
  <2>5. CASE Checkpoint
    BY <2>5 DEF Checkpoint, TypeOK, Passes, Jobs
  <2>6. CASE IngestedEntries
    <3> DEFINE doomed == IF job.mode = "files" THEN job.deleted ELSE {}
    <3>1. /\ pass' = [pass EXCEPT !.pc = "sweep", !.ingested = TRUE, !.doomed = doomed]
          /\ doomed \in {job.deleted, {}}
      BY <2>6 DEF IngestedEntries
    <3> HIDE DEF doomed
    <3>2. pass'.pc = "sweep" /\ pass'.doomed = doomed
      BY <3>1 DEF TypeOK, Passes
    <3> QED BY <2>6, <3>1, <3>2 DEF IngestedEntries
  <2> QED BY <2>1, <2>2, <2>3, <2>4, <2>5, <2>6 DEF Enrich
<1>2. ~ready
  BY <1>1 DEF TargetsKeepTheirEdges, Enriching
<1> QED BY <1>1, <1>2, EdgesRest DEF TargetsKeepTheirEdges, Enriching

\* Every step keeps the relationships to files that stay.
LEMMA EdgesStep == IInv /\ TargetsKeepTheirEdges /\ [Next]_vars => TargetsKeepTheirEdges'
<1> SUFFICES ASSUME IInv, TargetsKeepTheirEdges, [Next]_vars PROVE TargetsKeepTheirEdges'
  OBVIOUS
<1> USE DEF IInv
<1>1. CASE \E f \in Files, c \in Contents : Edit(f, c)
  <2> PICK f \in Files, c \in Contents : Edit(f, c)
    BY <1>1
  <2>1. /\ UNCHANGED <<nodes, edges, ready, job, pass, faults, crashes>>
        /\ disk' = [disk EXCEPT ![f] = c] /\ (c = 0 => f \notin Steady)
    BY DEF Edit, graph
  <2>2. Steady \subseteq Present(disk')
    BY <2>1, PipelineAssumption DEF TargetsKeepTheirEdges, Present, TypeOK, Snapshots
  <2> QED BY <2>1, <2>2, EdgesRest DEF TargetsKeepTheirEdges
<1>2. CASE \E mode \in Modes, F, D \in SUBSET Files : Request(mode, F, D)
  <2> PICK mode \in Modes, F \in SUBSET Files, D \in SUBSET Files : Request(mode, F, D)
    BY <1>2
  <2>1. /\ UNCHANGED <<disk, nodes, edges, ready, pass, faults, crashes>>
        /\ D \cap Present(disk) = {}
    BY DEF Request, graph
  <2>2. D \cap Steady = {} /\ job.deleted \cap Steady = {}
    BY <2>1 DEF TargetsKeepTheirEdges
  <2>3. \/ job' = job
        \/ job' = [NoJob EXCEPT !.status = "queued", !.mode = mode, !.files = F, !.deleted = D]
        \/ job' = [NoJob EXCEPT !.status = "queued", !.mode = mode, !.attempts = job.attempts]
        \/ job' = [job EXCEPT !.files = @ \cup F, !.deleted = @ \cup D]
    BY DEF Request
  <2>4. job'.deleted \in {job.deleted, D, {}, job.deleted \cup D}
    BY <2>3 DEF NoJob, TypeOK, Jobs
  <2>5. job'.deleted \cap Steady = {}
    BY <2>2, <2>4
  <2> QED BY <2>1, <2>5, EdgesRest DEF TargetsKeepTheirEdges
<1>3. CASE Start \/ FreezeManifest
  <2>1. /\ UNCHANGED <<disk, nodes, edges, faults, crashes>> /\ ready' \in {FALSE, ready}
        /\ job'.deleted = job.deleted /\ pass.pc \in {"idle", "opened"}
    BY <1>3 DEF Start, FreezeManifest, At, TypeOK, Jobs, graph, counters
  <2>2. pass'.pc = "opened" /\ pass'.doomed = pass.doomed
    BY <1>3, GotoFacts DEF Start, FreezeManifest, At, Positions
  <2>3. ~ready'
    BY <1>3, <2>1 DEF Start, FreezeManifest, At, TargetsKeepTheirEdges
  <2> QED BY <2>1, <2>2, <2>3, EdgesRest DEF TargetsKeepTheirEdges
<1>4. CASE DiscoverAll \/ DiscoverListed \/ DiscoverFrozen
  BY <1>4, EdgesBegin
<1>5. CASE Delete
  BY <1>5, EdgesSweep DEF Delete
<1>6. CASE Replace
  BY <1>6, EdgesReplace
<1>7. CASE Enrich \/ IngestedEntries
  BY <1>7, EdgesEnrich
<1>8. CASE SnapshotDrifted \/ DegradedPass \/ Succeed \/ Raise \/ Cancelled \/ Crash
  <2>0. job'.deleted \in {job.deleted, {}}
    <3>1. CASE FailOrRetry
      BY <3>1 DEF FailOrRetry, NoJob, TypeOK, Jobs
    <3>2. CASE Succeed \/ Cancelled \/ Crash
      BY <3>2 DEF Succeed, Cancelled, Crash, NoJob, TypeOK, Jobs
    <3> QED BY <1>8, <3>1, <3>2 DEF SnapshotDrifted, DegradedPass, Raise
  <2>1. /\ pass' = Idle /\ UNCHANGED <<disk, nodes, edges>>
        /\ job'.deleted \in {job.deleted, {}}
    BY <1>8, <2>0, EndSteps DEF Ends, graph
  <2>2. pass'.pc = "idle" /\ pass'.doomed = {}
    BY <2>1 DEF Idle
  <2>3. faults \in Nat /\ crashes \in Nat
    BY PipelineAssumption DEF TypeOK
  <2>4. CASE Raise \/ Crash
    <3>1. ~(faults' = 0 /\ crashes' = 0)
      BY <2>3, <2>4 DEF Raise, Crash
    <3> QED BY <2>1, <2>2, <3>1, EdgesRest DEF TargetsKeepTheirEdges
  <2>5. CASE SnapshotDrifted \/ DegradedPass \/ Succeed \/ Cancelled
    <3>1. pass.pc \notin {"nodes", "edges"} /\ UNCHANGED <<faults, crashes>>
      BY <2>5 DEF SnapshotDrifted, DegradedPass, Succeed, Cancelled, Ingested, At, counters
    <3> QED BY <2>1, <2>2, <3>1, EdgesRest DEF TargetsKeepTheirEdges
  <2> QED BY <1>8, <2>4, <2>5
<1>9. CASE UNCHANGED vars
  BY <1>9 DEF vars, graph, counters, TargetsKeepTheirEdges, Present
<1> QED BY <1>1, <1>2, <1>3, <1>4, <1>5, <1>6, <1>7, <1>8, <1>9 DEF Next, Discover

\* As long as no pass fails or dies, relationships to files that stay are stored,
\* or wait in the plan of the replacement that took them away (pipeline.py:684).
THEOREM TargetsAreKept == Spec => []TargetsKeepTheirEdges
<1>1. Init => TargetsKeepTheirEdges
  <2> SUFFICES ASSUME Init PROVE TargetsKeepTheirEdges
    OBVIOUS
  <2>1. /\ Steady \subseteq Present(disk) /\ pass.pc = "idle" /\ pass.doomed = {}
        /\ job.deleted = {} /\ edges = Refs \cap (Steady \X Steady)
        /\ \A f \in Files : nodes[f] = IF f \in Steady THEN 1 ELSE 0
    BY PipelineAssumption DEF Init, Idle, NoJob, Present
  <2>2. ASSUME NEW e \in Refs, e[2] \in Steady
        PROVE  nodes[e[2]] # 0 /\ (nodes[e[1]] # 0 => e \in edges)
    <3>1. e = <<e[1], e[2]>> /\ e[1] \in Files /\ e[2] \in Files
      BY PipelineAssumption
    <3> QED BY <2>1, <2>2, <3>1
  <2> QED BY <2>1, <2>2 DEF TargetsKeepTheirEdges
<1> QED BY <1>1, EdgesStep, PassCorrect, PTL DEF Spec

\* Where the targets of relationships never disappear, the relationships between
\* acknowledged files are there whenever the store is ready, as long as no pass is
\* cut off (pipeline.py:684).
THEOREM UninterruptedPassesKeepEdges ==
  ASSUME \A e \in Refs : e[2] \in Steady
  PROVE  Spec => []UninterruptedKeepsEdges
<1>1. TargetsKeepTheirEdges => UninterruptedKeepsEdges
  BY DEF TargetsKeepTheirEdges, UninterruptedKeepsEdges, RelationshipsKept, Acknowledged
<1> QED BY <1>1, TargetsAreKept, PTL
=============================================================================
