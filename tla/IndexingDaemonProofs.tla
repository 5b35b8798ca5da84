------------------------ MODULE IndexingDaemonProofs ------------------------
(***************************************************************************)
(* Theorems about the daemon around the queue, for any roots, rows,        *)
(* attempts, generations, failures and deaths.  What the queue itself      *)
(* guarantees is taken from IngestionJobsProofs.                           *)
(***************************************************************************)
EXTENDS IndexingDaemon, TLAPS

QueueFacts == INSTANCE IngestionJobsProofs WITH
  Stores <- Repos, StoreOf <- [r \in Repos |-> r], Workers <- 1

\* The queue of the daemon is an instance its theorems are about.
LEMMA QueueAssumptions ==
  /\ QueueFacts!StoreOfAssumption
  /\ QueueFacts!NonEmptyAssumption
  /\ QueueFacts!BoundsAssumption
BY DaemonBoundsAssumption
DEF QueueFacts!StoreOfAssumption, QueueFacts!NonEmptyAssumption,
    QueueFacts!BoundsAssumption, Generations

\* A step of the queue as IndexingDaemon names it is one as the theorems name it.
LEMMA QueueStep == [Queue!Next]_(Queue!vars) => [QueueFacts!Next]_(QueueFacts!vars)
<1>1. \A r, mode, paths : Queue!EnqueueMerge(r, mode, paths) <=> QueueFacts!EnqueueMerge(r, mode, paths)
  BY DEF Queue!EnqueueMerge, QueueFacts!EnqueueMerge, Queue!DeletionFor,
         QueueFacts!DeletionFor, Queue!Deleting, QueueFacts!Deleting, Queue!Active,
         QueueFacts!Active, Queue!ActiveStatuses, QueueFacts!ActiveStatuses, Queue!QueuedFor,
         QueueFacts!QueuedFor, Queue!Queued, QueueFacts!Queued, Queue!Jobs, QueueFacts!Jobs,
         Queue!RequestPayload, QueueFacts!RequestPayload, Queue!MergeInto,
         QueueFacts!MergeInto, Queue!MergedMode, QueueFacts!MergedMode, Queue!MergedPayload,
         QueueFacts!MergedPayload, Queue!Manifest, QueueFacts!Manifest, Queue!NoPayload,
         QueueFacts!NoPayload, Queue!Rank, QueueFacts!Rank
<1>2. \A r, g, mode, paths : Queue!EnqueueInsert(r, g, mode, paths) <=> QueueFacts!EnqueueInsert(r, g, mode, paths)
  BY DEF Queue!EnqueueInsert, QueueFacts!EnqueueInsert, Queue!DeletionFor,
         QueueFacts!DeletionFor, Queue!Deleting, QueueFacts!Deleting, Queue!Active,
         QueueFacts!Active, Queue!ActiveStatuses, QueueFacts!ActiveStatuses, Queue!QueuedFor,
         QueueFacts!QueuedFor, Queue!Queued, QueueFacts!Queued, Queue!Jobs, QueueFacts!Jobs,
         Queue!NoPayload, QueueFacts!NoPayload, Queue!RequestPayload, QueueFacts!RequestPayload
<1>3. \A j : Queue!ClaimNext(j) <=> QueueFacts!ClaimNext(j)
  BY DEF Queue!ClaimNext, QueueFacts!ClaimNext, Queue!Claimable, QueueFacts!Claimable,
         Queue!Queued, QueueFacts!Queued, Queue!Working, QueueFacts!Working, Queue!Before,
         QueueFacts!Before, Queue!Jobs, QueueFacts!Jobs, Queue!Cardinality,
         QueueFacts!Cardinality
<1>4. \A j : Queue!Heartbeat(j) <=> QueueFacts!Heartbeat(j)
  BY DEF Queue!Heartbeat, QueueFacts!Heartbeat, Queue!Working, QueueFacts!Working
<1>5. \A j : Queue!LeaseExpires(j) <=> QueueFacts!LeaseExpires(j)
  BY DEF Queue!LeaseExpires, QueueFacts!LeaseExpires, Queue!Working, QueueFacts!Working
<1>6. \A j, paths : Queue!InstallForceFullSnapshot(j, paths) <=> QueueFacts!InstallForceFullSnapshot(j, paths)
  BY DEF Queue!InstallForceFullSnapshot, QueueFacts!InstallForceFullSnapshot
<1>7. \A j, paths : Queue!AcknowledgeForceFullSnapshotFiles(j, paths) <=> QueueFacts!AcknowledgeForceFullSnapshotFiles(j, paths)
  BY DEF Queue!AcknowledgeForceFullSnapshotFiles, QueueFacts!AcknowledgeForceFullSnapshotFiles,
         Queue!Working, QueueFacts!Working
<1>8. \A j : Queue!Complete(j) <=> QueueFacts!Complete(j)
  BY DEF Queue!Complete, QueueFacts!Complete, Queue!Settled, QueueFacts!Settled
<1>9. \A j : Queue!MarkCancelled(j) <=> QueueFacts!MarkCancelled(j)
  BY DEF Queue!MarkCancelled, QueueFacts!MarkCancelled, Queue!Settled, QueueFacts!Settled
<1>10. \A j : Queue!FailOrRetry(j) <=> QueueFacts!FailOrRetry(j)
  BY DEF Queue!FailOrRetry, QueueFacts!FailOrRetry, Queue!Retried, QueueFacts!Retried,
         Queue!Settled, QueueFacts!Settled, Queue!QueuedFor, QueueFacts!QueuedFor,
         Queue!Queued, QueueFacts!Queued, Queue!Jobs, QueueFacts!Jobs, Queue!MergeInto,
         QueueFacts!MergeInto, Queue!MergedMode, QueueFacts!MergedMode, Queue!MergedPayload,
         QueueFacts!MergedPayload, Queue!Manifest, QueueFacts!Manifest, Queue!NoPayload,
         QueueFacts!NoPayload, Queue!Rank, QueueFacts!Rank
<1>11. \A j : Queue!RequestCancel(j) <=> QueueFacts!RequestCancel(j)
  BY DEF Queue!RequestCancel, QueueFacts!RequestCancel, Queue!CancelRequested,
         QueueFacts!CancelRequested, Queue!Settled, QueueFacts!Settled, Queue!Active,
         QueueFacts!Active, Queue!ActiveStatuses, QueueFacts!ActiveStatuses
<1>12. Queue!RequestCancelAll <=> QueueFacts!RequestCancelAll
  BY DEF Queue!RequestCancelAll, QueueFacts!RequestCancelAll, Queue!CancelRequested,
         QueueFacts!CancelRequested, Queue!Settled, QueueFacts!Settled, Queue!Jobs,
         QueueFacts!Jobs
<1>13. Queue!StartRunner <=> QueueFacts!StartRunner
  BY DEF Queue!StartRunner, QueueFacts!StartRunner, Queue!Reclaimed, QueueFacts!Reclaimed,
         Queue!Stale, QueueFacts!Stale, Queue!Working, QueueFacts!Working, Queue!Retried,
         QueueFacts!Retried, Queue!Settled, QueueFacts!Settled, Queue!QueuedFor,
         QueueFacts!QueuedFor, Queue!Queued, QueueFacts!Queued, Queue!Jobs, QueueFacts!Jobs,
         Queue!MergeInto, QueueFacts!MergeInto, Queue!MergedMode, QueueFacts!MergedMode,
         Queue!MergedPayload, QueueFacts!MergedPayload, Queue!Manifest, QueueFacts!Manifest,
         Queue!NoPayload, QueueFacts!NoPayload, Queue!Rank, QueueFacts!Rank
<1>14. Queue!Crash <=> QueueFacts!Crash
  BY DEF Queue!Crash, QueueFacts!Crash
<1>15. Queue!Enqueue => QueueFacts!Enqueue
  BY <1>1, <1>2 DEF Queue!Enqueue, QueueFacts!Enqueue, Queue!Modes, QueueFacts!Modes
<1>16. ASSUME NEW j, Queue!RowStep(j) PROVE QueueFacts!RowStep(j)
  BY Zenon, <1>16, <1>3, <1>4, <1>5, <1>6, <1>7, <1>8, <1>9, <1>10, <1>11
  DEF Queue!RowStep, QueueFacts!RowStep, Queue!Finish, QueueFacts!Finish
<1> QED
  BY <1>12, <1>13, <1>14, <1>15, <1>16
  DEF Queue!Next, QueueFacts!Next, Queue!vars, QueueFacts!vars, Queue!Jobs, QueueFacts!Jobs

\* So is an invariant of the queue.
LEMMA QueueInvariant == Queue!IInv <=> QueueFacts!IInv
<1>1. Queue!TypeOK <=> QueueFacts!TypeOK
  BY DEF Queue!TypeOK, QueueFacts!TypeOK, Queue!Jobs, QueueFacts!Jobs, Queue!Rows,
         QueueFacts!Rows, Queue!Modes, QueueFacts!Modes, Queue!Payloads, QueueFacts!Payloads,
         Queue!Statuses, QueueFacts!Statuses, Queue!ActiveStatuses, QueueFacts!ActiveStatuses
<1>2. Queue!Fresh <=> QueueFacts!Fresh
  BY DEF Queue!Fresh, QueueFacts!Fresh, Queue!Jobs, QueueFacts!Jobs
<1>3. Queue!OneQueuedPerRepo <=> QueueFacts!OneQueuedPerRepo
  BY DEF Queue!OneQueuedPerRepo, QueueFacts!OneQueuedPerRepo, Queue!Jobs, QueueFacts!Jobs,
         Queue!Queued, QueueFacts!Queued
<1>4. Queue!OneWorkerPerStore <=> QueueFacts!OneWorkerPerStore
  BY DEF Queue!OneWorkerPerStore, QueueFacts!OneWorkerPerStore, Queue!Jobs, QueueFacts!Jobs,
         Queue!Working, QueueFacts!Working
<1>5. Queue!DeletionIsExclusive <=> QueueFacts!DeletionIsExclusive
  BY DEF Queue!DeletionIsExclusive, QueueFacts!DeletionIsExclusive, Queue!Jobs,
         QueueFacts!Jobs, Queue!Working, QueueFacts!Working, Queue!Queued, QueueFacts!Queued,
         Queue!Deleting, QueueFacts!Deleting, Queue!Active, QueueFacts!Active,
         Queue!ActiveStatuses, QueueFacts!ActiveStatuses
<1>6. Queue!HeldRowsStayLeased <=> QueueFacts!HeldRowsStayLeased
  BY DEF Queue!HeldRowsStayLeased, QueueFacts!HeldRowsStayLeased, Queue!Working,
         QueueFacts!Working
<1> QED BY <1>1, <1>2, <1>3, <1>4, <1>5, <1>6 DEF Queue!IInv, QueueFacts!IInv

\* The queue keeps its invariant (IngestionJobsProofs).
LEMMA QueueInvStep == Queue!IInv /\ [Queue!Next]_(Queue!vars) => Queue!IInv'
<1>1. Queue!IInv' <=> QueueFacts!IInv'
  BY QueueInvariant, PTL
<1> QED BY <1>1, QueueInvariant, QueueStep, QueueAssumptions, QueueFacts!InvStep
-----------------------------------------------------------------------------
(***************************************************************************)
(* Types                                                                   *)
(***************************************************************************)
Records == [state : StoreStates, generation : Generations]
Runs == [pc : Positions, job : 0 .. MaxJobs, matches : BOOLEAN, superseded : BOOLEAN]
Calls == [repo : Repos, generation : 1 .. MaxGenerations,
          by : {"route", "runner", "startup"}, stage : {"bound", "observing"}]
LateRequests == [repo : Repos, generation : 1 .. MaxGenerations,
                 mode : {"files", "full"}, paths : SUBSET Paths]

\* The variables that the routes and the runner change in the stores.
StoreTypes ==
  /\ catalog \in [Repos -> Records]
  /\ store \in [Repos -> SUBSET (1 .. MaxGenerations)]
  /\ tombstones \in [Repos -> SUBSET Queue!Jobs]
  /\ nextGeneration \in 1 .. MaxGenerations + 1

\* The variables of the watchers.
WatchTypes ==
  /\ watcher \in [Repos -> Generations]
  /\ orphans \in [Repos -> SUBSET (1 .. MaxGenerations)]
  /\ late \in SUBSET LateRequests
  /\ enrolling \in SUBSET Calls
  /\ booting \in SUBSET Repos

OtherTypes == runner \in Runs /\ faults \in 0 .. MaxFaults

\* The type invariant in three parts.
LEMMA TypesAreAll == TypeOK <=> StoreTypes /\ WatchTypes /\ OtherTypes
  BY DEF TypeOK, StoreTypes, WatchTypes, OtherTypes, Records, Runs, Calls, LateRequests

\* The generation that ensure_graph returns is the root's, and in its store.
LEMMA EnsureGraphFacts ==
  ASSUME StoreTypes, NEW r \in Repos, NEW g \in Generations, EnsureGraph(r, g)
  PROVE  /\ StoreTypes'
         /\ g \in 1 .. MaxGenerations
         /\ tombstones' = tombstones
         /\ \A s \in Repos \ {r} : catalog'[s] = catalog[s] /\ store'[s] = store[s]
         /\ \/ catalog' = catalog /\ store' = store
            \/ /\ ~Bound(r)
               /\ catalog'[r] = [state |-> "semantic_stale", generation |-> g]
               /\ store'[r] = store[r] \cup {g}
<1>1. CASE LiveStore(r)
  BY <1>1, DaemonBoundsAssumption
     DEF EnsureGraph, LiveStore, Bound, StoreTypes, storeVars, Generations, Records
<1>2. CASE ~Bound(r)
  <2>1. /\ g = nextGeneration /\ g \in 1 .. MaxGenerations
        /\ nextGeneration' = g + 1
        /\ store' = [store EXCEPT ![r] = store[r] \cup {g}]
        /\ catalog' = [catalog EXCEPT ![r] = [state |-> "semantic_stale", generation |-> g]]
        /\ tombstones' = tombstones
    BY <1>2, DaemonBoundsAssumption
       DEF EnsureGraph, LiveStore, StoreTypes, Generations
  <2>2. [state |-> "semantic_stale", generation |-> g] \in Records
    BY DEF Records, StoreStates
  <2>3. store[r] \cup {g} \in SUBSET (1 .. MaxGenerations)
    BY <2>1 DEF StoreTypes
  <2>4. g + 1 \in 1 .. MaxGenerations + 1
    BY <2>1, DaemonBoundsAssumption
  <2> QED BY <1>2, <2>1, <2>2, <2>3, <2>4 DEF StoreTypes
<1> QED BY <1>1, <1>2 DEF EnsureGraph

\* What a record is once its state is set.
LEMMA SetState ==
  ASSUME StoreTypes, NEW r \in Repos, NEW state \in StoreStates
  PROVE  /\ [catalog[r] EXCEPT !.state = state] \in Records
         /\ [catalog[r] EXCEPT !.state = state].generation = catalog[r].generation
         /\ [catalog[r] EXCEPT !.state = state].state = state
  BY DEF StoreTypes, Records

\* The row of a held job is a row of the queue.
LEMMA JobFacts ==
  ASSUME Queue!IInv, runner.job \in held
  PROVE  /\ runner.job \in Queue!Jobs
         /\ Repo \in Repos
         /\ Job.generation \in Generations
         /\ Queue!Working(runner.job)
         /\ alive
  BY DEF Queue!IInv, Queue!TypeOK, Queue!Rows, Queue!HeldRowsStayLeased, Job, Repo
-----------------------------------------------------------------------------
(***************************************************************************)
(* What the steps of the queue leave of a row                              *)
(***************************************************************************)
Drops(j) == jobs[j].mode = "drop_index"

\* The row keeps its root, its binding and whether it is a deletion.
KeepsBinding(j) ==
  /\ jobs'[j].repo = jobs[j].repo
  /\ jobs'[j].generation = jobs[j].generation
  /\ Drops(j)' <=> Drops(j)

\* The row keeps its binding, a finished row everything, and a deletion its
\* place among the active ones unless it fails or is completed.
Moves(j) ==
  /\ KeepsBinding(j)
  /\ Queue!Terminal(j) => jobs'[j] = jobs[j]
  /\ jobs'[j].status = "absent" <=> jobs[j].status = "absent"
  /\ Drops(j) /\ jobs[j].status \notin {"cancelling", "cancelled"} =>
       jobs'[j].status \notin {"cancelling", "cancelled"}
  /\ Queue!Deleting(j)' => Queue!Deleting(j)

\* An active deletion stays one or fails.
StaysOrFails(j) == Queue!Deleting(j) => Queue!Deleting(j)' \/ jobs'[j].status = "failed"

\* The row is new, or a queued one that a request is merged into.
Arrives(j) ==
  /\ jobs[j].status = "absent" \/ (Queue!Queued(j) /\ ~Drops(j))
  /\ jobs'[j].status = "queued"
  /\ Queue!DeletionFor(jobs'[j].repo) = {}

\* Rows are rows.
LEMMA RowTypes ==
  ASSUME Queue!IInv, NEW j \in Queue!Jobs
  PROVE  jobs[j] \in Queue!Rows /\ jobs[j].repo \in Repos /\ jobs[j].mode \in Queue!Modes
         /\ jobs[j].status \in Queue!Statuses
  BY DEF Queue!IInv, Queue!TypeOK, Queue!Rows

\* A row that is not touched moves and stays.
LEMMA Untouched ==
  ASSUME NEW j, jobs'[j] = jobs[j]
  PROVE  Moves(j) /\ StaysOrFails(j)
  BY DEF Moves, StaysOrFails, KeepsBinding, Drops, Queue!Deleting, Queue!Active

\* _merge_payload and _mode_rank keep a deletion, and make none of anything else.
LEMMA MergeFacts ==
  ASSUME NEW row \in Queue!Rows, NEW mode \in Queue!Modes, NEW payload
  PROVE  /\ Queue!MergeInto(row, mode, payload).repo = row.repo
         /\ Queue!MergeInto(row, mode, payload).generation = row.generation
         /\ Queue!MergeInto(row, mode, payload).status = row.status
         /\ row.mode = "drop_index" =>
              Queue!MergeInto(row, mode, payload).mode = "drop_index"
         /\ row.mode # "drop_index" /\ mode # "drop_index" =>
              Queue!MergeInto(row, mode, payload).mode # "drop_index"
<1>1. row.mode \in Queue!Modes
  BY DEF Queue!Rows
<1>2. Queue!MergedMode(row.mode, mode) \in {row.mode, mode}
      /\ (row.mode = "drop_index" => Queue!MergedMode(row.mode, mode) = "drop_index")
  BY <1>1 DEF Queue!MergedMode, Queue!Rank, Queue!Modes
<1> DEFINE merged == Queue!MergedMode(row.mode, mode)
           load == Queue!MergedPayload(row.mode, row.payload, mode, payload)
<1>3. Queue!MergeInto(row, mode, payload) = [row EXCEPT !.mode = merged, !.payload = load]
  BY DEF Queue!MergeInto
<1> HIDE DEF merged, load
<1>4. /\ [row EXCEPT !.mode = merged, !.payload = load].repo = row.repo
      /\ [row EXCEPT !.mode = merged, !.payload = load].generation = row.generation
      /\ [row EXCEPT !.mode = merged, !.payload = load].status = row.status
      /\ [row EXCEPT !.mode = merged, !.payload = load].mode = merged
  BY DEF Queue!Rows
<1> QED BY <1>2, <1>3, <1>4 DEF merged

\* enqueue touches one row, which waits or is new, and never beside a deletion.
LEMMA EnqueueRows ==
  ASSUME Queue!IInv, NEW r \in Repos, NEW g \in Generations, NEW mode \in Queue!Modes,
         NEW paths, Enqueue(r, g, mode, paths)
  PROVE  /\ Queue!DeletionFor(r) = {}
         /\ alive' = alive /\ held' = held /\ boot' = boot
         /\ \A j \in Queue!Jobs :
              \/ jobs'[j] = jobs[j]
              \/ /\ Arrives(j) /\ jobs'[j].repo = r
                 /\ Drops(j)' => mode = "drop_index"
<1> DEFINE load == Queue!RequestPayload(mode, paths)
<1>1. CASE Queue!EnqueueMerge(r, mode, paths)
  <2>1. PICK q \in Queue!QueuedFor(r) :
          jobs' = [jobs EXCEPT ![q] = Queue!MergeInto(jobs[q], mode, load)]
    BY <1>1 DEF Queue!EnqueueMerge
  <2>2. q \in Queue!Jobs /\ Queue!Queued(q) /\ jobs[q].repo = r
    BY <2>1 DEF Queue!QueuedFor
  <2>3. Queue!DeletionFor(r) = {} /\ alive' = alive /\ held' = held /\ boot' = boot
    BY <1>1 DEF Queue!EnqueueMerge
  <2>4. ~Drops(q)
    BY <2>2, <2>3 DEF Queue!DeletionFor, Queue!Deleting, Queue!Active, Queue!ActiveStatuses,
       Queue!Queued, Drops
  <2>5. jobs \in [Queue!Jobs -> Queue!Rows] /\ jobs[q] \in Queue!Rows
    BY <2>2, RowTypes DEF Queue!IInv, Queue!TypeOK
  <2> HIDE DEF load
  <2>6. /\ jobs'[q].repo = r /\ jobs'[q].status = jobs[q].status
        /\ mode # "drop_index" => jobs'[q].mode # "drop_index"
    BY <2>1, <2>2, <2>4, <2>5, MergeFacts DEF Drops
  <2>7. Arrives(q) /\ (Drops(q)' => mode = "drop_index")
    BY <2>2, <2>3, <2>4, <2>6 DEF Arrives, Queue!Queued, Drops
  <2>8. \A j \in Queue!Jobs : j # q => jobs'[j] = jobs[j]
    BY <2>1, <2>5
  <2> QED BY <2>3, <2>6, <2>7, <2>8
<1>2. CASE Queue!EnqueueInsert(r, g, mode, paths)
  <2> DEFINE row == [repo |-> r, generation |-> g, mode |-> mode, payload |-> load,
                     status |-> "queued", attempts |-> 0, owner |-> 0, expired |-> FALSE]
  <2>1. PICK n \in Queue!Jobs :
          n = nextId /\ jobs' = [jobs EXCEPT ![n] = row]
    BY <1>2 DEF Queue!EnqueueInsert
  <2>2. row.repo = r /\ row.status = "queued" /\ row.mode = mode
    OBVIOUS
  <2>3. Queue!DeletionFor(r) = {} /\ alive' = alive /\ held' = held /\ boot' = boot
    BY <1>2 DEF Queue!EnqueueInsert
  <2> HIDE DEF row, load
  <2>4. jobs[n].status = "absent"
    BY <2>1 DEF Queue!IInv, Queue!Fresh, Queue!Jobs
  <2>5. jobs \in [Queue!Jobs -> Queue!Rows]
    BY DEF Queue!IInv, Queue!TypeOK
  <2>6. jobs'[n] = row /\ \A j \in Queue!Jobs : j # n => jobs'[j] = jobs[j]
    BY <2>1, <2>5
  <2>7. jobs'[n].repo = r /\ jobs'[n].status = "queued" /\ jobs'[n].mode = mode
    BY <2>2, <2>6
  <2>8. Arrives(n)
    BY <2>3, <2>4, <2>7 DEF Arrives
  <2> QED BY <2>3, <2>6, <2>7, <2>8 DEF Drops
<1> QED BY <1>1, <1>2 DEF Enqueue

\* request_cancel_all passes over deletions and finished rows.
LEMMA CancelAllRows ==
  ASSUME Queue!IInv, Queue!RequestCancelAll
  PROVE  /\ alive' = alive /\ held' = held
         /\ \A j \in Queue!Jobs :
              /\ Moves(j) /\ StaysOrFails(j) /\ jobs'[j].mode = jobs[j].mode
              /\ Queue!Working(j) =>
                   jobs'[j].status \in {jobs[j].status, "cancelling"}
<1> SUFFICES ASSUME NEW j \in Queue!Jobs
             PROVE  /\ Moves(j) /\ StaysOrFails(j) /\ jobs'[j].mode = jobs[j].mode
                    /\ Queue!Working(j) =>
                         jobs'[j].status \in {jobs[j].status, "cancelling"}
  BY DEF Queue!RequestCancelAll
<1>1. jobs'[j] = IF jobs[j].mode = "drop_index" THEN jobs[j] ELSE Queue!CancelRequested(jobs[j])
  BY DEF Queue!RequestCancelAll
<1>2. CASE jobs'[j] = jobs[j]
  BY <1>2, Untouched
<1>3. CASE jobs'[j] # jobs[j]
  <2>1. ~Drops(j) /\ jobs'[j] = Queue!CancelRequested(jobs[j])
    BY <1>1, <1>3 DEF Drops
  <2>2. \/ /\ jobs[j].status = "queued"
           /\ jobs'[j] = Queue!Settled(jobs[j], "cancelled")
        \/ /\ jobs[j].status = "running"
           /\ jobs'[j] = [jobs[j] EXCEPT !.status = "cancelling"]
    BY <1>3, <2>1 DEF Queue!CancelRequested
  <2>3. jobs[j] \in Queue!Rows
    BY RowTypes
  <2>4. /\ jobs'[j].repo = jobs[j].repo /\ jobs'[j].generation = jobs[j].generation
        /\ jobs'[j].mode = jobs[j].mode
        /\ \/ jobs[j].status = "queued" /\ jobs'[j].status = "cancelled"
           \/ jobs[j].status = "running" /\ jobs'[j].status = "cancelling"
    BY <2>2, <2>3 DEF Queue!Settled, Queue!Rows
  <2> QED BY <2>1, <2>4 DEF Moves, StaysOrFails, KeepsBinding, Drops, Queue!Terminal,
          Queue!Deleting, Queue!Active, Queue!Working
<1> QED BY <1>2, <1>3

\* claim_next touches only the row it claims.
LEMMA ClaimRows ==
  ASSUME Queue!IInv, NEW c \in Queue!Jobs, Queue!ClaimNext(c)
  PROVE  /\ alive' = alive /\ alive /\ held' = held \cup {c}
         /\ jobs'[c].status = "running"
         /\ \A j \in Queue!Jobs : Moves(j) /\ StaysOrFails(j)
<1>1. /\ jobs' = [jobs EXCEPT ![c] = [jobs[c] EXCEPT !.status = "running", !.owner = boot,
                                                    !.expired = FALSE]]
      /\ Queue!Queued(c)
      /\ alive /\ alive' = alive /\ held' = held \cup {c}
  BY DEF Queue!ClaimNext, Queue!Claimable
<1>2. jobs \in [Queue!Jobs -> Queue!Rows] /\ jobs[c] \in Queue!Rows
  BY RowTypes DEF Queue!IInv, Queue!TypeOK
<1>3. /\ jobs'[c].repo = jobs[c].repo /\ jobs'[c].generation = jobs[c].generation
      /\ jobs'[c].mode = jobs[c].mode /\ jobs'[c].status = "running"
      /\ \A j \in Queue!Jobs : j # c => jobs'[j] = jobs[j]
  BY <1>1, <1>2 DEF Queue!Rows
<1>4. Moves(c) /\ StaysOrFails(c)
  BY <1>1, <1>3 DEF Moves, StaysOrFails, KeepsBinding, Drops, Queue!Terminal,
          Queue!Deleting, Queue!Active, Queue!Queued, Queue!ActiveStatuses
<1> QED BY <1>1, <1>3, <1>4, Untouched

\* The manifest and its acknowledgements are payload.
LEMMA PayloadRows ==
  ASSUME Queue!IInv, NEW c \in Queue!Jobs, NEW paths,
         \/ Queue!InstallForceFullSnapshot(c, paths)
         \/ Queue!AcknowledgeForceFullSnapshotFiles(c, paths)
  PROVE  /\ alive' = alive /\ held' = held
         /\ \A j \in Queue!Jobs :
              /\ Moves(j) /\ StaysOrFails(j)
              /\ jobs'[j].mode = jobs[j].mode /\ jobs'[j].status = jobs[j].status
<1>1. PICK load :
        /\ jobs' = [jobs EXCEPT ![c] = [jobs[c] EXCEPT !.payload = load]]
        /\ alive' = alive /\ held' = held
  <2>1. CASE Queue!InstallForceFullSnapshot(c, paths)
    BY <2>1 DEF Queue!InstallForceFullSnapshot
  <2>2. CASE Queue!AcknowledgeForceFullSnapshotFiles(c, paths)
    <3>1. jobs' = [jobs EXCEPT ![c] = [jobs[c] EXCEPT !.payload =
                    [jobs[c].payload EXCEPT !.acked = jobs[c].payload.acked \cup paths]]]
      BY <2>2 DEF Queue!AcknowledgeForceFullSnapshotFiles
    <3> QED BY <2>2, <3>1 DEF Queue!AcknowledgeForceFullSnapshotFiles
  <2> QED BY <2>1, <2>2
<1>2. jobs \in [Queue!Jobs -> Queue!Rows] /\ jobs[c] \in Queue!Rows
  BY RowTypes DEF Queue!IInv, Queue!TypeOK
<1>3. /\ jobs'[c].repo = jobs[c].repo /\ jobs'[c].generation = jobs[c].generation
      /\ jobs'[c].mode = jobs[c].mode /\ jobs'[c].status = jobs[c].status
      /\ \A j \in Queue!Jobs : j # c => jobs'[j] = jobs[j]
  BY <1>1, <1>2 DEF Queue!Rows
<1>4. ~Queue!Terminal(c)
  <2>1. Queue!Working(c)
    BY DEF Queue!InstallForceFullSnapshot, Queue!AcknowledgeForceFullSnapshotFiles, Queue!IInv,
       Queue!HeldRowsStayLeased
  <2> QED BY <2>1 DEF Queue!Working, Queue!Terminal
<1>5. Moves(c) /\ StaysOrFails(c)
  BY <1>3, <1>4 DEF Moves, StaysOrFails, KeepsBinding, Drops, Queue!Deleting, Queue!Active
<1> QED BY <1>1, <1>3, <1>5, Untouched

\* complete and mark_cancelled settle the row of the caller.
LEMMA SettleRows ==
  ASSUME Queue!IInv, NEW c \in held, NEW status \in {"completed", "cancelled"},
         jobs' = [jobs EXCEPT ![c] = Queue!Settled(@, status)],
         Drops(c) => status = "completed"
  PROVE  /\ c \in Queue!Jobs
         /\ jobs'[c].status = status
         /\ \A j \in Queue!Jobs : Moves(j)
         /\ \A j \in Queue!Jobs \ {c} : StaysOrFails(j)
<1>2. c \in Queue!Jobs /\ jobs \in [Queue!Jobs -> Queue!Rows] /\ jobs[c] \in Queue!Rows
      /\ Queue!Working(c)
  BY RowTypes DEF Queue!IInv, Queue!TypeOK, Queue!HeldRowsStayLeased
<1>3. /\ jobs'[c].repo = jobs[c].repo /\ jobs'[c].generation = jobs[c].generation
      /\ jobs'[c].mode = jobs[c].mode /\ jobs'[c].status = status
      /\ \A j \in Queue!Jobs : j # c => jobs'[j] = jobs[j]
  BY <1>2 DEF Queue!Rows, Queue!Settled
<1>5. Moves(c)
  BY <1>2, <1>3 DEF Moves, KeepsBinding, Drops, Queue!Deleting, Queue!Active, Queue!Terminal,
     Queue!Working, Queue!ActiveStatuses
<1> QED BY <1>2, <1>3, <1>5, Untouched

\* A deletion that works has no other active row beside it.
LEMMA DropsWorkAlone ==
  ASSUME Queue!IInv, NEW j \in Queue!Jobs, Queue!Working(j), Drops(j)
  PROVE  /\ Queue!Deleting(j)
         /\ Queue!QueuedFor(jobs[j].repo) = {}
         /\ \A k \in Queue!Jobs : Queue!Active(k) /\ jobs[k].repo = jobs[j].repo => k = j
<1>1. Queue!Deleting(j) /\ ~Queue!Queued(j)
  BY DEF Queue!Deleting, Queue!Active, Queue!Working, Drops, Queue!ActiveStatuses, Queue!Queued
<1>2. \A k \in Queue!Jobs : Queue!Active(k) /\ jobs[k].repo = jobs[j].repo => k = j
  BY <1>1 DEF Queue!IInv, Queue!DeletionIsExclusive
<1>3. \A k \in Queue!Jobs : Queue!Queued(k) => Queue!Active(k)
  BY DEF Queue!Active, Queue!Queued, Queue!ActiveStatuses
<1> QED BY <1>1, <1>2, <1>3 DEF Queue!QueuedFor

\* _settle keeps the binding and the mode; so does a retry.
LEMMA SettledFacts ==
  ASSUME NEW row \in Queue!Rows, NEW status, NEW attempts
  PROVE  /\ Queue!Settled(row, status).repo = row.repo
         /\ Queue!Settled(row, status).generation = row.generation
         /\ Queue!Settled(row, status).mode = row.mode
         /\ Queue!Settled(row, status).status = status
         /\ [Queue!Settled(row, status) EXCEPT !.attempts = attempts].repo = row.repo
         /\ [Queue!Settled(row, status) EXCEPT !.attempts = attempts].generation
              = row.generation
         /\ [Queue!Settled(row, status) EXCEPT !.attempts = attempts].mode = row.mode
         /\ [Queue!Settled(row, status) EXCEPT !.attempts = attempts].status = status
  BY DEF Queue!Settled, Queue!Rows

\* A retry keeps them too and either queues the row or fails it.
LEMMA RetriedFacts ==
  ASSUME NEW row \in Queue!Rows, NEW attempts
  PROVE  /\ Queue!Retried(row, attempts).repo = row.repo
         /\ Queue!Retried(row, attempts).generation = row.generation
         /\ Queue!Retried(row, attempts).mode = row.mode
         /\ Queue!Retried(row, attempts).status \in {"failed", "queued"}
<1> DEFINE status == IF attempts >= MaxAttempts THEN "failed" ELSE "queued"
<1>1. Queue!Retried(row, attempts) = [Queue!Settled(row, status) EXCEPT !.attempts = attempts]
  BY DEF Queue!Retried
<1>2. status \in {"failed", "queued"}
  OBVIOUS
<1> HIDE DEF status
<1> QED BY <1>1, <1>2, SettledFacts

\* fail_or_retry gives a row back, or merges it into the one that waits.
LEMMA RetryRows ==
  ASSUME Queue!IInv, NEW c \in Queue!Jobs, Queue!FailOrRetry(c)
  PROVE  \A j \in Queue!Jobs : Moves(j) /\ StaysOrFails(j)
<1> DEFINE attempts == jobs[c].attempts + 1
           others == Queue!QueuedFor(jobs[c].repo) \ {c}
<1>2. jobs \in [Queue!Jobs -> Queue!Rows] /\ jobs[c] \in Queue!Rows /\ Queue!Working(c)
  BY RowTypes DEF Queue!IInv, Queue!TypeOK, Queue!HeldRowsStayLeased, Queue!FailOrRetry
<1>s. /\ Queue!Settled(jobs[c], "cancelled") = Queue!Settled(jobs[c], "cancelled")
      /\ ~Queue!Terminal(c) /\ jobs[c].status # "absent"
      /\ Drops(c) => Queue!Deleting(c)
  BY <1>2 DEF Queue!Working, Queue!Terminal, Drops, Queue!Deleting, Queue!Active, Queue!ActiveStatuses
<1>3. CASE jobs' = [jobs EXCEPT ![c] = Queue!Retried(jobs[c], attempts)]
  <2> HIDE DEF attempts
  <2>1. /\ jobs'[c].repo = jobs[c].repo /\ jobs'[c].generation = jobs[c].generation
        /\ jobs'[c].mode = jobs[c].mode /\ jobs'[c].status \in {"failed", "queued"}
        /\ \A j \in Queue!Jobs : j # c => jobs'[j] = jobs[j]
    BY <1>2, <1>3, RetriedFacts
  <2>2. Moves(c) /\ StaysOrFails(c)
    BY <1>s, <2>1 DEF Moves, StaysOrFails, KeepsBinding, Drops, Queue!Deleting, Queue!Active,
       Queue!ActiveStatuses
  <2> QED BY <2>1, <2>2, Untouched
<1>4. CASE \E q \in others : jobs' = [jobs EXCEPT
                ![q] = Queue!MergeInto(@, jobs[c].mode, jobs[c].payload),
                ![c] = [Queue!Settled(@, "cancelled") EXCEPT !.attempts = attempts]]
  <2>1. PICK q \in others : jobs' = [jobs EXCEPT
                ![q] = Queue!MergeInto(@, jobs[c].mode, jobs[c].payload),
                ![c] = [Queue!Settled(@, "cancelled") EXCEPT !.attempts = attempts]]
    BY <1>4
  <2>2. q \in Queue!Jobs /\ q # c /\ Queue!Queued(q) /\ jobs[q] \in Queue!Rows
        /\ jobs[c].mode \in Queue!Modes
    BY RowTypes DEF Queue!QueuedFor
  <2>3. ~Drops(c)
    BY <1>2, DropsWorkAlone
  <2> HIDE DEF attempts, others
  <2>4. /\ jobs'[q] = Queue!MergeInto(jobs[q], jobs[c].mode, jobs[c].payload)
        /\ jobs'[c] = [Queue!Settled(jobs[c], "cancelled") EXCEPT !.attempts = attempts]
        /\ \A j \in Queue!Jobs : j # c /\ j # q => jobs'[j] = jobs[j]
    BY <1>2, <2>1, <2>2
  <2>5. /\ jobs'[c].repo = jobs[c].repo /\ jobs'[c].generation = jobs[c].generation
        /\ jobs'[c].mode = jobs[c].mode /\ jobs'[c].status = "cancelled"
    BY <1>2, <2>4, SettledFacts
  <2>6. /\ jobs'[q].repo = jobs[q].repo /\ jobs'[q].generation = jobs[q].generation
        /\ jobs'[q].status = jobs[q].status /\ (Drops(q)' <=> Drops(q))
    BY <2>2, <2>3, <2>4, MergeFacts DEF Drops
  <2>7. Moves(c) /\ StaysOrFails(c)
    BY <1>s, <2>3, <2>5 DEF Moves, StaysOrFails, KeepsBinding, Drops, Queue!Deleting, Queue!Active
  <2>8. Moves(q) /\ StaysOrFails(q)
    BY <2>2, <2>6 DEF Moves, StaysOrFails, KeepsBinding, Drops, Queue!Deleting, Queue!Active,
       Queue!Terminal, Queue!Queued
  <2> QED BY <2>4, <2>7, <2>8, Untouched
<1> QED BY <1>3, <1>4 DEF Queue!FailOrRetry

\* Recovery retries, requeues or merges what a dead daemon left, and deletions alone.
LEMMA RecoveryRows ==
  ASSUME Queue!IInv, Queue!StartRunner
  PROVE  \A j \in Queue!Jobs : Moves(j) /\ StaysOrFails(j)
<1> DEFINE o == boot + 1
<1>0. jobs' = Queue!Reclaimed(o)
  BY DEF Queue!StartRunner
<1> HIDE DEF o
<1> SUFFICES ASSUME NEW j \in Queue!Jobs PROVE Moves(j) /\ StaysOrFails(j)
  OBVIOUS
<1> DEFINE stale(k) == Queue!Stale(k, o) /\ jobs[k].repo = jobs[j].repo
           k0 == CHOOSE k \in Queue!Jobs : Queue!Stale(k, o) /\ jobs[k].repo = jobs[j].repo
<1>r. jobs[j] \in Queue!Rows
  BY RowTypes
<1>w. Queue!Stale(j, o) => /\ Queue!Working(j) /\ ~Queue!Queued(j) /\ ~Queue!Terminal(j)
                           /\ jobs[j].status # "absent"
                           /\ Drops(j) => Queue!Deleting(j)
  BY DEF Queue!Stale, Queue!Working, Queue!Queued, Queue!Terminal, Drops, Queue!Deleting,
     Queue!Active, Queue!ActiveStatuses
<1>1. CASE Queue!Stale(j, o) /\ Queue!QueuedFor(jobs[j].repo) # {}
  <2>1. jobs'[j] = Queue!Settled(jobs[j], "cancelled")
    BY <1>0, <1>1, <1>w DEF Queue!Reclaimed
  <2>2. ~Drops(j)
    BY <1>1, <1>w, DropsWorkAlone
  <2>3. /\ jobs'[j].repo = jobs[j].repo /\ jobs'[j].generation = jobs[j].generation
        /\ jobs'[j].mode = jobs[j].mode /\ jobs'[j].status = "cancelled"
    BY <1>r, <2>1, SettledFacts
  <2> QED BY <1>1, <1>w, <2>2, <2>3 DEF Moves, StaysOrFails, KeepsBinding, Drops, Queue!Deleting,
      Queue!Active
<1>2. CASE Queue!Stale(j, o) /\ Queue!QueuedFor(jobs[j].repo) = {}
  <2>1. PICK attempts : jobs'[j] = Queue!Retried(jobs[j], attempts)
    BY <1>0, <1>2, <1>w DEF Queue!Reclaimed
  <2>3. /\ jobs'[j].repo = jobs[j].repo /\ jobs'[j].generation = jobs[j].generation
        /\ jobs'[j].mode = jobs[j].mode /\ jobs'[j].status \in {"failed", "queued"}
    BY <1>r, <2>1, RetriedFacts
  <2> QED BY <1>2, <1>w, <2>3 DEF Moves, StaysOrFails, KeepsBinding, Drops, Queue!Deleting,
      Queue!Active, Queue!ActiveStatuses
<1>3. CASE ~Queue!Stale(j, o) /\ Queue!Queued(j) /\ \E k \in Queue!Jobs : stale(k)
  <2>1. k0 \in Queue!Jobs /\ Queue!Stale(k0, o) /\ jobs[k0].repo = jobs[j].repo
    BY <1>3
  <2> HIDE DEF k0
  <2>2. jobs'[j] = Queue!MergeInto(jobs[j], jobs[k0].mode, jobs[k0].payload)
    BY <1>0, <1>3 DEF Queue!Reclaimed, k0
  <2>3. Queue!Working(k0) /\ jobs[k0].mode \in Queue!Modes
    BY <2>1, RowTypes DEF Queue!Stale
  <2>4. ~Drops(k0)
    BY <1>3, <2>1, <2>3, DropsWorkAlone DEF Queue!QueuedFor
  <2>5. /\ jobs'[j].repo = jobs[j].repo /\ jobs'[j].generation = jobs[j].generation
        /\ jobs'[j].status = jobs[j].status /\ (Drops(j)' <=> Drops(j))
    BY <1>r, <2>2, <2>3, <2>4, MergeFacts DEF Drops
  <2> QED BY <1>3, <2>5 DEF Moves, StaysOrFails, KeepsBinding, Drops, Queue!Deleting,
      Queue!Active, Queue!Terminal, Queue!Queued
<1>4. CASE ~Queue!Stale(j, o) /\ ~(Queue!Queued(j) /\ \E k \in Queue!Jobs : stale(k))
  <2>1. jobs'[j] = jobs[j]
    BY <1>0, <1>4 DEF Queue!Reclaimed
  <2> QED BY <2>1, Untouched
<1> QED BY <1>1, <1>2, <1>3, <1>4
-----------------------------------------------------------------------------
(***************************************************************************)
(* The inductive invariant                                                 *)
(***************************************************************************)
Holding == Positions \ {"idle", "restoring", "rewatching", "dead"}

\* The runner holds exactly the row it works on.
RunnerOwns ==
  /\ ~alive => runner.pc = "idle"
  /\ held = IF runner.pc \in Holding THEN {runner.job} ELSE {}
  /\ runner.pc = "cancelled" => Job.status = "cancelling"
  /\ runner.pc = "restoring" => runner.job \in Queue!Jobs

\* on_failed waits for the one watcher it restores.
RunnerWaits ==
  \A c, d \in enrolling :
    c.by = "runner" =>
      /\ runner.pc = "rewatching"
      /\ d.by = "runner" => d = c

\* Cancel-all passes deletions over.
DropsAreNotCancelled ==
  \A j \in Queue!Jobs : Drops(j) => jobs[j].status \notin {"cancelling", "cancelled"}

\* A root without record has no generation.
AbsentIsUnbound == \A r \in Repos : ~Registered(r) => catalog[r] = Absent

\* What the position of the runner says of the deletion it executes.
DeletionProgress ==
  /\ runner.pc \in {"retiring", "renaming", "unregistering", "removing"} =>
       Job.mode = "drop_index"
  /\ runner.pc \in {"started", "opened", "writing", "cancelled"} => Job.mode # "drop_index"
  /\ runner.pc \in {"retiring", "renaming", "unregistering"} =>
       ~runner.superseded /\ (Registered(Repo) => Matches /\ runner.matches)
  /\ runner.pc = "unregistering" => store[Repo] = {}
  /\ runner.pc \in {"removing", "executed", "publishing", "published"}
     /\ Job.mode = "drop_index" =>
       IF runner.superseded THEN Registered(Repo) /\ ~Matches
       ELSE catalog[Repo] = Absent /\ store[Repo] = {}
  /\ runner.pc \in {"executed", "publishing", "published"} /\ Job.mode = "drop_index" =>
       tombstones[Repo] = {}

\* A tombstone was left by a deletion that has not given the store back.
TombstonesAreDeletions ==
  \A r \in Repos : \A j \in tombstones[r] :
    /\ jobs[j].status # "absent"
    /\ jobs[j].mode = "drop_index"
    /\ Queue!Active(j) /\ jobs[j].repo = r => store[r] = {}

\* NotReadyWhileWriting with the steps that lead to it.
Withdrawn ==
  /\ runner.pc \in {"started", "opened", "writing", "executed", "publishing", "raised"}
  /\ Job.mode # "drop_index"
  /\ Matches
  => catalog[Repo].state # "semantic_ready"

\* Record and store of the root agree, or are what an enrollment left that failed.
Whole(r) == LiveStore(r) \/ (~Bound(r) /\ (store[r] = {} \/ Registered(r)))
FailedFor(r) ==
  \E j \in Queue!Jobs : jobs[j].repo = r /\ Drops(j) /\ jobs[j].status = "failed"

\* A pending deletion that the catalog has left behind explains nothing.
HalvesOfOthers ==
  /\ \A r \in Repos : Whole(r) \/ FailedFor(r) \/ DeletionPending(r)
  /\ \A j \in Queue!Jobs :
       Queue!Deleting(j) /\ Registered(jobs[j].repo)
         /\ catalog[jobs[j].repo].generation # jobs[j].generation
       => Whole(jobs[j].repo) \/ FailedFor(jobs[j].repo)

DaemonInv ==
  /\ Queue!IInv
  /\ TypeOK
  /\ RunnerOwns
  /\ RunnerWaits
  /\ DropsAreNotCancelled
  /\ AbsentIsUnbound
  /\ DeletionProgress
  /\ TombstonesAreDeletions
  /\ Withdrawn
  /\ HalvesOfOthers

\* The row the runner holds.
LEMMA HeldJob ==
  ASSUME Queue!IInv, RunnerOwns, runner.pc \in Holding
  PROVE  /\ runner.job \in Queue!Jobs
         /\ Repo \in Repos
         /\ Job.generation \in Generations
         /\ Queue!Working(runner.job)
         /\ alive
         /\ held = {runner.job}
<1>1. runner.job \in held
  BY DEF RunnerOwns
<1> QED BY <1>1, JobFacts DEF RunnerOwns

\* What a step does to the queue.
LEMMA StepKinds ==
  ASSUME TypeOK, [Next]_vars
  PROVE  \/ UNCHANGED queueVars
         \/ \E r \in Repos, g \in Generations, mode \in Queue!Modes, paths \in SUBSET Paths :
              /\ Enqueue(r, g, mode, paths)
              /\ mode = "drop_index" => UNCHANGED storeVars
              /\ UNCHANGED runner
         \/ Queue!RequestCancelAll /\ UNCHANGED runner
         \/ Claim \/ FreezeManifest \/ (\E path \in Paths : AcknowledgeBatch(path))
         \/ CompleteJob \/ CancelJob \/ FailJob \/ Boot \/ Crash
<1> DEFINE Asks == \E r \in Repos, g \in Generations, mode \in Queue!Modes, paths \in SUBSET Paths :
              /\ Enqueue(r, g, mode, paths)
              /\ mode = "drop_index" => UNCHANGED storeVars
              /\ UNCHANGED runner
<1>m. {"files", "full", "force_full", "drop_index"} \subseteq Queue!Modes
      /\ {} \in SUBSET Paths /\ 1 .. MaxGenerations \subseteq Generations
  BY DaemonBoundsAssumption DEF Queue!Modes, Generations
<1>1. ASSUME NEW r \in Repos, NEW mode \in {"full", "force_full"}, Index(r, mode) PROVE Asks
  BY Zenon, <1>1, <1>m DEF Index, EnqueueRequest
<1>2. ASSUME NEW r \in Repos, DropIndex(r) PROVE Asks
  <2>1. catalog[r].generation \in Generations
    BY DEF TypeOK
  <2> QED BY Zenon, <1>2, <1>m, <2>1 DEF DropIndex, EnqueueRequest
<1>3. ASSUME NEW request \in late, EnqueueLate(request) PROVE Asks \/ UNCHANGED queueVars
  <2>1. /\ request.repo \in Repos /\ request.generation \in Generations
        /\ request.mode \in Queue!Modes /\ request.paths \in SUBSET Paths
        /\ request.mode # "drop_index"
    BY <1>m DEF TypeOK, Queue!Modes
  <2> QED BY <1>3, <2>1 DEF EnqueueLate, EnqueueRequest
<1>4. ASSUME NEW call \in enrolling, Reconcile(call) PROVE Asks
  <2>1. call.repo \in Repos /\ call.generation \in Generations
    BY <1>m DEF TypeOK
  <2>2. Enqueue(call.repo, call.generation, "full", {})
    BY <1>4 DEF Reconcile, EnqueueRequest
  <2> QED BY Zenon, <1>4, <1>m, <2>1, <2>2 DEF Reconcile
<1>5. ASSUME NEW call \in enrolling, ReconcileRejected(call) \/ InsertWatcher(call)
      PROVE  UNCHANGED queueVars
  BY <1>5 DEF ReconcileRejected, InsertWatcher
<1>6. ASSUME NEW r \in Repos,
             \/ RestoreOnStartup(r) \/ EnsureGraphFails(r) \/ WatcherFires(r)
             \/ \E paths \in SUBSET Paths \ {{}} : IngestFiles(r, paths)
      PROVE  UNCHANGED queueVars
  BY <1>6 DEF RestoreOnStartup, EnsureGraphFails, WatcherFires, IngestFiles, Late
<1>8. CASE \/ MarkStale \/ Cancelling \/ OpenGraph \/ StartWriting \/ IngestEnds \/ IngestRaises
           \/ ReadStatus \/ Publish \/ BeginDeletion \/ DeleteGraph \/ RetireStore
           \/ Unregister \/ RemoveTombstones \/ DeletionRaises \/ RestoreAfterFailure
  BY <1>8 DEF MarkStale, Cancelling, OpenGraph, StartWriting, IngestEnds, IngestRaises,
     ReadStatus, Publish, BeginDeletion, DeleteGraph, RetireStore, Unregister,
     RemoveTombstones, DeletionRaises, RestoreAfterFailure, runnerOnly
<1>9. CASE UNCHANGED vars
  BY <1>9 DEF vars
<1> HIDE DEF Asks
<1>10. CASE RunOnce
  BY <1>8, <1>10 DEF RunOnce
<1>11. Watching => Asks \/ UNCHANGED queueVars
  BY <1>4, <1>5, <1>6 DEF Watching
<1>12. Requests => Asks \/ UNCHANGED queueVars \/ (Queue!RequestCancelAll /\ UNCHANGED runner)
  <2>1. ASSUME NEW r \in Repos,
               \/ \E mode \in {"full", "force_full"} : Index(r, mode)
               \/ EnsureGraphFails(r)
               \/ DropIndex(r)
               \/ \E paths \in SUBSET Paths \ {{}} : IngestFiles(r, paths)
               \/ WatcherFires(r)
        PROVE  Asks \/ UNCHANGED queueVars
    BY Zenon, <1>1, <1>2, <1>6, <2>1
  <2>2. CancelAll => Queue!RequestCancelAll /\ UNCHANGED runner
    BY DEF CancelAll
  <2> QED BY Zenon, <2>1, <2>2 DEF Requests
<1> QED BY <1>3, <1>9, <1>10, <1>11, <1>12 DEF Next, Asks

\* The daemon uses the queue as the queue is meant to be used.
LEMMA QueueUse ==
  ASSUME Queue!IInv, TypeOK, RunnerOwns, [Next]_vars
  PROVE  [Queue!Next]_(Queue!vars)
<1>1. CASE UNCHANGED queueVars
  BY <1>1 DEF queueVars, Queue!vars
<1>2. CASE \E r \in Repos, g \in Generations, mode \in Queue!Modes, paths \in SUBSET Paths :
             Enqueue(r, g, mode, paths)
  BY <1>2 DEF Enqueue, Queue!Next, Queue!Enqueue
<1>3. CASE Queue!RequestCancelAll \/ Boot \/ Crash
  BY <1>3 DEF Boot, Crash, Queue!Next
<1>4. CASE Claim
  BY <1>4 DEF Claim, Queue!Next, Queue!RowStep
<1>5. CASE FreezeManifest \/ (\E path \in Paths : AcknowledgeBatch(path))
  <2>1. runner.job \in Queue!Jobs
    BY <1>5, HeldJob DEF FreezeManifest, AcknowledgeBatch, At, Holding, Positions
  <2>2. CASE FreezeManifest
    BY <2>1, <2>2 DEF FreezeManifest, Queue!Next, Queue!RowStep
  <2>3. CASE \E path \in Paths : AcknowledgeBatch(path)
    <3>1. PICK path \in Paths : AcknowledgeBatch(path)
      BY <2>3
    <3>2. {path} \in SUBSET Paths
          /\ Queue!AcknowledgeForceFullSnapshotFiles(runner.job, {path})
      BY <3>1 DEF AcknowledgeBatch
    <3> QED BY <2>1, <3>2 DEF Queue!Next, Queue!RowStep
  <2> QED BY <1>5, <2>2, <2>3
<1>6. CASE CompleteJob \/ CancelJob \/ FailJob
  <2>1. /\ runner.job \in Queue!Jobs
        /\ held = {runner.job}
    BY <1>6, HeldJob DEF CompleteJob, CancelJob, FailJob, At, Holding, Positions
  <2>2. CancelJob => Queue!MarkCancelled(runner.job)
    BY <2>1 DEF CancelJob, Queue!MarkCancelled, RunnerOwns, Job, At
  <2>3. Queue!Finish(runner.job)
    BY <1>6, <2>2 DEF CompleteJob, FailJob, Queue!Finish
  <2> QED BY <2>1, <2>3 DEF Queue!Next, Queue!RowStep
<1> QED BY StepKinds, <1>1, <1>2, <1>3, <1>4, <1>5, <1>6

\* What a step of the daemon does to a row.
LEMMA RowsStep ==
  ASSUME Queue!IInv, TypeOK, RunnerOwns, DropsAreNotCancelled, DeletionProgress, [Next]_vars
  PROVE  \A j \in Queue!Jobs :
           \/ /\ Moves(j)
              /\ StaysOrFails(j) \/ (CompleteJob /\ j = runner.job)
           \/ /\ Arrives(j)
              /\ Drops(j)' => UNCHANGED storeVars
<1> DEFINE Tame == \A j \in Queue!Jobs : Moves(j) /\ StaysOrFails(j)
<1>1. CASE UNCHANGED queueVars
  BY <1>1, Untouched DEF queueVars
<1>2. ASSUME NEW r \in Repos, NEW g \in Generations, NEW mode \in Queue!Modes,
             NEW paths \in SUBSET Paths, Enqueue(r, g, mode, paths),
             mode = "drop_index" => UNCHANGED storeVars,
             NEW j \in Queue!Jobs
      PROVE  \/ Moves(j) /\ StaysOrFails(j)
             \/ Arrives(j) /\ (Drops(j)' => UNCHANGED storeVars)
  BY <1>2, EnqueueRows, Untouched
<1>3. Queue!RequestCancelAll => Tame
  BY CancelAllRows
<1>4. Claim => Tame
  BY ClaimRows DEF Claim
<1>5. ASSUME FreezeManifest \/ (\E path \in Paths : AcknowledgeBatch(path)) PROVE Tame
  <2>1. runner.job \in Queue!Jobs
    BY <1>5, HeldJob DEF FreezeManifest, AcknowledgeBatch, At, Holding, Positions
  <2> QED BY <1>5, <2>1, PayloadRows DEF FreezeManifest, AcknowledgeBatch
<1>6. ASSUME CompleteJob
      PROVE  \A j \in Queue!Jobs : Moves(j) /\ (j = runner.job \/ StaysOrFails(j))
  <2>1. runner.job \in held /\ runner.job \in Queue!Jobs
    BY <1>6, HeldJob DEF CompleteJob, At, Holding, Positions
  <2>2. PICK status \in {"completed", "cancelled"} :
          /\ jobs' = [jobs EXCEPT ![runner.job] = Queue!Settled(@, status)]
          /\ Drops(runner.job) => status = "completed"
    BY <1>6, <2>1 DEF CompleteJob, Queue!Complete, DropsAreNotCancelled
  <2> QED BY <2>1, <2>2, SettleRows
<1>7. ASSUME CancelJob PROVE Tame
  <2>1. /\ runner.job \in held /\ runner.job \in Queue!Jobs
        /\ ~Drops(runner.job)
    BY <1>7, HeldJob DEF CancelJob, At, Holding, Positions, DeletionProgress, Drops, Job
  <2>2. jobs' = [jobs EXCEPT ![runner.job] = Queue!Settled(@, "cancelled")]
    BY <1>7 DEF CancelJob
  <2>3. \A j \in Queue!Jobs : Moves(j)
    BY <2>1, <2>2, SettleRows
  <2>4. \A j \in Queue!Jobs \ {runner.job} : StaysOrFails(j)
    BY <2>1, <2>2, SettleRows
  <2>5. StaysOrFails(runner.job)
    BY <2>1 DEF StaysOrFails, Queue!Deleting, Drops
  <2> QED BY <2>3, <2>4, <2>5
<1>8. ASSUME FailJob PROVE Tame
  <2>1. runner.job \in Queue!Jobs
    BY <1>8, HeldJob DEF FailJob, At, Holding, Positions
  <2> QED BY <1>8, <2>1, RetryRows DEF FailJob
<1>9. Boot => Tame
  BY RecoveryRows DEF Boot
<1>10. Crash => Tame
  BY Untouched DEF Crash, Queue!Crash
<1> HIDE DEF Tame
<1>11. CASE \E r \in Repos, g \in Generations, mode \in Queue!Modes, paths \in SUBSET Paths :
              /\ Enqueue(r, g, mode, paths)
              /\ mode = "drop_index" => UNCHANGED storeVars
              /\ UNCHANGED runner
  BY <1>2, <1>11
<1>12. CASE Tame
  BY <1>12 DEF Tame
<1>13. CASE CompleteJob
  BY <1>6, <1>13
<1> QED BY StepKinds, <1>1, <1>3, <1>4, <1>5, <1>7, <1>8, <1>9, <1>10, <1>11, <1>12, <1>13

\* Cancel-all, retries and recovery never leave a deletion cancelled.
LEMMA DropsStep ==
  ASSUME Queue!IInv, TypeOK, RunnerOwns, DropsAreNotCancelled, DeletionProgress, [Next]_vars
  PROVE  DropsAreNotCancelled'
<1> SUFFICES ASSUME NEW j \in Queue!Jobs, Drops(j)'
             PROVE  jobs'[j].status \notin {"cancelling", "cancelled"}
  BY DEF DropsAreNotCancelled, Queue!Jobs
<1>1. CASE Moves(j)
  BY <1>1 DEF Moves, KeepsBinding, DropsAreNotCancelled
<1>2. CASE Arrives(j)
  BY <1>2 DEF Arrives
<1> QED BY <1>1, <1>2, RowsStep

\* Routes, runner and recovery put values of their types into the stores.
LEMMA StoreTypesStep ==
  ASSUME Queue!IInv, TypeOK, RunnerOwns, [Next]_vars
  PROVE  StoreTypes'
<1>t. StoreTypes /\ WatchTypes /\ OtherTypes
  BY TypesAreAll
<1>0. CASE UNCHANGED storeVars
  BY <1>0, <1>t DEF storeVars, StoreTypes, Queue!Jobs
<1>1. ASSUME NEW r \in Repos, NEW mode, Index(r, mode) PROVE StoreTypes'
  BY <1>1, <1>t, EnsureGraphFacts DEF Index
<1>2. ASSUME NEW r \in Repos, EnsureGraphFails(r) PROVE StoreTypes'
  <2>1. [catalog[r] EXCEPT !.state = "uninitialized"] \in Records
    BY <1>t, SetState DEF StoreStates
  <2>2. /\ catalog' = [catalog EXCEPT ![r] = [catalog[r] EXCEPT !.state = "uninitialized"]]
        /\ tombstones' = tombstones
    BY <1>2 DEF EnsureGraphFails
  <2>3. /\ store' \in [Repos -> SUBSET (1 .. MaxGenerations)]
        /\ nextGeneration' \in 1 .. MaxGenerations + 1
    <3>1. CASE UNCHANGED <<store, nextGeneration>>
      BY <1>t, <3>1 DEF StoreTypes
    <3>2. CASE /\ nextGeneration \in Generations
               /\ nextGeneration' = nextGeneration + 1
               /\ store' = [store EXCEPT ![r] = @ \cup {nextGeneration}]
      BY <1>t, <3>2, DaemonBoundsAssumption DEF StoreTypes, Generations
    <3> QED BY <1>2, <3>1, <3>2 DEF EnsureGraphFails
  <2> QED BY <1>t, <2>1, <2>2, <2>3 DEF StoreTypes, Queue!Jobs
<1>3. CASE MarkStale \/ Publish
  <2>1. Repo \in Repos
    BY <1>3, HeldJob DEF MarkStale, Publish, At, Holding, Positions
  <2>2. \A state \in StoreStates : [catalog[Repo] EXCEPT !.state = state] \in Records
    BY <1>t, <2>1, SetState
  <2>3. \/ catalog' = catalog
        \/ \E state \in StoreStates :
             catalog' = [catalog EXCEPT ![Repo] = [catalog[Repo] EXCEPT !.state = state]]
    BY <1>3 DEF MarkStale, Publish, StoreStates
  <2>4. UNCHANGED <<store, tombstones, nextGeneration>>
    BY <1>3 DEF MarkStale, Publish
  <2> QED BY <1>t, <2>1, <2>2, <2>3, <2>4 DEF StoreTypes, Queue!Jobs
<1>4. CASE RetireStore \/ Unregister \/ RemoveTombstones
  <2>1. Repo \in Repos /\ runner.job \in Queue!Jobs
    BY <1>4, HeldJob DEF RetireStore, Unregister, RemoveTombstones, At, Holding, Positions
  <2>2. Absent \in Records
    BY DaemonBoundsAssumption DEF Absent, Records, StoreStates, Generations
  <2> QED BY <1>4, <1>t, <2>1, <2>2
          DEF RetireStore, Unregister, RemoveTombstones, StoreTypes, Queue!Jobs
<1>5. RunOnce =>
        UNCHANGED storeVars \/ MarkStale \/ Publish \/ RetireStore \/ Unregister \/ RemoveTombstones
  BY DEF RunOnce, Claim, Cancelling, OpenGraph, StartWriting, FreezeManifest, AcknowledgeBatch,
     IngestEnds, IngestRaises, ReadStatus, CompleteJob, CancelJob, FailJob, BeginDeletion,
     DeleteGraph, DeletionRaises, RestoreAfterFailure, runnerOnly
<1>6. ASSUME NEW r \in Repos,
             \/ DropIndex(r) \/ WatcherFires(r) \/ RestoreOnStartup(r)
             \/ \E paths \in SUBSET Paths \ {{}} : IngestFiles(r, paths)
      PROVE  UNCHANGED storeVars
  BY <1>6 DEF DropIndex, WatcherFires, RestoreOnStartup, IngestFiles, Late
<1>7. Watching => UNCHANGED storeVars
  BY <1>6 DEF Watching, Reconcile, ReconcileRejected, InsertWatcher
<1>8. CASE Requests
  <2>1. CancelAll => UNCHANGED storeVars
    BY DEF CancelAll
  <2> QED BY <1>0, <1>1, <1>2, <1>6, <1>8, <2>1 DEF Requests
<1>9. ASSUME \/ \E request \in late : EnqueueLate(request)
             \/ Boot \/ Crash \/ UNCHANGED vars
      PROVE  UNCHANGED storeVars
  BY <1>9 DEF EnqueueLate, Boot, Crash, vars
<1> QED BY <1>0, <1>3, <1>4, <1>5, <1>7, <1>8, <1>9 DEF Next

\* Calls and requests carry the bindings of roots; the tables are tables.
LEMMA WatchTypesStep ==
  ASSUME Queue!IInv, TypeOK, RunnerOwns, [Next]_vars
  PROVE  WatchTypes'
<1>t. StoreTypes /\ WatchTypes /\ OtherTypes
  BY TypesAreAll
<1>0. CASE UNCHANGED watchVars
  BY <1>0, <1>t DEF watchVars, WatchTypes
<1>g. /\ 1 .. MaxGenerations \subseteq Generations /\ 0 \in Generations
      /\ \A g \in Generations : g # 0 => g \in 1 .. MaxGenerations
  BY DaemonBoundsAssumption DEF Generations
<1>b. \A r \in Repos : Bound(r) => catalog[r].generation \in 1 .. MaxGenerations
  BY <1>t, <1>g DEF StoreTypes, Bound, Records
<1>1. ASSUME NEW r \in Repos, NEW mode, Index(r, mode) PROVE WatchTypes'
  <2>1. PICK g \in Generations :
          /\ EnsureGraph(r, g)
          /\ \/ UNCHANGED enrolling
             \/ enrolling' = enrolling \cup {[repo |-> r, generation |-> g,
                                              by |-> "route", stage |-> "bound"]}
    BY <1>1 DEF Index
  <2>2. [repo |-> r, generation |-> g, by |-> "route", stage |-> "bound"] \in Calls
    BY <1>t, <2>1, EnsureGraphFacts DEF Calls
  <2>3. UNCHANGED <<watcher, orphans, late, booting>>
    BY <1>1 DEF Index
  <2> QED BY <1>t, <2>1, <2>2, <2>3 DEF WatchTypes
<1>2. ASSUME NEW r \in Repos, DropIndex(r) PROVE WatchTypes'
  BY <1>2, <1>t, <1>g DEF DropIndex, WatchTypes
<1>3. ASSUME NEW r \in Repos, NEW g \in 1 .. MaxGenerations, NEW mode \in {"files", "full"},
             NEW paths \in SUBSET Paths, Late(r, g, mode, paths)
      PROVE  WatchTypes'
  <2>1. [repo |-> r, generation |-> g, mode |-> mode, paths |-> paths] \in LateRequests
    BY DEF LateRequests
  <2> QED BY <1>3, <1>t, <2>1 DEF Late, WatchTypes
<1>4. ASSUME NEW r \in Repos, WatcherFires(r) PROVE WatchTypes'
  <2>1. PICK g \in (orphans[r] \cup {watcher[r]}) \ {0} : Late(r, g, "full", {})
    BY <1>4 DEF WatcherFires
  <2>2. g \in 1 .. MaxGenerations
    BY <1>t, <1>g DEF WatchTypes
  <2> QED BY <1>3, <2>1, <2>2
<1>5. ASSUME NEW r \in Repos, NEW paths \in SUBSET Paths, IngestFiles(r, paths) PROVE WatchTypes'
  BY <1>3, <1>5, <1>b DEF IngestFiles
<1>6. ASSUME NEW r \in Repos, RestoreOnStartup(r) PROVE WatchTypes'
  <2>1. Bound(r) => [repo |-> r, generation |-> catalog[r].generation,
                     by |-> "startup", stage |-> "bound"] \in Calls
    BY <1>b DEF Calls
  <2> QED BY <1>6, <1>t, <2>1 DEF RestoreOnStartup, WatchTypes
<1>7. CASE RestoreAfterFailure
  <2>1. CASE UNCHANGED enrolling
    BY <1>7, <1>t, <2>1 DEF RestoreAfterFailure, WatchTypes
  <2>2. CASE /\ Bound(Repo)
             /\ enrolling' = enrolling \cup
                  {[repo |-> Repo, generation |-> catalog[Repo].generation,
                    by |-> "runner", stage |-> "bound"]}
    <3>1. Repo \in Repos
      BY <1>7, RowTypes DEF RestoreAfterFailure, At, RunnerOwns, Repo, Job
    <3> QED BY <1>7, <1>t, <1>b, <2>2, <3>1 DEF RestoreAfterFailure, WatchTypes, Calls
  <2> QED BY <1>7, <2>1, <2>2 DEF RestoreAfterFailure
<1>8. ASSUME NEW call \in enrolling,
             Reconcile(call) \/ ReconcileRejected(call) \/ InsertWatcher(call)
      PROVE  WatchTypes'
  <2>1. call \in Calls
    BY <1>t DEF WatchTypes
  <2>2. [call EXCEPT !.stage = "observing"] \in Calls
    BY <2>1 DEF Calls
  <2>3. CASE Reconcile(call) \/ ReconcileRejected(call)
    BY <1>t, <2>2, <2>3 DEF Reconcile, ReconcileRejected, Advance, WatchTypes
  <2>4. CASE InsertWatcher(call)
    <3>1. /\ call.repo \in Repos /\ call.generation \in Generations
          /\ {watcher[call.repo]} \ {0} \subseteq 1 .. MaxGenerations
      BY <1>t, <1>g, <2>1 DEF Calls, WatchTypes
    <3>2. /\ enrolling' = enrolling \ {call}
          /\ orphans' = [orphans EXCEPT ![call.repo] = @ \cup ({watcher[call.repo]} \ {0})]
          /\ watcher' = [watcher EXCEPT ![call.repo] = call.generation]
          /\ late' = late
          /\ booting' \in SUBSET Repos
      BY <1>t, <2>4 DEF InsertWatcher, WatchTypes
    <3> QED BY <1>t, <3>1, <3>2 DEF WatchTypes
  <2> QED BY <1>8, <2>3, <2>4
<1>9. ASSUME NEW request \in late, EnqueueLate(request) PROVE WatchTypes'
  BY <1>9, <1>t DEF EnqueueLate, WatchTypes
<1>10. CASE Boot \/ Crash
  BY <1>10, <1>t, <1>g DEF Boot, Crash, WatchTypes
<1>11. RunOnce => UNCHANGED watchVars \/ RestoreAfterFailure
  BY DEF RunOnce, Claim, MarkStale, Cancelling, OpenGraph, StartWriting, FreezeManifest,
     AcknowledgeBatch, IngestEnds, IngestRaises, ReadStatus, Publish, CompleteJob, CancelJob,
     FailJob, BeginDeletion, DeleteGraph, RetireStore, Unregister, RemoveTombstones,
     DeletionRaises, runnerOnly
<1>12. ASSUME CancelAll \/ UNCHANGED vars \/ \E r \in Repos : EnsureGraphFails(r)
       PROVE  UNCHANGED watchVars
  BY <1>12 DEF CancelAll, vars, EnsureGraphFails
<1>13. CASE Requests
  BY <1>0, <1>1, <1>2, <1>4, <1>5, <1>12, <1>13 DEF Requests
<1>14. CASE Watching
  BY <1>6, <1>8, <1>14 DEF Watching
<1> QED BY <1>0, <1>7, <1>9, <1>10, <1>11, <1>12, <1>13, <1>14 DEF Next

\* The runner's positions and the count of failures.
LEMMA OtherTypesStep ==
  ASSUME Queue!IInv, TypeOK, RunnerOwns, [Next]_vars
  PROVE  OtherTypes'
<1>t. StoreTypes /\ WatchTypes /\ OtherTypes
  BY TypesAreAll
<1>f. faults' \in 0 .. MaxFaults
  <2>1. Fault \/ UNCHANGED faults
    BY Zenon DEF Next, RunOnce, Watching, Requests, vars, Claim, MarkStale, Cancelling, OpenGraph,
       StartWriting, FreezeManifest, AcknowledgeBatch, IngestEnds, IngestRaises, ReadStatus,
       Publish, CompleteJob, CancelJob, FailJob, BeginDeletion, DeleteGraph, RetireStore,
       Unregister, RemoveTombstones, DeletionRaises, runnerOnly, RestoreAfterFailure,
       RestoreOnStartup, Reconcile, ReconcileRejected, InsertWatcher, Index, EnsureGraphFails,
       DropIndex, IngestFiles, WatcherFires, Late, CancelAll, EnqueueLate, Boot, Crash
  <2>2. Fault => faults' \in 0 .. MaxFaults
    BY <1>t, DaemonBoundsAssumption DEF Fault, OtherTypes
  <2> QED BY <1>t, <2>1, <2>2 DEF OtherTypes
<1>r. runner' \in Runs
  <2>0. CASE UNCHANGED runner
    BY <1>t, <2>0 DEF OtherTypes
  <2>1. AtRest \in Runs
    BY DaemonBoundsAssumption DEF AtRest, Runs, Positions
  <2>2. \A pc \in Positions : Goto(pc) => runner' \in Runs
    BY <1>t DEF Goto, OtherTypes, Runs
  <2>3. CASE Claim
    <3>1. PICK j \in Queue!Jobs : runner' = [AtRest EXCEPT !.pc = "claimed", !.job = j]
      BY <2>3 DEF Claim
    <3>2. runner' = [pc |-> "claimed", job |-> j, matches |-> FALSE, superseded |-> FALSE]
      BY <3>1 DEF AtRest
    <3>3. j \in 0 .. MaxJobs /\ "claimed" \in Positions
      BY DaemonBoundsAssumption DEF Queue!Jobs, Positions
    <3> QED BY <3>2, <3>3 DEF Runs
  <2>4. CASE BeginDeletion
    <3>1. \A m, s \in BOOLEAN, pc \in Positions :
            [runner EXCEPT !.matches = m, !.superseded = s, !.pc = pc] \in Runs
      BY <1>t DEF OtherTypes, Runs
    <3>2. Matches \in BOOLEAN /\ (Registered(Repo) /\ ~Matches) \in BOOLEAN
      BY DEF Matches, Registered
    <3> QED BY <2>4, <3>1, <3>2 DEF BeginDeletion, Positions
  <2>5. CASE FailJob
    <3>1. runner' = AtRest \/ Goto("restoring")
      BY <2>5 DEF FailJob, Goto
    <3> QED BY <2>1, <2>2, <3>1 DEF Positions
  <2>6. CASE \/ MarkStale \/ Cancelling \/ OpenGraph \/ StartWriting \/ IngestEnds \/ IngestRaises
             \/ ReadStatus \/ Publish \/ DeleteGraph \/ RetireStore
             \/ Unregister \/ RemoveTombstones \/ DeletionRaises
    BY <2>2, <2>6 DEF MarkStale, Cancelling, OpenGraph, StartWriting, IngestEnds, IngestRaises,
       ReadStatus, Publish, DeleteGraph, RetireStore, Unregister, RemoveTombstones,
       DeletionRaises, Positions
  <2>7. CASE CompleteJob \/ CancelJob \/ RestoreAfterFailure \/ Boot \/ Crash
    BY <2>1, <2>2, <2>7 DEF CompleteJob, CancelJob, RestoreAfterFailure, Boot, Crash, Positions
  <2>8. CASE Watching
    BY <1>t, <2>1, <2>2, <2>8 DEF Watching, RestoreOnStartup, Reconcile, ReconcileRejected, InsertWatcher,
       Positions, OtherTypes
  <2>9. Requests => UNCHANGED runner
    BY DEF Requests, Index, EnsureGraphFails, DropIndex, IngestFiles, WatcherFires, Late, CancelAll
  <2>10. FreezeManifest \/ (\E path \in Paths : AcknowledgeBatch(path))
           \/ (\E request \in late : EnqueueLate(request)) \/ UNCHANGED vars
         => UNCHANGED runner
    BY DEF FreezeManifest, AcknowledgeBatch, EnqueueLate, vars
  <2>11. RunOnce => runner' \in Runs
    BY <2>0, <2>3, <2>4, <2>5, <2>6, <2>7, <2>10 DEF RunOnce
  <2> QED BY <2>0, <2>7, <2>8, <2>9, <2>10, <2>11 DEF Next
<1> QED BY <1>f, <1>r DEF OtherTypes

\* Every step of the daemon keeps the types.
LEMMA TypeStep ==
  ASSUME Queue!IInv, TypeOK, RunnerOwns, [Next]_vars
  PROVE  TypeOK'
  BY StoreTypesStep, WatchTypesStep, OtherTypesStep
  DEF TypeOK, StoreTypes, WatchTypes, OtherTypes, Records, Runs, Calls, LateRequests

\* Where the runner gets to in a step that leaves the queue alone.
LEMMA RunnerMoves ==
  ASSUME Queue!IInv, TypeOK, RunnerOwns, RunnerWaits, [Next]_vars, UNCHANGED queueVars
  PROVE  \/ runner' = runner
         \/ /\ alive
            /\ runner.pc \in Holding /\ runner'.pc \in Holding
            /\ runner'.job = runner.job
            /\ runner'.pc = "cancelled" => Job.status = "cancelling"
         \/ /\ alive
            /\ runner.pc \notin Holding /\ runner'.pc \notin Holding
            /\ runner'.pc # "restoring"
<1>t. runner \in Runs
  BY TypesAreAll DEF OtherTypes
<1>g. ASSUME NEW pc, Goto(pc) PROVE runner'.pc = pc /\ runner'.job = runner.job
  BY <1>t, <1>g DEF Goto, Runs
<1>1. CASE \/ MarkStale \/ OpenGraph \/ StartWriting \/ IngestEnds \/ IngestRaises
           \/ Publish \/ DeleteGraph \/ RetireStore
           \/ Unregister \/ RemoveTombstones \/ DeletionRaises
  BY <1>1, <1>g DEF MarkStale, OpenGraph, StartWriting, IngestEnds, IngestRaises,
     Publish, DeleteGraph, RetireStore, Unregister, RemoveTombstones,
     DeletionRaises, At, Holding, Positions
<1>2. CASE Cancelling \/ ReadStatus
  BY <1>2, <1>g DEF Cancelling, ReadStatus, At, Holding, Positions
<1>3. CASE BeginDeletion
  BY <1>3, <1>t DEF BeginDeletion, At, Holding, Positions, Runs
<1>4. CASE RestoreAfterFailure
  BY <1>4, <1>g DEF RestoreAfterFailure, At, Holding, Positions, AtRest
<1>5. CASE Watching
  <2>1. ASSUME NEW call \in enrolling, call.by = "runner",
               runner' = AtRest \/ Goto("dead")
        PROVE  /\ alive /\ runner.pc \notin Holding /\ runner'.pc \notin Holding
               /\ runner'.pc # "restoring"
    <3>1. runner.pc = "rewatching"
      BY <2>1 DEF RunnerWaits
    <3> QED BY <2>1, <3>1, <1>g DEF RunnerOwns, Holding, Positions, AtRest
  <2>2. ASSUME NEW call \in enrolling,
               Reconcile(call) \/ ReconcileRejected(call) \/ InsertWatcher(call)
        PROVE  runner' = runner \/ (call.by = "runner" /\ (runner' = AtRest \/ Goto("dead")))
    BY <2>2 DEF Reconcile, ReconcileRejected, InsertWatcher
  <2>3. \A r \in Repos : RestoreOnStartup(r) => runner' = runner
    BY DEF RestoreOnStartup
  <2> QED BY <1>5, <2>1, <2>2, <2>3 DEF Watching
<1>6. Requests => runner' = runner
  BY DEF Requests, Index, EnsureGraphFails, DropIndex, IngestFiles, WatcherFires, Late, CancelAll
<1>7. (\E request \in late : EnqueueLate(request)) \/ UNCHANGED vars \/ FreezeManifest
        \/ (\E path \in Paths : AcknowledgeBatch(path)) => runner' = runner
  BY DEF EnqueueLate, vars, FreezeManifest, AcknowledgeBatch
<1>8. ~Claim /\ ~CompleteJob /\ ~CancelJob /\ ~FailJob /\ ~Boot /\ ~Crash
  <2>1. Boot \/ Crash => alive' # alive
    BY DEF Boot, Crash, Queue!StartRunner, Queue!Crash
  <2>2. Claim => held' # held
    <3>1. ASSUME Claim PROVE held = {} /\ \E j : held' = held \cup {j}
      BY <3>1 DEF Claim, Queue!ClaimNext, At, RunnerOwns, Holding
    <3> QED BY <3>1
  <2>3. CompleteJob \/ CancelJob \/ FailJob => held' # held
    <3>1. ASSUME CompleteJob \/ CancelJob \/ FailJob
          PROVE  runner.job \in held /\ held' = held \ {runner.job}
      BY <3>1, HeldJob DEF CompleteJob, CancelJob, FailJob, Queue!Complete, Queue!FailOrRetry,
         At, Holding, Positions
    <3> QED BY <3>1
  <2> QED BY <2>1, <2>2, <2>3 DEF queueVars
<1>9. CASE RunOnce
  BY <1>1, <1>2, <1>3, <1>4, <1>7, <1>8, <1>9 DEF RunOnce
<1> QED BY <1>5, <1>6, <1>7, <1>8, <1>9 DEF Next

\* Claim takes a row, the three ends give it back, and nothing else touches held.
LEMMA RunnerStep ==
  ASSUME Queue!IInv, TypeOK, RunnerOwns, RunnerWaits, DropsAreNotCancelled, DeletionProgress,
         [Next]_vars
  PROVE  RunnerOwns'
<1>t. runner \in Runs
  BY TypesAreAll DEF OtherTypes
<1>1. CASE UNCHANGED queueVars
  <2>0. jobs' = jobs /\ held' = held /\ alive' = alive
    BY <1>1 DEF queueVars
  <2>1. CASE runner' = runner
    BY <2>0, <2>1 DEF RunnerOwns, Holding, Positions, Job, Queue!Jobs
  <2>2. CASE /\ alive
             /\ runner.pc \in Holding /\ runner'.pc \in Holding
             /\ runner'.job = runner.job
             /\ runner'.pc = "cancelled" => Job.status = "cancelling"
    <3>1. held' = {runner'.job}
      BY <2>0, <2>2 DEF RunnerOwns
    <3>2. Job' = Job
      BY <2>0, <2>2 DEF Job
    <3>3. runner'.pc # "restoring"
      BY <2>2 DEF Holding
    <3> QED BY <2>0, <2>2, <3>1, <3>2, <3>3 DEF RunnerOwns, Holding
  <2>3. CASE /\ alive
             /\ runner.pc \notin Holding /\ runner'.pc \notin Holding
             /\ runner'.pc # "restoring"
    BY <2>0, <2>3 DEF RunnerOwns, Holding, Positions, Queue!Jobs
  <2> QED BY <1>1, <2>1, <2>2, <2>3, RunnerMoves
<1>2. ASSUME UNCHANGED runner, alive' = alive, held' = held, alive,
             \A j \in held : jobs'[j].status \in {jobs[j].status, "cancelling"}
      PROVE  RunnerOwns'
  BY <1>2 DEF RunnerOwns, Holding, Positions, Job, Queue!Jobs
<1>w. \A j \in held : Queue!Working(j) /\ alive /\ j \in Queue!Jobs
  BY DEF Queue!IInv, Queue!HeldRowsStayLeased, Queue!TypeOK
<1>3. CASE \E r \in Repos, g \in Generations, mode \in Queue!Modes, paths \in SUBSET Paths :
              /\ Enqueue(r, g, mode, paths)
              /\ UNCHANGED runner
  <2>1. PICK r \in Repos, g \in Generations, mode \in Queue!Modes, paths \in SUBSET Paths :
              /\ Enqueue(r, g, mode, paths)
              /\ UNCHANGED runner
    BY <1>3
  <2>2. \A j \in held : jobs'[j] = jobs[j]
    BY <1>w, <2>1, EnqueueRows DEF Arrives, Queue!Working, Queue!Queued
  <2>3. alive' = alive /\ held' = held
    BY <2>1, EnqueueRows
  <2>4. alive
    BY <2>1 DEF Enqueue, Queue!EnqueueMerge, Queue!EnqueueInsert
  <2> QED BY <1>2, <2>1, <2>2, <2>3, <2>4
<1>4. CASE Queue!RequestCancelAll /\ UNCHANGED runner
  <2>1. alive
    BY <1>4 DEF Queue!RequestCancelAll
  <2> QED BY <1>2, <1>4, <1>w, <2>1, CancelAllRows
<1>5. CASE FreezeManifest \/ (\E path \in Paths : AcknowledgeBatch(path))
  <2>1. runner.job \in Queue!Jobs /\ alive
    BY <1>5, HeldJob DEF FreezeManifest, AcknowledgeBatch, At, Holding, Positions
  <2>2. /\ \/ Queue!InstallForceFullSnapshot(runner.job, Paths)
           \/ \E path : Queue!AcknowledgeForceFullSnapshotFiles(runner.job, {path})
        /\ UNCHANGED runner
    BY <1>5 DEF FreezeManifest, AcknowledgeBatch
  <2> QED BY <1>2, <1>w, <2>1, <2>2, PayloadRows
<1>6. CASE Claim
  <2>1. PICK j \in Queue!Jobs : /\ Queue!ClaimNext(j)
                                /\ runner' = [AtRest EXCEPT !.pc = "claimed", !.job = j]
    BY <1>6 DEF Claim
  <2>2. runner'.pc = "claimed" /\ runner'.job = j
    BY <2>1 DEF AtRest
  <2>3. held = {}
    BY <1>6 DEF Claim, At, RunnerOwns, Holding
  <2>4. held' = {j} /\ alive'
    BY <2>1, <2>3 DEF Queue!ClaimNext
  <2> QED BY <2>2, <2>4 DEF RunnerOwns, Holding, Positions
<1>7. CASE CompleteJob \/ CancelJob \/ FailJob
  <2>1. runner.job \in Queue!Jobs /\ alive /\ held = {runner.job}
    BY <1>7, HeldJob DEF CompleteJob, CancelJob, FailJob, At, Holding, Positions
  <2>2. held' = {} /\ alive' = alive
    BY <1>7, <2>1 DEF CompleteJob, CancelJob, FailJob, Queue!Complete, Queue!FailOrRetry
  <2>3. runner' = AtRest \/ Goto("restoring")
    BY <1>7 DEF CompleteJob, CancelJob, FailJob, Goto
  <2>4. CASE runner' = AtRest
    BY <2>2, <2>4 DEF AtRest, RunnerOwns, Holding
  <2>5. CASE Goto("restoring")
    <3>1. runner'.pc = "restoring" /\ runner'.job = runner.job
      BY <1>t, <2>5 DEF Goto, Runs
    <3> QED BY <2>1, <2>2, <3>1 DEF RunnerOwns, Holding, Queue!Jobs
  <2> QED BY <2>3, <2>4, <2>5
<1>8. CASE Boot \/ Crash
  <2>1. held' = {} /\ runner' = AtRest
    BY <1>8 DEF Boot, Crash, Queue!StartRunner, Queue!Crash
  <2> QED BY <2>1 DEF RunnerOwns, Holding, AtRest
<1> QED BY StepKinds, <1>1, <1>3, <1>4, <1>5, <1>6, <1>7, <1>8

\* At most one call is the runner's, while the runner waits for it.
LEMMA WaitStep ==
  ASSUME Queue!IInv, TypeOK, RunnerOwns, RunnerWaits, [Next]_vars
  PROVE  RunnerWaits'
<1>t. runner \in Runs /\ enrolling \in SUBSET Calls
  BY TypesAreAll DEF OtherTypes, WatchTypes
<1>0. CASE runner' = runner /\ enrolling' \subseteq enrolling
  BY <1>0 DEF RunnerWaits
<1>1. ASSUME runner' = runner, NEW call, call.by # "runner", enrolling' \subseteq enrolling \cup {call}
      PROVE  RunnerWaits'
  BY <1>1 DEF RunnerWaits
<1>2. CASE runner.pc # "rewatching" /\ enrolling' = enrolling
  BY <1>2 DEF RunnerWaits
<1>3. ASSUME NEW r \in Repos, NEW mode, Index(r, mode) PROVE RunnerWaits'
  <2>1. PICK call : call.by # "runner" /\ enrolling' \subseteq enrolling \cup {call}
    <3>1. PICK g \in Generations :
          \/ UNCHANGED enrolling
          \/ enrolling' = enrolling \cup {[repo |-> r, generation |-> g,
                                           by |-> "route", stage |-> "bound"]}
      BY <1>3 DEF Index
    <3> DEFINE call == [repo |-> r, generation |-> g, by |-> "route", stage |-> "bound"]
    <3>2. call.by # "runner" /\ enrolling' \subseteq enrolling \cup {call}
      BY <3>1
    <3> QED BY <3>2
  <2> QED BY <1>1, <1>3, <2>1 DEF Index
<1>4. ASSUME NEW r \in Repos, RestoreOnStartup(r) PROVE RunnerWaits'
  <2> DEFINE call == [repo |-> r, generation |-> catalog[r].generation,
                      by |-> "startup", stage |-> "bound"]
  <2>1. call.by # "runner" /\ enrolling' \subseteq enrolling \cup {call} /\ runner' = runner
    BY <1>4 DEF RestoreOnStartup
  <2> HIDE DEF call
  <2> QED BY <1>1, <2>1
<1>5. CASE RestoreAfterFailure
  <2>0. runner.pc = "restoring"
    BY <1>5 DEF RestoreAfterFailure, At
  <2>1. CASE UNCHANGED enrolling
    BY <1>2, <2>0, <2>1
  <2>2. CASE /\ Goto("rewatching")
             /\ enrolling' = enrolling \cup
                  {[repo |-> Repo, generation |-> catalog[Repo].generation,
                    by |-> "runner", stage |-> "bound"]}
    <3>1. runner'.pc = "rewatching"
      BY <1>t, <2>2 DEF Goto, Runs
    <3>2. \A c \in enrolling : c.by # "runner"
      BY <2>0 DEF RunnerWaits
    <3> QED BY <2>2, <3>1, <3>2 DEF RunnerWaits
  <2> QED BY <1>5, <2>1, <2>2 DEF RestoreAfterFailure
<1>6. ASSUME NEW call \in enrolling,
             Reconcile(call) \/ ReconcileRejected(call) \/ InsertWatcher(call)
      PROVE  RunnerWaits'
  <2>1. CASE Reconcile(call)
    <3> DEFINE next == [call EXCEPT !.stage = "observing"]
    <3>1. /\ runner' = runner /\ enrolling' = (enrolling \ {call}) \cup {next}
          /\ next.by = call.by
      BY <1>t, <2>1 DEF Reconcile, Advance, Calls
    <3> HIDE DEF next
    <3> QED BY <3>1 DEF RunnerWaits
  <2>2. CASE ReconcileRejected(call) \/ InsertWatcher(call)
    <3>1. enrolling' = enrolling \ {call} /\ (runner' = runner \/ call.by = "runner")
      BY <2>2 DEF ReconcileRejected, InsertWatcher
    <3> QED BY <3>1 DEF RunnerWaits
  <2> QED BY <1>6, <2>1, <2>2
<1>7. CASE Crash
  BY <1>7 DEF Crash, RunnerWaits
<1>8. CASE Boot
  <2>1. runner.pc = "idle" /\ enrolling' = enrolling
    BY <1>8 DEF Boot, Queue!StartRunner, RunnerOwns
  <2> QED BY <1>2, <2>1
<1>9. ASSUME Requests, ~(\E r \in Repos, mode \in {"full", "force_full"} : Index(r, mode))
      PROVE  runner' = runner /\ enrolling' = enrolling
  BY <1>9 DEF Requests, EnsureGraphFails, DropIndex, IngestFiles, WatcherFires, Late, CancelAll,
     watchVars
<1>10. CASE (\E request \in late : EnqueueLate(request)) \/ UNCHANGED vars
  BY <1>0, <1>10 DEF EnqueueLate, vars, watchVars
<1>11. ASSUME RunOnce, ~RestoreAfterFailure
       PROVE  runner.pc # "rewatching" /\ enrolling' = enrolling
  BY <1>11 DEF RunOnce, Claim, MarkStale, Cancelling, OpenGraph, StartWriting, FreezeManifest,
     AcknowledgeBatch, IngestEnds, IngestRaises, ReadStatus, Publish, CompleteJob, CancelJob,
     FailJob, BeginDeletion, DeleteGraph, RetireStore, Unregister, RemoveTombstones,
     DeletionRaises, runnerOnly, watchVars, At
<1>12. CASE RunOnce
  BY <1>2, <1>5, <1>11, <1>12
<1>13. CASE Watching
  BY <1>4, <1>6, <1>13 DEF Watching
<1>14. CASE Requests
  BY <1>0, <1>3, <1>9, <1>14
<1> QED BY <1>7, <1>8, <1>10, <1>12, <1>13, <1>14 DEF Next
-----------------------------------------------------------------------------
(***************************************************************************)
(* What a step does to the store of a root                                 *)
(***************************************************************************)
Same(r) == catalog'[r] = catalog[r] /\ store'[r] = store[r]

\* ensure_graph, and its failures.
Enrolls(r) ==
  /\ ~DeletionPending(r) /\ ~Bound(r)
  /\ catalog'[r].state \in {"uninitialized", "semantic_stale"}
  /\ catalog'[r].generation = 0 \/ catalog'[r].generation \in store'[r]

\* on_started and on_completed.
Marks(r) ==
  /\ UNCHANGED queueVars
  /\ Repo = r /\ Matches /\ Job.mode # "drop_index"
  /\ catalog'[r].generation = catalog[r].generation
  /\ store'[r] = store[r]
  /\ \/ /\ runner.pc = "claimed" /\ runner'.pc = "started"
        /\ catalog'[r].state = "semantic_stale"
     \/ /\ runner.pc = "publishing" /\ runner'.pc = "published"
        /\ catalog'[r].state \in {"semantic_stale", "semantic_ready"}

\* The store directory is renamed away.
Retires(r) ==
  /\ UNCHANGED queueVars
  /\ runner.pc = "renaming" /\ runner'.pc = "unregistering" /\ Repo = r
  /\ catalog'[r] = catalog[r] /\ store'[r] = {}

\* The record is deleted.
Unregisters(r) ==
  /\ UNCHANGED queueVars
  /\ runner.pc = "unregistering" /\ runner'.pc = "removing" /\ Repo = r
  /\ runner.matches /\ Matches
  /\ catalog'[r] = Absent /\ store'[r] = store[r]

\* The steps of the runner that touch records or stores.
LEMMA RunnerStoreStep ==
  ASSUME Queue!IInv, TypeOK, RunnerOwns, NEW r \in Repos,
         MarkStale \/ Publish \/ RetireStore \/ Unregister
  PROVE  Same(r) \/ Marks(r) \/ Retires(r) \/ Unregisters(r)
<1>t. StoreTypes /\ runner \in Runs
  BY TypesAreAll DEF OtherTypes
<1>r. Repo \in Repos
  BY HeldJob DEF MarkStale, Publish, RetireStore, Unregister, At, Holding, Positions
<1>g. ASSUME NEW pc, Goto(pc) PROVE runner'.pc = pc
  BY <1>t, <1>g DEF Goto, Runs
<1>1. CASE MarkStale \/ Publish
  <2>1. CASE catalog' = catalog
    BY <1>1, <2>1 DEF MarkStale, Publish, Same
  <2>2. CASE catalog' # catalog
    <3>1. PICK state \in {"semantic_stale", "semantic_ready"} :
            /\ catalog' = [catalog EXCEPT ![Repo] = [catalog[Repo] EXCEPT !.state = state]]
            /\ Matches /\ Job.mode # "drop_index"
            /\ \/ runner.pc = "claimed" /\ Goto("started") /\ state = "semantic_stale"
               \/ runner.pc = "publishing" /\ Goto("published")
      BY <1>1, <2>2 DEF MarkStale, Publish, At
    <3>2. UNCHANGED queueVars /\ store' = store
      BY <1>1 DEF MarkStale, Publish
    <3>3. CASE r # Repo
      BY <1>t, <3>1, <3>2, <3>3 DEF Same, StoreTypes
    <3>4. CASE r = Repo
      <4>1. /\ catalog'[r] = [catalog[r] EXCEPT !.state = state]
        BY <1>t, <3>1, <3>4 DEF StoreTypes
      <4>2. catalog'[r].generation = catalog[r].generation /\ catalog'[r].state = state
        BY <1>t, <4>1, SetState DEF StoreStates
      <4> QED BY <1>g, <3>1, <3>2, <3>4, <4>2 DEF Marks
    <3> QED BY <3>3, <3>4
  <2> QED BY <2>1, <2>2
<1>2. CASE RetireStore
  BY <1>t, <1>r, <1>g, <1>2 DEF RetireStore, Same, Retires, StoreTypes, At
<1>3. CASE Unregister
  BY <1>t, <1>r, <1>g, <1>3 DEF Unregister, Same, Unregisters, StoreTypes, At
<1> QED BY <1>1, <1>2, <1>3

\* Five kinds of effect, and no other.
LEMMA StoreStep ==
  ASSUME Queue!IInv, TypeOK, RunnerOwns, NEW r \in Repos, [Next]_vars
  PROVE  Same(r) \/ Enrolls(r) \/ Marks(r) \/ Retires(r) \/ Unregisters(r)
<1>t. StoreTypes /\ runner \in Runs
  BY TypesAreAll DEF OtherTypes
<1>0. CASE UNCHANGED storeVars \/ UNCHANGED <<catalog, store>>
  BY <1>0 DEF storeVars, Same
<1>1. ASSUME NEW s \in Repos, NEW mode, Index(s, mode) PROVE Same(r) \/ Enrolls(r)
  <2>1. PICK g \in Generations : EnsureGraph(s, g) /\ ~DeletionPending(s)
    BY <1>1 DEF Index
  <2>2. CASE r # s
    <3>1. r \in Repos \ {s}
      BY <2>2
    <3> QED BY <1>t, <2>1, <3>1, EnsureGraphFacts DEF Same
  <2>3. CASE r = s
    <3>1. \/ catalog' = catalog /\ store' = store
          \/ /\ ~Bound(r)
             /\ catalog'[r] = [state |-> "semantic_stale", generation |-> g]
             /\ store'[r] = store[r] \cup {g}
      BY <1>t, <2>1, <2>3, EnsureGraphFacts
    <3> QED BY <2>1, <2>3, <3>1 DEF Same, Enrolls
  <2> QED BY <2>2, <2>3
<1>2. ASSUME NEW s \in Repos, EnsureGraphFails(s) PROVE Same(r) \/ Enrolls(r)
  <2>1. /\ catalog' = [catalog EXCEPT ![s] = [catalog[s] EXCEPT !.state = "uninitialized"]]
        /\ ~DeletionPending(s) /\ ~Bound(s)
        /\ store' = store \/ store' = [store EXCEPT ![s] = @ \cup {nextGeneration}]
    BY <1>2 DEF EnsureGraphFails
  <2>2. CASE r # s
    BY <1>t, <2>1, <2>2 DEF Same, StoreTypes
  <2>3. CASE r = s
    <3>1. catalog'[r] = [catalog[r] EXCEPT !.state = "uninitialized"]
      BY <1>t, <2>1, <2>3 DEF StoreTypes
    <3>2. catalog'[r].generation = catalog[r].generation /\ catalog'[r].state = "uninitialized"
      BY <1>t, <3>1, SetState DEF StoreStates
    <3> QED BY <2>1, <2>3, <3>2 DEF Enrolls, Bound
  <2> QED BY <2>2, <2>3
<1>3. RunOnce =>
        UNCHANGED <<catalog, store>> \/ MarkStale \/ Publish \/ RetireStore \/ Unregister
  BY DEF RunOnce, Claim, Cancelling, OpenGraph, StartWriting, FreezeManifest, AcknowledgeBatch,
     IngestEnds, IngestRaises, ReadStatus, CompleteJob, CancelJob, FailJob, BeginDeletion,
     DeleteGraph, DeletionRaises, RestoreAfterFailure, RemoveTombstones, runnerOnly, storeVars
<1>4. ASSUME NEW s \in Repos,
             \/ DropIndex(s) \/ WatcherFires(s) \/ RestoreOnStartup(s)
             \/ \E paths \in SUBSET Paths \ {{}} : IngestFiles(s, paths)
      PROVE  UNCHANGED storeVars
  BY <1>4 DEF DropIndex, WatcherFires, RestoreOnStartup, IngestFiles, Late
<1>5. Watching => UNCHANGED storeVars
  BY <1>4 DEF Watching, Reconcile, ReconcileRejected, InsertWatcher
<1>6. CASE Requests
  <2>1. CancelAll => UNCHANGED storeVars
    BY DEF CancelAll
  <2> QED BY <1>0, <1>1, <1>2, <1>4, <1>6, <2>1 DEF Requests
<1>7. ASSUME \/ \E request \in late : EnqueueLate(request)
             \/ Boot \/ Crash \/ UNCHANGED vars
      PROVE  UNCHANGED storeVars
  BY <1>7 DEF EnqueueLate, Boot, Crash, vars
<1> QED BY <1>0, <1>3, <1>5, <1>6, <1>7, RunnerStoreStep DEF Next

\* A tombstone is left by the deletion the runner executes, and only there.
LEMMA TombstoneStep ==
  ASSUME Queue!IInv, TypeOK, RunnerOwns, NEW r \in Repos, [Next]_vars
  PROVE  \/ tombstones'[r] = tombstones[r]
         \/ /\ runner.pc = "removing" /\ runner'.pc = "executed" /\ Repo = r
            /\ tombstones'[r] = {}
         \/ /\ runner.pc = "renaming" /\ runner'.pc = "unregistering" /\ Repo = r
            /\ UNCHANGED queueVars
            /\ tombstones'[r] = tombstones[r] \cup {runner.job}
            /\ store'[r] = {}
<1>t. StoreTypes
  BY TypesAreAll
<1>1. CASE RetireStore \/ RemoveTombstones
  <2>1. Repo \in Repos
    BY <1>1, HeldJob DEF RetireStore, RemoveTombstones, At, Holding, Positions
  <2>2. \A pc : Goto(pc) => runner'.pc = pc
    BY TypesAreAll DEF OtherTypes, Goto, Runs
  <2> QED BY <1>t, <1>1, <2>1, <2>2 DEF RetireStore, RemoveTombstones, StoreTypes, At
<1>2. CASE UNCHANGED tombstones
  BY <1>2
<1>3. RunOnce => UNCHANGED tombstones \/ RetireStore \/ RemoveTombstones
  BY DEF RunOnce, Claim, Cancelling, OpenGraph, StartWriting, FreezeManifest, AcknowledgeBatch,
     IngestEnds, IngestRaises, ReadStatus, CompleteJob, CancelJob, FailJob, BeginDeletion,
     DeleteGraph, DeletionRaises, RestoreAfterFailure, runnerOnly, storeVars, MarkStale, Publish,
     Unregister
<1>4. ASSUME NEW s \in Repos, NEW mode, Index(s, mode) PROVE UNCHANGED tombstones
  BY <1>t, <1>4, EnsureGraphFacts DEF Index
<1>5. ASSUME NEW s \in Repos,
             \/ DropIndex(s) \/ WatcherFires(s) \/ EnsureGraphFails(s)
             \/ \E paths \in SUBSET Paths \ {{}} : IngestFiles(s, paths)
      PROVE  UNCHANGED tombstones
  BY <1>5 DEF DropIndex, WatcherFires, EnsureGraphFails, IngestFiles, Late, storeVars
<1>6. Watching => UNCHANGED tombstones
  BY DEF Watching, RestoreOnStartup, Reconcile, ReconcileRejected, InsertWatcher, storeVars
<1>7. Requests => UNCHANGED tombstones
  <2>1. CancelAll => UNCHANGED tombstones
    BY DEF CancelAll, storeVars
  <2> QED BY <1>4, <1>5, <2>1 DEF Requests
<1>8. ASSUME \/ \E request \in late : EnqueueLate(request)
             \/ Boot \/ Crash \/ UNCHANGED vars
      PROVE  UNCHANGED tombstones
  BY <1>8 DEF EnqueueLate, Boot, Crash, vars, storeVars
<1> QED BY <1>1, <1>2, <1>3, <1>6, <1>7, <1>8 DEF Next
-----------------------------------------------------------------------------
(***************************************************************************)
(* Each part of the invariant is kept                                      *)
(***************************************************************************)

\* While the runner works, its row keeps its root, its binding and its mode.
LEMMA HeldRow ==
  ASSUME Queue!IInv, TypeOK, RunnerOwns, RunnerWaits, [Next]_vars,
         runner.pc \in Holding, runner'.pc \in Holding
  PROVE  /\ runner'.job = runner.job
         /\ Job'.repo = Job.repo /\ Job'.generation = Job.generation
         /\ Job'.mode = Job.mode
<1>j. runner.job \in Queue!Jobs /\ runner.job \in held /\ Queue!Working(runner.job)
  BY HeldJob DEF RunnerOwns
<1>1. CASE UNCHANGED queueVars
  <2>1. runner'.job = runner.job /\ jobs' = jobs
    BY <1>1, RunnerMoves DEF queueVars
  <2> QED BY <2>1 DEF Job
<1>2. CASE \E r \in Repos, g \in Generations, mode \in Queue!Modes, paths \in SUBSET Paths :
              /\ Enqueue(r, g, mode, paths)
              /\ UNCHANGED runner
  <2>1. jobs'[runner.job] = jobs[runner.job]
    BY <1>2, <1>j, EnqueueRows DEF Arrives, Queue!Working, Queue!Queued
  <2> QED BY <1>2, <2>1 DEF Job
<1>3. CASE Queue!RequestCancelAll /\ UNCHANGED runner
  BY <1>3, <1>j, CancelAllRows DEF Job, Moves, KeepsBinding
<1>4. CASE FreezeManifest \/ (\E path \in Paths : AcknowledgeBatch(path))
  <2>1. /\ \/ Queue!InstallForceFullSnapshot(runner.job, Paths)
           \/ \E path : Queue!AcknowledgeForceFullSnapshotFiles(runner.job, {path})
        /\ UNCHANGED runner
    BY <1>4 DEF FreezeManifest, AcknowledgeBatch
  <2> QED BY <1>j, <2>1, PayloadRows DEF Job, Moves, KeepsBinding
<1>5. ~Claim
  BY DEF Claim, At, Holding
<1>6. ~CompleteJob /\ ~CancelJob /\ ~FailJob /\ ~Boot /\ ~Crash
  <2>1. runner' # AtRest
    BY DEF AtRest, Holding
  <2>2. ~Goto("restoring")
    BY TypesAreAll DEF OtherTypes, Goto, Runs, Holding
  <2> QED BY <2>1, <2>2 DEF CompleteJob, CancelJob, FailJob, Boot, Crash, Goto
<1> QED BY StepKinds, <1>1, <1>2, <1>3, <1>4, <1>5, <1>6

\* A working deletion is a pending one of its root.
LEMMA WorkIsPending ==
  ASSUME Queue!IInv, RunnerOwns, runner.pc \in Holding, Job.mode = "drop_index"
  PROVE  /\ Queue!Deleting(runner.job) /\ DeletionPending(Repo)
         /\ \A j \in Queue!Jobs : Queue!Deleting(j) /\ jobs[j].repo = Repo => j = runner.job
<1>1. /\ runner.job \in Queue!Jobs /\ Queue!Working(runner.job) /\ Drops(runner.job)
  BY HeldJob DEF Drops, Job
<1>2. /\ Queue!Deleting(runner.job)
      /\ \A k \in Queue!Jobs : Queue!Active(k) /\ jobs[k].repo = jobs[runner.job].repo
                                 => k = runner.job
  BY <1>1, DropsWorkAlone
<1> QED BY <1>1, <1>2 DEF DeletionPending, Queue!DeletionFor, Queue!Deleting, Repo, Job

\* Records appear bound or uninitialized and disappear with their binding.
LEMMA AbsentStep ==
  ASSUME Queue!IInv, TypeOK, RunnerOwns, AbsentIsUnbound, [Next]_vars
  PROVE  AbsentIsUnbound'
<1> SUFFICES ASSUME NEW r \in Repos PROVE Registered(r)' \/ catalog'[r] = Absent
  BY DEF AbsentIsUnbound
<1>1. CASE Same(r)
  BY <1>1 DEF Same, AbsentIsUnbound, Registered
<1>2. CASE Enrolls(r) \/ Marks(r)
  BY <1>2 DEF Enrolls, Marks, Registered
<1>3. CASE Retires(r)
  BY <1>3 DEF Retires, AbsentIsUnbound, Registered
<1>4. CASE Unregisters(r)
  BY <1>4 DEF Unregisters
<1> QED BY <1>1, <1>2, <1>3, <1>4, StoreStep

\* Readiness is withdrawn when the work begins, and only Publish brings it back.
LEMMA WithdrawnStep ==
  ASSUME Queue!IInv, TypeOK, RunnerOwns, RunnerWaits, DeletionProgress, Withdrawn, [Next]_vars
  PROVE  Withdrawn'
<1> DEFINE Touching == {"started", "opened", "writing", "executed", "publishing", "raised"}
<1>t. runner \in Runs
  BY TypesAreAll DEF OtherTypes
<1> SUFFICES ASSUME runner'.pc \in Touching, Job'.mode # "drop_index", Matches'
             PROVE  catalog'[Repo'].state # "semantic_ready"
  BY DEF Withdrawn
<1>g. ASSUME NEW pc, Goto(pc) PROVE runner'.pc = pc
  BY <1>t, <1>g DEF Goto, Runs
<1>1. CASE runner.pc \in Touching
  <2>1. /\ Job'.repo = Job.repo /\ Job'.generation = Job.generation /\ Job'.mode = Job.mode
        /\ Repo' = Repo /\ Repo \in Repos
    BY <1>1, HeldRow, HeldJob DEF Holding, Positions, Repo
  <2>2. Matches' => /\ catalog'[Repo].state # "absent"
                    /\ catalog'[Repo].generation = Job.generation
    BY <2>1 DEF Matches, Registered
  <2>3. CASE Same(Repo)
    BY <1>1, <2>1, <2>2, <2>3 DEF Same, Withdrawn, Matches, Registered
  <2>4. CASE Enrolls(Repo)
    BY <2>1, <2>4 DEF Enrolls
  <2>5. CASE Marks(Repo)
    BY <1>1, <2>5 DEF Marks
  <2>6. CASE Retires(Repo) \/ Unregisters(Repo)
    BY <1>1, <2>6 DEF Retires, Unregisters
  <2> QED BY <2>1, <2>3, <2>4, <2>5, <2>6, StoreStep
<1>2. CASE runner.pc \notin Touching
  <2>1. \/ MarkStale
        \/ runner.pc \in {"retiring", "renaming", "unregistering", "removing"}
           /\ UNCHANGED queueVars
    <3>1. runner' # runner /\ runner' # AtRest /\ ~Goto("restoring") /\ ~Goto("dead")
          /\ ~Goto("cancelled") /\ ~Goto("published") /\ ~Goto("rewatching")
      BY <1>2, <1>g DEF AtRest
    <3>2. CASE RunOnce
      <4>1. ~Claim /\ ~BeginDeletion
        BY <1>t DEF Claim, BeginDeletion, AtRest, Runs
      <4>2. ~(runner.pc \in Touching)
        BY <1>2
      <4> QED BY <3>1, <3>2, <4>1, <4>2 DEF RunOnce, Cancelling, OpenGraph, StartWriting,
         FreezeManifest, AcknowledgeBatch, IngestEnds, IngestRaises, ReadStatus, Publish,
         CompleteJob, CancelJob, FailJob, Goto, DeleteGraph, RetireStore, Unregister,
         RemoveTombstones, DeletionRaises, RestoreAfterFailure, runnerOnly, At
    <3>3. ~Watching
      BY <3>1 DEF Watching, RestoreOnStartup, Reconcile, ReconcileRejected, InsertWatcher
    <3>4. ~Requests
      BY <3>1 DEF Requests, Index, EnsureGraphFails, DropIndex, IngestFiles, WatcherFires, Late,
         CancelAll
    <3>5. ~(\E request \in late : EnqueueLate(request)) /\ ~Boot /\ ~Crash /\ ~UNCHANGED vars
      BY <3>1 DEF EnqueueLate, Boot, Crash, vars
    <3> QED BY <3>2, <3>3, <3>4, <3>5 DEF Next
  <2>2. CASE MarkStale
    <3>1. runner.pc \in Holding /\ runner'.pc \in Holding
      BY <2>2 DEF MarkStale, At, Holding, Positions
    <3>2. /\ Job'.repo = Job.repo /\ Job'.generation = Job.generation
          /\ Repo' = Repo /\ Repo \in Repos
      BY <3>1, HeldRow, HeldJob DEF Repo
    <3>3. CASE Matches
      <4>1. catalog' = [catalog EXCEPT ![Repo].state = "semantic_stale"]
        BY <2>2, <3>3 DEF MarkStale
      <4> QED BY <3>2, <4>1, TypesAreAll DEF StoreTypes, Records
    <3>4. CASE ~Matches
      BY <2>2, <3>2, <3>4 DEF MarkStale, Matches, Registered
    <3> QED BY <3>3, <3>4
  <2>3. CASE runner.pc \in {"retiring", "renaming", "unregistering", "removing"}
             /\ UNCHANGED queueVars
    <3>1. runner.pc \in Holding /\ runner'.pc \in Holding /\ Job.mode = "drop_index"
      BY <2>3 DEF Holding, Positions, DeletionProgress
    <3> QED BY <3>1, HeldRow
  <2> QED BY <2>1, <2>2, <2>3
<1> QED BY <1>1, <1>2

\* While the runner works it advances by the steps of run_once.
LEMMA WorkSteps ==
  ASSUME Queue!IInv, TypeOK, RunnerOwns, RunnerWaits, [Next]_vars,
         runner.pc \in Holding, runner'.pc \in Holding, runner' # runner
  PROVE  \/ MarkStale \/ Cancelling \/ OpenGraph \/ StartWriting \/ IngestEnds \/ IngestRaises
         \/ ReadStatus \/ Publish \/ BeginDeletion \/ DeleteGraph \/ RetireStore
         \/ Unregister \/ RemoveTombstones \/ DeletionRaises
<1>0. runner.pc \notin {"idle", "restoring", "rewatching", "dead"}
      /\ runner'.pc \notin {"idle", "restoring", "rewatching", "dead"}
  BY DEF Holding
<1>1. runner' # AtRest /\ ~Goto("restoring")
  BY <1>0, TypesAreAll DEF OtherTypes, Goto, Runs, AtRest
<1>2. ~Claim /\ ~FreezeManifest /\ ~(\E path \in Paths : AcknowledgeBatch(path))
      /\ ~CompleteJob /\ ~CancelJob /\ ~FailJob /\ ~RestoreAfterFailure /\ ~Boot /\ ~Crash
  BY <1>0, <1>1 DEF Claim, FreezeManifest, AcknowledgeBatch, CompleteJob, CancelJob, FailJob,
     RestoreAfterFailure, Boot, Crash, At, Goto
<1>3. ~Watching
  <2>1. ASSUME NEW call \in enrolling, call.by = "runner" PROVE FALSE
    BY <1>0, <2>1 DEF RunnerWaits
  <2> QED BY <2>1 DEF Watching, RestoreOnStartup, Reconcile, ReconcileRejected, InsertWatcher
<1>4. ~Requests
  BY DEF Requests, Index, EnsureGraphFails, DropIndex, IngestFiles, WatcherFires, Late, CancelAll
<1>5. ~(\E request \in late : EnqueueLate(request)) /\ ~UNCHANGED vars
  BY DEF EnqueueLate, vars
<1> QED BY <1>2, <1>3, <1>4, <1>5 DEF Next, RunOnce

\* The invariant on the deletion, as a relation between what it speaks of.
Progress(run, mode, matches, record, stores, tombs) ==
  /\ run.pc \in {"retiring", "renaming", "unregistering", "removing"} => mode = "drop_index"
  /\ run.pc \in {"started", "opened", "writing", "cancelled"} => mode # "drop_index"
  /\ run.pc \in {"retiring", "renaming", "unregistering"} =>
       ~run.superseded /\ (record.state # "absent" => matches /\ run.matches)
  /\ run.pc = "unregistering" => stores = {}
  /\ run.pc \in {"removing", "executed", "publishing", "published"} /\ mode = "drop_index" =>
       IF run.superseded THEN record.state # "absent" /\ ~matches
       ELSE record = Absent /\ stores = {}
  /\ run.pc \in {"executed", "publishing", "published"} /\ mode = "drop_index" => tombs = {}

\* It is the conjunct of the invariant.
LEMMA ProgressIs ==
  DeletionProgress <=>
    Progress(runner, Job.mode, Matches, catalog[Repo], store[Repo], tombstones[Repo])
  BY DEF DeletionProgress, Progress, Registered

\* Every durable effect of a deletion leaves what the next one relies on.
LEMMA ProgressStep ==
  ASSUME Queue!IInv, TypeOK, RunnerOwns, RunnerWaits, DropsAreNotCancelled, AbsentIsUnbound,
         DeletionProgress, TombstonesAreDeletions, [Next]_vars
  PROVE  DeletionProgress'
<1> DEFINE Next1 == Progress(runner', Job'.mode, Matches', catalog'[Repo'], store'[Repo'],
                             tombstones'[Repo'])
<1>t. StoreTypes /\ runner \in Runs
  BY TypesAreAll DEF OtherTypes
<1>a. Progress(runner, Job.mode, Matches, catalog[Repo], store[Repo], tombstones[Repo])
  BY ProgressIs
<1>b. DeletionProgress' <=> Next1
  BY DEF DeletionProgress, Progress, Registered
<1>1. CASE runner'.pc \notin Holding
  BY <1>1 DEF DeletionProgress, Holding, Positions
<1>2. CASE runner'.pc \in Holding /\ runner.pc \notin Holding
  <2>1. runner'.pc = "claimed"
    <3>1. ~UNCHANGED queueVars
      BY <1>2, RunnerMoves
    <3>2. \A pc : Goto(pc) => runner'.pc = pc
      BY <1>t DEF Goto, Runs
    <3>3. runner' # runner /\ runner' # AtRest /\ ~Goto("restoring")
      BY <1>2, <3>2 DEF AtRest, Holding
    <3>4. Claim
      BY <1>2, <3>1, <3>3, StepKinds DEF FreezeManifest, AcknowledgeBatch, CompleteJob, CancelJob,
         FailJob, Boot, Crash, Goto
    <3> QED BY <3>4 DEF Claim, AtRest
  <2> QED BY <2>1 DEF DeletionProgress
<1>3. CASE runner'.pc \in Holding /\ runner.pc \in Holding
  <2>1. /\ runner'.job = runner.job
        /\ Job'.repo = Job.repo /\ Job'.generation = Job.generation /\ Job'.mode = Job.mode
    BY <1>3, HeldRow
  <2>2. Repo' = Repo /\ Repo \in Repos /\ runner.job \in Queue!Jobs
    BY <1>3, <2>1, HeldJob DEF Repo
  <2>3. Matches' <=> /\ catalog'[Repo].state # "absent"
                     /\ catalog'[Repo].generation = Job.generation
    BY <2>1, <2>2 DEF Matches, Registered
  <2>4. Matches <=> /\ catalog[Repo].state # "absent"
                    /\ catalog[Repo].generation = Job.generation
    BY DEF Matches, Registered
  <2> DEFINE After == Progress(runner', Job.mode, Matches', catalog'[Repo], store'[Repo],
                               tombstones'[Repo])
  <2>5. SUFFICES After
    BY <1>b, <2>1, <2>2
  <2>g. \A pc : Goto(pc) => /\ runner'.pc = pc /\ runner'.matches = runner.matches
                            /\ runner'.superseded = runner.superseded
    BY <1>t DEF Goto, Runs
  <2>6. CASE runner' = runner
    <3>1. CASE Job.mode # "drop_index"
      BY <1>a, <2>6, <3>1 DEF Progress
    <3>2. CASE Job.mode = "drop_index"
      <4>1. Same(Repo)
        <5>1. DeletionPending(Repo)
          BY <1>3, <3>2, WorkIsPending
        <5> QED BY <2>2, <2>6, <3>2, <5>1, StoreStep DEF Enrolls, Marks, Retires, Unregisters
      <4>2. tombstones'[Repo] = tombstones[Repo]
        BY <2>2, <2>6, TombstoneStep
      <4>3. Matches' <=> Matches
        BY <2>3, <2>4, <4>1 DEF Same
      <4> QED BY <1>a, <2>6, <4>1, <4>2, <4>3 DEF Same
    <3> QED BY <3>1, <3>2
  <2>7. CASE MarkStale \/ Cancelling \/ OpenGraph \/ StartWriting
    BY <1>a, <2>7, <2>g DEF MarkStale, Cancelling, OpenGraph, StartWriting, Progress, At
  <2>8. CASE IngestEnds \/ IngestRaises \/ DeletionRaises
    BY <1>a, <2>8, <2>g DEF IngestEnds, IngestRaises, DeletionRaises, Progress, At
  <2>9. CASE ReadStatus
    <3>1. runner.pc = "executed" /\ catalog' = catalog /\ store' = store /\ tombstones' = tombstones
      BY <2>9 DEF ReadStatus, At, runnerOnly, storeVars
    <3>2. Matches' <=> Matches
      BY <2>3, <2>4, <3>1
    <3>3. Job.status = "cancelling" => Job.mode # "drop_index"
      BY <2>2 DEF DropsAreNotCancelled, Drops, Job
    <3>4. (Goto("cancelled") /\ Job.mode # "drop_index") \/ Goto("publishing")
      BY <2>9, <3>3 DEF ReadStatus
    <3> QED BY <1>a, <2>g, <3>1, <3>2, <3>4 DEF Progress
  <2>10. CASE Publish
    <3>1. runner.pc = "publishing" /\ runner'.pc \in {"published", "raised"}
          /\ runner'.superseded = runner.superseded
      BY <2>10, <2>g DEF Publish, At
    <3>2. CASE Job.mode # "drop_index"
      BY <3>1, <3>2 DEF Progress
    <3>3. CASE Job.mode = "drop_index"
      <4>1. catalog' = catalog /\ store' = store /\ tombstones' = tombstones
        BY <2>10, <3>3 DEF Publish
      <4>2. Matches' <=> Matches
        BY <2>3, <2>4, <4>1
      <4> QED BY <1>a, <3>1, <3>3, <4>1, <4>2 DEF Progress
    <3> QED BY <3>2, <3>3
  <2>11. CASE BeginDeletion
    <3>1. /\ catalog' = catalog /\ store' = store /\ tombstones' = tombstones
          /\ Job.mode = "drop_index"
      BY <2>11 DEF BeginDeletion, runnerOnly, storeVars
    <3>2. Matches' <=> Matches
      BY <2>3, <2>4, <3>1
    <3>3. /\ runner'.matches = Matches
          /\ runner'.superseded = (Registered(Repo) /\ ~Matches)
          /\ runner'.pc = IF Registered(Repo) /\ ~Matches THEN "removing"
                          ELSE IF runner.job \in tombstones[Repo] \/ store[Repo] = {}
                          THEN "unregistering"
                          ELSE "retiring"
      BY <1>t, <2>11 DEF BeginDeletion, Runs
    <3>4. runner.job \in tombstones[Repo] => store[Repo] = {}
      <4>1. Queue!Active(runner.job)
        BY <1>3, <3>1, WorkIsPending DEF Queue!Deleting
      <4> QED BY <2>2, <4>1 DEF TombstonesAreDeletions, Repo, Job
    <3> QED BY <3>1, <3>2, <3>3, <3>4 DEF Progress, Registered
  <2>12. CASE DeleteGraph
    <3>1. /\ runner.pc = "retiring"
          /\ catalog' = catalog /\ store' = store /\ tombstones' = tombstones
          /\ Goto("raised") \/ Goto("renaming")
      BY <2>12 DEF DeleteGraph, At, runnerOnly, storeVars
    <3>2. Matches' <=> Matches
      BY <2>3, <2>4, <3>1
    <3> QED BY <1>a, <2>g, <3>1, <3>2 DEF Progress
  <2>13. CASE RetireStore
    <3>1. /\ runner.pc = "renaming" /\ catalog' = catalog /\ store'[Repo] = {}
          /\ Goto("unregistering")
      BY <1>t, <2>2, <2>13 DEF RetireStore, At, StoreTypes
    <3>2. Matches' <=> Matches
      BY <2>3, <2>4, <3>1
    <3> QED BY <1>a, <2>g, <3>1, <3>2 DEF Progress
  <2>14. CASE Unregister
    <3>1. /\ runner.pc = "unregistering" /\ store' = store
          /\ Goto("removing")
      BY <2>14 DEF Unregister, At
    <3>2. ~runner.superseded /\ store[Repo] = {} /\ (Registered(Repo) => Matches /\ runner.matches)
      BY <1>a, <3>1 DEF Progress, Registered
    <3>3. catalog'[Repo] = Absent
      BY <1>t, <2>2, <2>14, <3>2 DEF Unregister, StoreTypes, AbsentIsUnbound, Matches
    <3> QED BY <1>a, <2>g, <3>1, <3>2, <3>3 DEF Progress
  <2>15. CASE RemoveTombstones
    <3>1. /\ runner.pc = "removing" /\ catalog' = catalog /\ store' = store
          /\ tombstones'[Repo] = {} /\ Goto("executed")
      BY <1>t, <2>2, <2>15 DEF RemoveTombstones, At, StoreTypes
    <3>2. Matches' <=> Matches
      BY <2>3, <2>4, <3>1
    <3> QED BY <1>a, <2>g, <3>1, <3>2 DEF Progress
  <2> QED BY <1>3, <2>6, <2>7, <2>8, <2>9, <2>10, <2>11, <2>12, <2>13, <2>14, <2>15, WorkSteps
<1> QED BY <1>1, <1>2, <1>3

\* What a tombstone says stays true.
LEMMA TombstonesStep ==
  ASSUME Queue!IInv, TypeOK, RunnerOwns, DropsAreNotCancelled, DeletionProgress,
         TombstonesAreDeletions, [Next]_vars
  PROVE  TombstonesAreDeletions'
<1> SUFFICES ASSUME NEW r \in Repos, NEW j \in tombstones'[r]
             PROVE  /\ jobs'[j].status # "absent"
                    /\ jobs'[j].mode = "drop_index"
                    /\ Queue!Active(j)' /\ jobs'[j].repo = r => store'[r] = {}
  BY DEF TombstonesAreDeletions
<1>1. CASE tombstones'[r] = tombstones[r]
  <2>1. /\ j \in Queue!Jobs /\ jobs[j].status # "absent" /\ Drops(j)
        /\ Queue!Active(j) /\ jobs[j].repo = r => store[r] = {}
    BY <1>1, TypesAreAll DEF StoreTypes, TombstonesAreDeletions, Drops
  <2>2. Moves(j)
    BY <2>1, RowsStep DEF Arrives
  <2>3. jobs'[j].status # "absent" /\ jobs'[j].mode = "drop_index" /\ jobs'[j].repo = jobs[j].repo
    BY <2>1, <2>2 DEF Moves, KeepsBinding, Drops
  <2>4. ASSUME Queue!Active(j)', jobs'[j].repo = r PROVE store'[r] = {}
    <3>1. Queue!Deleting(j) /\ jobs[j].repo = r
      BY <2>2, <2>3, <2>4 DEF Moves, Queue!Deleting, Queue!Active
    <3>2. DeletionPending(r) /\ store[r] = {}
      BY <2>1, <3>1 DEF DeletionPending, Queue!DeletionFor, Queue!Deleting
    <3> QED BY <3>2, StoreStep DEF Same, Enrolls, Marks, Retires, Unregisters
  <2> QED BY <2>3, <2>4
<1>2. CASE runner.pc = "renaming" /\ Repo = r /\ UNCHANGED queueVars
           /\ tombstones'[r] = tombstones[r] \cup {runner.job} /\ store'[r] = {}
  <2>1. jobs' = jobs
    BY <1>2 DEF queueVars
  <2>2. CASE j = runner.job
    <3>1. Queue!Working(j)
      BY <1>2, <2>2, HeldJob DEF Holding, Positions
    <3> QED BY <1>2, <2>1, <2>2, <3>1 DEF DeletionProgress, Job, Queue!Working
  <2>3. CASE j \in tombstones[r]
    BY <1>2, <2>1, <2>3 DEF TombstonesAreDeletions
  <2> QED BY <1>2, <2>2, <2>3
<1> QED BY <1>1, <1>2, TombstoneStep

\* A root that is whole stays whole, except while its deletion takes the store.
LEMMA WholeStep ==
  ASSUME Queue!IInv, TypeOK, RunnerOwns, DeletionProgress, AbsentIsUnbound,
         NEW r \in Repos, [Next]_vars
  PROVE  /\ Whole(r) => Whole(r)' \/ Retires(r)
         /\ Enrolls(r) \/ Unregisters(r) => Whole(r)'
<1>1. TypeOK'
  BY TypeStep
<1>2. Same(r) /\ Whole(r) => Whole(r)'
  BY DEF Same, Whole, LiveStore, Bound, Registered
<1>3. Marks(r) /\ Whole(r) => Whole(r)'
  BY DEF Marks, Whole, LiveStore, Bound, Registered
<1>4. Enrolls(r) => Whole(r)'
  <2>1. 0 \notin store'[r]
    BY <1>1 DEF TypeOK
  <2> QED BY <2>1 DEF Enrolls, Whole, LiveStore, Bound, Registered
<1>5. Unregisters(r) => Whole(r)'
  BY DEF Unregisters, DeletionProgress, Whole, LiveStore, Bound, Registered, Absent
<1> QED BY <1>2, <1>3, <1>4, <1>5, StoreStep

\* A deletion that has failed is on record for good.
LEMMA FailedStays ==
  ASSUME Queue!IInv, TypeOK, RunnerOwns, DropsAreNotCancelled, DeletionProgress,
         NEW r \in Repos, [Next]_vars, FailedFor(r)
  PROVE  FailedFor(r)'
<1>1. PICK j \in Queue!Jobs : jobs[j].repo = r /\ Drops(j) /\ jobs[j].status = "failed"
  BY DEF FailedFor
<1>2. Moves(j)
  BY <1>1, RowsStep DEF Arrives, Queue!Queued
<1>3. jobs'[j] = jobs[j]
  BY <1>1, <1>2 DEF Moves, Queue!Terminal
<1> QED BY <1>1, <1>3 DEF FailedFor, Drops, Queue!Jobs

\* What on_completed leaves of the runner's root and of the other ones.
LEMMA CompletedDeletion ==
  ASSUME Queue!IInv, TypeOK, RunnerOwns, DeletionProgress, CompleteJob,
         Job.mode = "drop_index"
  PROVE  /\ UNCHANGED storeVars
         /\ tombstones[Repo] = {}
         /\ IF runner.superseded THEN Registered(Repo) /\ catalog[Repo].generation # Job.generation
            ELSE catalog[Repo] = Absent /\ store[Repo] = {}
<1>1. runner.pc = "published"
  BY DEF CompleteJob, At
<1> QED BY <1>1 DEF CompleteJob, DeletionProgress, Matches

\* Every half is explained, and not by a deletion that will pass it over.
LEMMA HalvesStep ==
  ASSUME Queue!IInv, TypeOK, RunnerOwns, DropsAreNotCancelled, AbsentIsUnbound,
         DeletionProgress, HalvesOfOthers, [Next]_vars
  PROVE  HalvesOfOthers'
<1>1. ASSUME NEW r \in Repos PROVE Whole(r)' \/ FailedFor(r)' \/ DeletionPending(r)'
  <2>1. CASE FailedFor(r)
    BY <2>1, FailedStays
  <2>2. CASE Whole(r)
    <3>1. CASE Retires(r)
      <4>1. Job.mode = "drop_index" /\ runner.pc \in Holding /\ jobs' = jobs
        BY <3>1 DEF Retires, DeletionProgress, Holding, Positions, queueVars
      <4>2. DeletionPending(r)
        BY <3>1, <4>1, WorkIsPending DEF Retires
      <4> QED BY <4>1, <4>2 DEF DeletionPending, Queue!DeletionFor, Queue!Deleting, Queue!Active,
              Queue!Jobs
    <3> QED BY <2>2, <3>1, WholeStep
  <2>3. CASE ~Whole(r) /\ ~FailedFor(r)
    <3>1. PICK j \in Queue!Jobs : Queue!Deleting(j) /\ jobs[j].repo = r
      BY <2>3 DEF HalvesOfOthers, DeletionPending, Queue!DeletionFor
    <3>2. Moves(j) /\ (StaysOrFails(j) \/ (CompleteJob /\ j = runner.job))
      BY <3>1, RowsStep
         DEF Arrives, Queue!Deleting, Queue!Active, Queue!ActiveStatuses, Queue!Queued, Drops
    <3>3. jobs'[j].repo = r /\ Drops(j)'
      BY <3>1, <3>2 DEF Moves, KeepsBinding, Drops, Queue!Deleting
    <3>4. CASE Queue!Deleting(j)'
      BY <3>3, <3>4 DEF DeletionPending, Queue!DeletionFor, Queue!Deleting, Queue!Active, Queue!Jobs
    <3>5. CASE jobs'[j].status = "failed"
      BY <3>3, <3>5 DEF FailedFor, Queue!Jobs
    <3>6. CASE CompleteJob /\ j = runner.job
      <4>1. Repo = r /\ Job.mode = "drop_index" /\ Job.generation = jobs[j].generation
        BY <3>1, <3>6 DEF Repo, Job, Queue!Deleting
      <4>2. ~runner.superseded
        BY <2>3, <3>1, <3>6, <4>1, CompletedDeletion DEF HalvesOfOthers
      <4>3. catalog'[r] = Absent /\ store'[r] = {}
        BY <3>6, <4>1, <4>2, CompletedDeletion DEF storeVars
      <4> QED BY <4>3 DEF Whole, Bound, Absent
    <3> QED BY <3>1, <3>2, <3>4, <3>5, <3>6 DEF StaysOrFails
  <2> QED BY <2>1, <2>2, <2>3
<1>2. ASSUME NEW j \in Queue!Jobs, NEW r \in Repos, jobs'[j].repo = r,
             Queue!Deleting(j)', Registered(r)',
             catalog'[r].generation # jobs'[j].generation
      PROVE  Whole(r)' \/ FailedFor(r)'
  <2>1. CASE Moves(j)
    <3>2. /\ jobs[j].repo = r /\ jobs'[j].generation = jobs[j].generation
          /\ Queue!Deleting(j)
      BY <1>2, <2>1 DEF Moves, KeepsBinding
    <3>3. DeletionPending(r)
      BY <3>2 DEF DeletionPending, Queue!DeletionFor
    <3>4. CASE FailedFor(r)
      BY <3>4, FailedStays
    <3>5. CASE Registered(r) /\ catalog[r].generation # jobs[j].generation
      <4>1. Whole(r) \/ FailedFor(r)
        BY <3>2, <3>5 DEF HalvesOfOthers
      <4>2. ~Retires(r)
        <5>1. ASSUME Retires(r) PROVE FALSE
          <6>1. Job.mode = "drop_index" /\ runner.pc \in Holding /\ Repo = r
            BY <5>1 DEF Retires, DeletionProgress, Holding, Positions
          <6>2. j = runner.job
            BY <3>2, <6>1, WorkIsPending
          <6>3. Matches
            BY <3>5, <5>1, <6>1 DEF Retires, DeletionProgress
          <6> QED BY <3>5, <6>1, <6>2, <6>3 DEF Matches, Job
        <5> QED BY <5>1
      <4> QED BY <3>4, <4>1, <4>2, WholeStep
    <3>6. Registered(r) /\ catalog[r].generation # jobs[j].generation
      <4>1. catalog'[r].state # "absent" /\ catalog'[r].generation # jobs[j].generation
        BY <1>2, <3>2 DEF Registered
      <4> QED BY <3>3, <4>1, StoreStep
              DEF Same, Enrolls, Marks, Retires, Unregisters, Registered, Matches, Absent
    <3> QED BY <3>5, <3>6
  <2>2. CASE Arrives(j) /\ UNCHANGED storeVars
    <3>2. Whole(r) \/ FailedFor(r)
      BY <1>2, <2>2 DEF HalvesOfOthers, DeletionPending, Arrives
    <3>3. Whole(r) => Whole(r)'
      BY <2>2 DEF storeVars, Whole, LiveStore, Bound, Registered
    <3> QED BY <3>2, <3>3, FailedStays
  <2>3. Drops(j)'
    BY <1>2 DEF Drops, Queue!Deleting
  <2> QED BY <2>1, <2>2, <2>3, RowsStep
<1>3. \A j \in Queue!Jobs : jobs'[j].repo \in Repos
  <2>1. Queue!IInv'
    BY QueueUse, QueueInvStep
  <2> QED BY <2>1 DEF Queue!IInv, Queue!TypeOK, Queue!Rows, Queue!Jobs
<1> QED BY <1>1, <1>2, <1>3 DEF HalvesOfOthers, Queue!Jobs
-----------------------------------------------------------------------------
(***************************************************************************)
(* The theorems                                                            *)
(***************************************************************************)

\* A first start finds an empty queue.
LEMMA InitQueue == Init => Queue!IInv
<1> SUFFICES ASSUME Init PROVE Queue!IInv
  OBVIOUS
<1>1. QueueFacts!Init
  BY DEF Init, Queue!Init, QueueFacts!Init, Queue!Jobs, QueueFacts!Jobs, Queue!Absent,
     QueueFacts!Absent, Queue!NoPayload, QueueFacts!NoPayload
<1>2. QueueFacts!TypeOK
  BY <1>1, QueueAssumptions, QueueFacts!InitType
<1>3. \A j \in QueueFacts!Jobs : jobs[j].status = "absent"
  BY <1>1 DEF QueueFacts!Init, QueueFacts!Absent
<1>4. held = {}
  BY <1>1 DEF QueueFacts!Init
<1>5. QueueFacts!IInv
  BY <1>2, <1>3, <1>4
     DEF QueueFacts!IInv, QueueFacts!Fresh, QueueFacts!OneQueuedPerRepo,
         QueueFacts!OneWorkerPerStore, QueueFacts!DeletionIsExclusive,
         QueueFacts!HeldRowsStayLeased, QueueFacts!Queued, QueueFacts!Working,
         QueueFacts!Deleting, QueueFacts!Active, QueueFacts!ActiveStatuses
<1> QED BY <1>5, QueueInvariant

\* Nothing is registered, stored, watched or claimed before the first start.
LEMMA InitInv == Init => DaemonInv
<1> SUFFICES ASSUME Init PROVE DaemonInv
  OBVIOUS
<1>1. Queue!IInv
  BY InitQueue
<1>2. AtRest \in Runs /\ Absent \in Records /\ 0 \in Generations /\ 0 \in 0 .. MaxFaults
      /\ 1 \in 1 .. MaxGenerations + 1
  BY DaemonBoundsAssumption
     DEF AtRest, Runs, Positions, Absent, Records, StoreStates, Generations
<1>3. TypeOK
  BY <1>2, TypesAreAll DEF Init, StoreTypes, WatchTypes, OtherTypes
<1>4. runner.pc = "idle" /\ held = {}
  BY DEF Init, AtRest, Queue!Init
<1>5. \A j \in Queue!Jobs : jobs[j].status = "absent"
  BY DEF Init, Queue!Init, Queue!Absent
<1>6. RunnerOwns /\ RunnerWaits /\ DeletionProgress /\ Withdrawn
  BY <1>4 DEF RunnerOwns, RunnerWaits, DeletionProgress, Withdrawn, Holding, Init
<1>7. DropsAreNotCancelled /\ AbsentIsUnbound /\ TombstonesAreDeletions
  BY <1>5 DEF DropsAreNotCancelled, AbsentIsUnbound, TombstonesAreDeletions, Init
<1>8. HalvesOfOthers
  BY <1>5 DEF HalvesOfOthers, Whole, Bound, Absent, Init, Queue!Deleting, Queue!Active,
     Queue!ActiveStatuses
<1> QED BY <1>1, <1>3, <1>6, <1>7, <1>8 DEF DaemonInv

\* The invariant is inductive.
LEMMA DaemonInvStep == DaemonInv /\ [Next]_vars => DaemonInv'
<1> SUFFICES ASSUME DaemonInv, [Next]_vars PROVE DaemonInv'
  OBVIOUS
<1> USE DEF DaemonInv
<1>1. Queue!IInv'
  BY QueueUse, QueueInvStep
<1>2. TypeOK' /\ RunnerOwns' /\ RunnerWaits'
  BY TypeStep, RunnerStep, WaitStep
<1>3. DropsAreNotCancelled' /\ AbsentIsUnbound'
  BY DropsStep, AbsentStep
<1>4. DeletionProgress' /\ TombstonesAreDeletions'
  BY ProgressStep, TombstonesStep
<1>5. Withdrawn' /\ HalvesOfOthers'
  BY WithdrawnStep, HalvesStep
<1> QED BY <1>1, <1>2, <1>3, <1>4, <1>5

\* The inductive invariant holds in every reachable state of the daemon.
THEOREM DaemonInvariant == Spec => []DaemonInv
BY InitInv, DaemonInvStep, PTL DEF Spec

\* Every variable keeps its type.
THEOREM DaemonTypes == Spec => []TypeOK
<1>1. DaemonInv => TypeOK
  BY DEF DaemonInv
<1> QED BY <1>1, DaemonInvariant, PTL

\* Routes, watchers, runner and recovery together behave as the queue alone may:
\* what is proved of IngestionJobs holds inside the daemon.
THEOREM DaemonKeepsToTheQueue == Spec => UsesTheQueue
<1>1. Init => Queue!Init
  BY DEF Init
<1>2. DaemonInv /\ [Next]_vars => [Queue!Next]_(Queue!vars)
  BY QueueUse DEF DaemonInv
<1> QED BY <1>1, <1>2, DaemonInvariant, PTL DEF Spec, UsesTheQueue, Queue!Spec

\* The daemon implements RepositoryWork too: what routes, watchers, runner and
\* recovery do to the work of a repository is what the queue promises.
THEOREM DaemonImplementsWork == Spec => QueueFacts!ImplementsWork
<1>1. Init => QueueFacts!Init
  BY DEF Init, Queue!Init, QueueFacts!Init, Queue!Jobs, QueueFacts!Jobs, Queue!Absent,
         QueueFacts!Absent, Queue!NoPayload, QueueFacts!NoPayload
<1>2. DaemonInv /\ [Next]_vars => [QueueFacts!Next]_(QueueFacts!vars)
  BY QueueUse, QueueStep DEF DaemonInv
<1>3. Spec => QueueFacts!Spec
  BY <1>1, <1>2, DaemonInvariant, PTL DEF Spec, QueueFacts!Spec
<1>4. QueueFacts!Spec => QueueFacts!ImplementsWork
  BY QueueAssumptions, QueueFacts!QueueImplementsWork
<1> QED BY <1>3, <1>4

\* No record reads semantic_ready while a job of its generation changes the graph
\* or after one has failed in it.
THEOREM ReadinessIsWithdrawn == Spec => []NotReadyWhileWriting
<1>1. DaemonInv => NotReadyWhileWriting
  BY DEF DaemonInv, Withdrawn, NotReadyWhileWriting
<1> QED BY <1>1, DaemonInvariant, PTL

\* A record without its store, or a store without its record, can be deleted:
\* it comes from a deletion or from an enrollment that failed.
THEOREM HalvesCanBeDeleted == Spec => []HalvesAreExplained
<1>1. DaemonInv => HalvesAreExplained
  <2> SUFFICES ASSUME DaemonInv, NEW r \in Repos
               PROVE  \/ LiveStore(r)
                      \/ ~Bound(r) /\ (store[r] = {} \/ Registered(r))
                      \/ \E j \in Queue!Jobs :
                           /\ jobs[j].repo = r
                           /\ jobs[j].mode = "drop_index"
                           /\ Queue!Active(j) \/ jobs[j].status = "failed"
    BY DEF HalvesAreExplained
  <2>1. Whole(r) \/ FailedFor(r) \/ DeletionPending(r)
    BY DEF DaemonInv, HalvesOfOthers
  <2> QED BY <2>1 DEF Whole, FailedFor, DeletionPending, Queue!DeletionFor, Queue!Deleting, Drops
<1> QED BY <1>1, DaemonInvariant, PTL

\* No failure, crash or late request makes anything but the deletion job of the
\* catalog's own generation take that generation away.
THEOREM DeletionsTakeTheirOwn == Spec => OnlyItsDeletionRemoves
<1> DEFINE Own == \A r \in Repos :
       /\ Bound(r)
       /\ (LiveStore(r) /\ ~LiveStore(r)') \/ catalog'[r] = Absent
       => /\ runner.job # 0 /\ Repo = r
          /\ Job.mode = "drop_index"
          /\ Job.generation = catalog[r].generation
<1>1. DaemonInv /\ [Next]_vars => Own
  <2> SUFFICES ASSUME DaemonInv, [Next]_vars, NEW r \in Repos, Bound(r),
                      (LiveStore(r) /\ ~LiveStore(r)') \/ catalog'[r] = Absent
               PROVE  /\ runner.job # 0 /\ Repo = r
                      /\ Job.mode = "drop_index"
                      /\ Job.generation = catalog[r].generation
    OBVIOUS
  <2>1. Registered(r)
    BY DEF DaemonInv, AbsentIsUnbound, Bound, Absent
  <2>2. Retires(r) \/ Unregisters(r)
    <3>1. ~Same(r)
      BY DEF Same, LiveStore, Bound, Absent
    <3>2. ~Enrolls(r)
      BY DEF Enrolls
    <3>3. ~Marks(r)
      BY DEF Marks, LiveStore, Bound, Absent
    <3> QED BY <3>1, <3>2, <3>3, StoreStep DEF DaemonInv
  <2>3. runner.pc \in {"renaming", "unregistering"} /\ Repo = r
    BY <2>2 DEF Retires, Unregisters
  <2>4. runner.job # 0
    BY <2>3, HeldJob DEF DaemonInv, Holding, Positions, Queue!Jobs
  <2>5. Job.mode = "drop_index" /\ Matches
    BY <2>1, <2>3 DEF DaemonInv, DeletionProgress
  <2> QED BY <2>3, <2>4, <2>5 DEF Matches
<1>2. DaemonInv /\ [Next]_vars => [Own]_vars
  BY <1>1
<1> QED BY <1>2, DaemonInvariant, PTL DEF Spec, OnlyItsDeletionRemoves

\* While a deletion is active no enrollment, late request or watcher brings a
\* generation of its root back.
THEOREM DeletedStaysDeleted == Spec => NoResurrection
<1> DEFINE Down == \A r \in Repos :
       DeletionPending(r) =>
         /\ catalog'[r].generation \in {catalog[r].generation, 0}
         /\ store'[r] \subseteq store[r]
<1>1. DaemonInv /\ [Next]_vars => Down
  <2> SUFFICES ASSUME DaemonInv, [Next]_vars, NEW r \in Repos, DeletionPending(r)
               PROVE  /\ catalog'[r].generation \in {catalog[r].generation, 0}
                      /\ store'[r] \subseteq store[r]
    OBVIOUS
  <2> QED BY StoreStep DEF DaemonInv, Same, Enrolls, Marks, Retires, Unregisters, Absent
<1>2. DaemonInv /\ [Next]_vars => [Down]_vars
  BY <1>1
<1> QED BY <1>2, DaemonInvariant, PTL DEF Spec, NoResurrection

\* Through any number of attempts, failures and deaths, a deletion that reports
\* completion has left nothing of its generation.
THEOREM DeletionsLeaveNothing == Spec => DeletionIsComplete
<1> DEFINE Gone == \A j \in Queue!Jobs :
       /\ Queue!Working(j) /\ jobs[j].mode = "drop_index"
       /\ jobs'[j].status = "completed"
       => LET r == jobs[j].repo
          IN  /\ tombstones'[r] = {}
              /\ \/ catalog'[r] = Absent /\ store'[r] = {}
                 \/ runner.superseded /\ catalog'[r].generation # jobs[j].generation
<1>1. DaemonInv /\ [Next]_vars => Gone
  <2> SUFFICES ASSUME DaemonInv, [Next]_vars, NEW j \in Queue!Jobs, Queue!Working(j),
                      jobs[j].mode = "drop_index", jobs'[j].status = "completed"
               PROVE  /\ tombstones'[jobs[j].repo] = {}
                      /\ \/ catalog'[jobs[j].repo] = Absent /\ store'[jobs[j].repo] = {}
                         \/ /\ runner.superseded
                            /\ catalog'[jobs[j].repo].generation # jobs[j].generation
    OBVIOUS
  <2>1. Queue!Deleting(j)
    BY DEF Queue!Deleting, Queue!Active, Queue!Working, Queue!ActiveStatuses
  <2>2. CompleteJob /\ j = runner.job
    BY <2>1, RowsStep DEF DaemonInv, StaysOrFails, Arrives, Queue!Deleting, Queue!Active,
       Queue!ActiveStatuses
  <2> QED BY <2>2, CompletedDeletion DEF DaemonInv, storeVars, Repo, Job
<1>2. DaemonInv /\ [Next]_vars => [Gone]_vars
  BY <1>1
<1> QED BY <1>2, DaemonInvariant, PTL DEF Spec, DeletionIsComplete
=============================================================================
