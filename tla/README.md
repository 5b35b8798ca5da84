# SCS in TLA+

SCS is a headless code-intelligence daemon. One process per user holds, for each
enrolled repository, a native graph of its entities (nodes, relationships, text and
vector indexes), keeps it up to date with the sources, and answers search and
navigation queries. This directory holds TLA+ models of the parts of it that are
concurrent, durable or restartable, the TLC configurations that check them on small
instances, and proofs of the main results for every instance.

Paths below are relative to `src/src/scs/` unless they start with `specs/`,
`decisions/` or `crates/` (then relative to `src/`).

    tlc -config jobs_one_repo.cfg MCIngestionJobs     (any run of the table below)
    tlapm IngestionJobsProofs.tla                     (any *Proofs module)

## 1. The system

```
MCP client ──stdio── bridge ──SCSWire (unix socket)──┐
                                                     ▼
                       daemon: routes ── enqueue ──► durable queue (SQLite)
                         │   watchers ─ enqueue ─►      │ claim
                         │                              ▼
                         │  catalog + registry ◄── runner ──► pipeline
                         │       │                              │
                         └─ reads┴─► native graph (Rust, gated) ◄┘ writes
```

The event loop of the daemon runs routes, watchers and one runner; database,
parser and graph calls run in worker threads, so any two of these may interleave at
every `await`. The process may be killed at any instant; the next client starts a
new one, which recovers from the databases alone.

| Component | State | Operations | Correct when |
|---|---|---|---|
| Durable job queue, `indexing/jobs.py` | table of rows: repository, store generation, mode, payload (paths, force manifest), status, attempts, lease | enqueue/merge, claim, heartbeat, manifest install and acknowledge, complete, fail or retry, cancel, recover stale rows | one queued row per repository, one worker per store, no accepted work lost or narrowed, finished rows final, deletions neither dropped nor downgraded, every row settles |
| Runner, `indexing/runner.py` | position in `run_once` | claim, callbacks, pass, completion, failure | uses the queue as intended, readiness brackets writing, survives failures |
| Catalog and registry, `storage/` | per root: state and active generation; store directories; tombstones; cache of open graphs | register, create, activate, update state, delete durably | no half left without explanation, deletion complete, no resurrection |
| Enrollment, deletion, watchers, `main.py`, `services/routes.py` | watcher table, per-root locks | index, reindex, ingest files, drop index, start-up restoration | stale bindings never hurt a newer generation; each root stored at a start comes to be watched |
| Ingestion pipeline, `indexing/pipeline.py` | locals of a pass; graph contents | discover, diff, delete, parse, replace, embed, check, acknowledge | an acknowledged hash proves durable content; a force job processes its frozen manifest exactly; a full pass leaves the graph equal to the sources |
| Graph gate, `graph/gating.py` | reader count, reserved, active, one condition | read and mutation decorators | exclusion, no lost wake-up, deletes not starved by reads |
| Native graph store, `crates/scs-store` | nodes, edges, vectors, ingested files | transactions, search, traversal | each call is atomic and durable |
| Git-state watcher, `indexing/watcher.py` | baseline, pending flag, polling interval | observe, debounce, enqueue | every change gets into the index, unless its report is lost |
| Discovery, `indexing/discovery.py` | none (the file system, Git) | full discovery, one-file check | both judge a file alike; nothing hidden becomes a source |
| Parsers, `crates/scs-parser` | none | syntax | - |
| Daemon life cycle, `main.py`, `daemon.py`, `service.py`, `identity.py`, `cli.py`, `uninstall.py` | writer lock, bootstrap lock, identity record, socket, client leases, idle timer | start, drain, stop, control, uninstall | one daemon works at a time; stopped means stopped; an idle daemon ends and a leased one does not end as idle |
| SCSWire, `wire/` | connections, calls under way | serve, drain | the socket is the writer's; a stopping server waits for its calls |
| Query orchestration, `orchestration/` | classifier readiness, health monitor, locals of each query | 7 playbooks, fallback, time-outs | what an answer lacks is reported; waiting ends |
| Search fusion, `indexing/search.py` | none | rank fusion, merging | order-independent, duplicate-free |
| Metrics, `metrics.py` | bounded table | record, aggregate, prune | within its limit |
| Providers, MCP bridge, uninstaller, configuration, git history, evaluation | mostly none | calls out, translation | - |

Hard behaviours: the interleaving of requests, watchers and the runner around a
binding (root, generation) that may be stale when it is used; rows merged into rows
at five places (enqueue, retry, recovery, with manifests of older attempts);
readiness withdrawn and published around a pass that may be cancelled, fail, or
outlive its generation; two databases and a graph that no transaction spans; deletion
in four durable steps; sources edited in the middle of a pass; one condition variable
for two reasons to wait; a fingerprint that Git reads in three instants; two locks, a
socket and a record shared by processes that die; a classifier that comes and goes
under queries that wait for it. `PROJECT.json` lists each hazard at its line, with the
properties that would catch it.

## 2. The modules

| Module | Models | Extends / instantiates |
|---|---|---|
| `RepositoryWork` | abstract: the work each repository waits for and has in progress | - |
| `IngestionJobs` | the durable queue and the incarnations that use it | refines `RepositoryWork` |
| `ReadWriteExclusion` | abstract: what a gate promises its graph | - |
| `GraphGate` | the gate, thread by thread | refines `ReadWriteExclusion` |
| `IndexingDaemon` | runner, catalog, registry, deletion, routes, watchers | `Queue == INSTANCE IngestionJobs` |
| `Pipeline` | what one job does to a graph, transaction by transaction | - |
| `DaemonLifecycle` | daemon processes, locks, socket, leases, controllers, uninstaller | - |
| `Watcher` | one polled root: fingerprint, baseline, debounce, start-up | - |
| `CodeSearch` | fusion, merging and degradation of a search: pure operators | - |
| `Query` | readiness, routing and playbooks of queries, drain of the server | extends `CodeSearch` |
| `Discovery` | which files are sources, by two implementations | - |
| `MC...` | instances for TLC | their module |
| `...Proofs` | theorems | their module |

Definitions that begin with the comment `Variant:` are deliberate mistakes (a dropped
guard, a swapped order); `PROJECT.json` names for each property one variant that
breaks it under the property's own run, which shows that the property can fail.

### IngestionJobs
`jobs` is the table, one record per row; `nextId`, `boot` (the lease owner, a new
name for each daemon), `alive`, and `held`, the rows the live incarnation claimed and
has not given back. Every public method of `IngestionJobStore` runs in one
`BEGIN IMMEDIATE` transaction and is one action: `EnqueueMerge`/`EnqueueInsert`
(`enqueue`), `ClaimNext`, `Heartbeat`, `InstallForceFullSnapshot`,
`AcknowledgeForceFullSnapshotFiles`, `Complete`, `MarkCancelled`, `FailOrRetry`,
`RequestCancel`, `RequestCancelAll`; `StartRunner` is the start of a runner with
`reclaim_stale_running` (`Reclaimed`), `Crash` the death of the process,
`LeaseExpires` the clock. Row ids stand for `(created_at, rowid)`. The status
`retrying`, accepted by the queries and never written, is left out, as are reasons,
messages and progress. A hash of a manifest entry is not kept: the manifest is its
set of paths. `WaitingWork` and `RunningWork` read the table as work: the mode and the
paths of the queued row of a repository, and those of its running or cancelling
row. `RepositoryWork` says what may become of that work without rows, leases,
attempts or owners: requests are joined, claimed work moves, a failure or a new daemon
joins it back, an end or a cancellation removes it.

### GraphGate
`pc` places each thread in `read`/`mutation`; a step is what a thread does while
it holds the mutex, up to `wait` or release. `notify_all` moves every sleeper to the
place where it tests its condition again.

### IndexingDaemon
A composition: each change of the queue is an action of `IngestionJobs` conjoined
with the change of the rest. A step is what the event loop does between two awaits,
or one durable effect of a worker thread. `_enqueue` and `drop_index` hold the
per-root lock from their check to the enqueue and are one action each;
`ingest_files` and the watchers read the binding in one step and enqueue in a later
one (`late`). `_ensure_watcher` is three steps (look, reconcile, insert), since it
awaits between them. `delete_repository` is its durable effects in order:
`DeleteGraph`, `RetireStore` (rename to the tombstone), `Unregister`,
`RemoveTombstones`. A shutdown is `CancelAll` or nothing, then `Crash`: nothing in
the stop path changes durable state. `ensure_graph` on a bound root whose directory
is gone raises, so it is no action. A queued row that a request leaves behind is
enqueued by `EnqueueRequest`, which keeps one row per root in reserve for each coming
start-up (`SpareRows`): the bound on rows cuts off requests, never recovery.
`auto_reindex` and the look whether the root is a directory are the choice of `Index`
and of the start-up to leave a root alone. `on_failed` may raise out of `run_once`: the
runner is then `dead` until the process ends. `request_cancel` has no caller in the daemon and
`cleanup` is never enqueued by it; both are in `IngestionJobs` only.

### Pipeline
The row the runner works on (`job`), the locals of the pass (`pass`), the sources
(`disk`) and the store: the content each file's nodes describe (`nodes`), the files
whose nodes have vectors (`embedded`), relationships as pairs of files (`edges`), the
acknowledged content (`hashes`) and the readiness flag. `doubted` is history: files
that went back to the content their record names, or were taken away by a force job or
for a client, since they were last acknowledged. A step is one durable
transaction or one look at the sources; `Edit`, `Crash`, `Raise` and `Cancelled` fall
between any two. `Begin`..`DeleteReplaced`, `UpsertNodes`, `UpsertEdges`, `Embed`,
`CheckSources`, `Acknowledge`, `Checkpoint` follow `_ingest_entries`; the manifest is
acknowledged in the queue's database one step after the hashes in the graph's.
Abstractions: a discovery, and the parsing of a plan, read their files at one
instant; each parsed file has an entity; whether one file refers to another does not
depend on their contents; a provider is configured; batches are cut by number of
files; vectors are durable with their transaction (the code ignores the result of the
flush). The rows' interplay is `IngestionJobs`; here a request can only widen the
queued row of a retry. `cleanup_stale_files` is not modelled yet: no request of the
daemon creates a cleanup job.

### DaemonLifecycle
`Daemons` are processes, each its own generation; `pc` places each between its birth
and its end, and a step ends where the coroutine awaits or where another process can
see the file it changed. `writer` and `bootstrap` are the two `ProcessLock`s, freed by
the kernel when their holder dies; `socket` and `identity` are files, which a dead
process leaves behind. `Teardown` follows `SCSDaemon.stop` in its order: server and
socket, then watchers, runner and stores (the row "closing"), the lock, and last the
identity record in two steps, the look and the unlink. A controller is one process at
a time of `ctl`: `EnsureStarted`..`Started` is `ensure_started` with the bootstrap
lock, `Connect`, `ClientCounted`, `Detach` the lease of a bridge, `Stop`..`EndProbe`
is `stop`, and `LockForRemoval`, `RemovePackage`, `Purge` the rest of `uninstall`.
Calls may time out, fail and be answered by whichever daemon is at the socket then.
The job table is one flag, `active`. Abstractions: a connection ends when the server
does; the delay of a timer is any delay; an enqueue
whose watcher was cancelled ends with the runner, though its thread may outlive the lock
(the row it writes is recovered by the next daemon); a daemon's start is `opening` from the lock
to the bind, since no other process sees what lies between.

### Watcher
The working tree is a version number, `head` the version that is committed; `Edit`
writes a new version, `Restore` and `Checkout` bring an old one back. A fingerprint is
read in three steps (`ReadHead`, `ReadStatus`, `ReadMetadata`), between which the user
edits and commits; a `rev-parse` that fails reads an empty HEAD. `FirstBaseline`,
`Unchanged` and `Changed` are the three ends of `observe_once`; `Flush` and `Enqueue` are
the debounce task and the thread it starts, which a cancelled task does not stop. The
queue is one flag with its attempts (`EnqueueRow`, `JobEnds`: a failed job is queued again
by `Retry`, or given up by `FailForGood` after `MaxAttempts`; `CancelAll` and `Cancelled`
end it as well) and the runner the instant at which a full job reads the sources, since
that is all a change needs; the real queue is `IngestionJobs`. `touched` (the tree has
changed since the first baseline) and `lost` (until the next discovery: a content that
came back, a report whose enqueue raised, a job that failed for good or was cancelled)
are history.

### Query and CodeSearch
`handler` holds the locals of each `QueryOrchestrator.query`; `Plan` is the playbook
as a list of stages, and a stage takes one of the answers its route can give: all there
is, a part, or silence where there is no index. The flags of each answer are computed as
the route computes them, from what the index holds. Apart from the flags the handler
counts what the playbook owes: `followed` says that it is the classifier's, `owed` falls
with each result given in full, and `silent` counts the results a missing index left out
without a word. The provider is `ready`, `terminal`, its `monitor` and the queries that hold
its semaphore; `notify_all` moves every sleeper to where it tests its predicate again.
`CodeSearch` computes a search response from the outcome of the channels and of the
reranker; scores are exact fractions and a ranking is the function that the sort by
score and id leaves. Two assumptions of `MCQuery`, which TLC evaluates, check fusion
over all short channels: no candidate is lost or repeated, the order of the queries
does not matter, and a result that is reranked has a mode.

### Discovery
A file is a path with a content; it may link to another path or out of the repository,
be tracked, and be ignored by a rule of the root `.gitignore`, which the fallback matcher
knows, or by a nested one, which only Git knows. A directory of `Mounts` may be a link to
another directory, a submodule or an embedded repository: Git lists none of their files,
`rglob` does not enter the link, and `check-ignore` fails for a whole call in which one
path lies beyond a link or in a submodule, besides failing altogether. `Discovered` is
what `discover` returns, `Accepts` what `build_file_entry` returns for one path. Contents,
links, rules, the index (`Track`), the directories (`Replace`) and Git change; the
properties compare the two operators at each reachable tree. Content hashes, encodings
and the order of the list are left out.

## 3. The runs

| Run | Instance | Shows |
|---|---|---|
| `jobs_one_repo` | 1 repository, 1 path, 3 rows, 2 attempts, 2 daemons, 2 workers; 962,677 states | the safety of the queue: uniqueness, exclusion, leases, survival of deletions and running work, frozen manifests |
| `jobs_settle` | 2 repositories and stores, 2 rows, 3 daemons | the table implements `RepositoryWork`; every accepted row settles |
| `gate` | 4 threads | the gate: no lost wake-up, served reservation, refinement of `ReadWriteExclusion` |
| `daemon_bindings` | 1 root, 2 generations, 3 rows, 2 attempts, 2 faults, 1 late request, 2 daemons; 2,398,559 states | stale bindings: readiness never over a write, halves are explained, only its own deletion removes a store, deletions complete, no resurrection |
| `daemon_recovery` | 1 root, 2 generations, 3 rows, 1 attempt, 1 fault, 2 daemons; 162,130 states | recovery: the daemon keeps to the queue's protocol (`UsesTheQueue` is `Queue!Spec`); rows settle unless the runner has died; a start watches every root it finds |
| `pipeline_force` | 2 files, 2 edits, 2 requests of any mode, 1 fault, 1 death; 1,891,970 states | acknowledgement and force manifest |
| `pipeline_full` | 2 files, 3 edits with returns, 3 requests, client deletions, 1 fault, 2 deaths, an unparsable content; 3,686,084 states | a successful full pass is exact after any history of interrupted passes, save for doubted files |
| `lifecycle` | 2 daemons, 2 controllers (one starts, leases and stops, one starts and uninstalls), 1 fault; 417,208 states | who works owns the writer lock, who listens is the writer, stopped means stopped, a shutdown hits the generation it names, the idle timer spares clients, an idle daemon ends unless its timer cannot read the queue |
| `watcher` | 2 edits, restores and checkouts, commits at any time, 2 attempts, 2 faults (failures, cancellations, restarts, contents that come back); 362,623 states | no change after the first baseline is lost through torn fingerprints, coalesced reports and retries, except as `lost` records; downtime is recovered |
| `query` | 2 queries (a balanced one over 3 files, a fast one), 2 outages, recovery given up after 2 probes, bound 1 on every page; 237,819 states | `complete` is what the results given make it; every query returns; every outage ends |
| `discovery` | 8 paths, 5 directories (one vendored with one below, one skipped, one of artifacts, one that may be a link or a repository), 2 changes; 123,336 states | both implementations agree in small directories of the repository's own tree; only visible files become sources |
| `daemon_stale_binding` | as `daemon_bindings` | expects a violation: see section 5 |

Why these bounds are enough to be interesting. The queue's hazards need a working
row, a queued one beside it and a third request, or two recoveries of the same row:
three rows with two attempts and two incarnations hold all of these (the theorems
then remove the bounds for the invariants). The stale binding needs a row of the first
generation, the deletion of that generation, a late request that still carries it and
a re-index: three rows, two generations, one late request. A dead runner needs a
deletion that fails for good beside a watcher's row, three rows and one attempt, and
recovery a daemon after it: `daemon_recovery` has these, and start-ups have rows of their
own. Longer retries are in `daemon_bindings`. One root is enough in both, since roots share
nothing but the order of the queue, which `jobs_settle` covers with two. In the pipeline two files make one batch
complete and another not (`BatchFiles = 1`) and one refer to the other; a file
that goes back needs two edits; a frozen manifest must be met by an edit after it and by a
death between the two databases. Four threads let two writers wait beside a reader
and a reserving writer. A second daemon is the successor that races the end of the first, and
a second controller the one that races a stop; one fault puts a death, a failed start,
a lost worker or a passed deadline at any point. A torn fingerprint needs an edit and a
commit inside one poll and a version before them; a job that is given up, two failures. Two queries compete for one
permit of the semaphore and one of them waits while the other posts; an outage must be
able to come back once. In `discovery` two of a change of the content, a link, a rule, the
index, a directory and Git can meet on one path, and directories may exceed the
thresholds. Runs that end (rows, edits and deaths are bounded) switch the
deadlock check off; `gate` never ends and keeps it.

No symmetry sets are used: the liveness runs forbid it and the others do not need it.

**Fairness.** `IngestionJobs`: the runner's loop claims while it lives, and each run of a
job ends in one of its three calls (`run_once` has a `try` around all the rest);
a daemon that has stopped is started again by the next client (`daemon.py` spawns
it lazily). `IndexingDaemon`: weak fairness of the runner as a whole, of the watcher
calls as a whole, and of `Boot`, for the same reasons; none for requests, faults or
crashes, which are bounded, and nothing revives a runner that has died but the end of its
process, which nobody owes: `EveryJobSettles` excepts that state, which is reached.
`GraphGate`: a thread inside returns and a woken thread
gets the mutex. `DaemonLifecycle`: the event loop of a daemon runs its timer and its
teardown; no controller, client or job has to do anything. `Watcher`: polling and
debouncing go on in the event loop, a thread that enqueues ends, the runner goes on;
nobody has to edit, and stops, failures and cancellations are bounded. `Query`: the monitor's loop, the
start and the drain of the daemon, and each query in flight, whose stages, probes and
decisions all have deadlines; nobody has to ask, to shut down or to repair the service.
No strong fairness anywhere. `Pipeline` and `Discovery` have no liveness property; that
jobs settle is shown above the pipeline.

## 4. What is proved

All theorems hold for every value of the constants that the modules' `ASSUME`s allow.

* **IngestionJobsProofs.** `TypeCorrect`, `QueueIsUnique`, `StoreIsExclusive`,
  `DeletionExclusion`, `LeaseStability` (invariants), `FinishedRowsAreFinal`,
  `AcceptedDeletionsSurvive`, `WaitingWorkGrows` (`QueuedWorkOnlyGrows`, row by row;
  no run checks it beside the refinement), `RunningWorkSurvives`, `ManifestsSurvive`
  (action properties), `QueueImplementsWork`. The inductive invariant is `IInv`:
  the five invariants together and `Fresh` (ids from `nextId` on are unused). None is
  inductive alone. One worker per store and one queued row need deletion exclusion
  when recovery puts rows back; deletion exclusion needs uniqueness, or a merge could
  raise one of two queued rows; the leases need `Fresh`. The finality of rows rests
  on `HeldRowsStayLeased`, because `complete`, `mark_cancelled` and `fail_or_retry`
  overwrite without looking at the status. `ManifestsSurvive` speaks of the active force row,
working or waiting for its retry: nothing but a cancellation, a deletion and a new force
request merged into the waiting row drops its manifest (`_merge_payload`). The three properties about work and manifests
  go by effects: the lemma `Effects` lists the ten things any step can do to a row, and
  what a merge keeps is shown once for each. `ManifestsSurvive` also needs
  `FrozenIsForce`, only a force row has a manifest: a manifest under a lower mode would
  be lost when its row is merged. `QueueImplementsWork` is the refinement of
  `RepositoryWork`, step by step. One row holds the work (uniqueness and exclusion make
  the reading of the table a function), `MergeJoins` says that `_merge_payload` joins
  work, and `RowsAreWhole` is what recovery needs besides: every lease is the present
  daemon's or an older one's, so a new daemon finds all working rows stale, and
  whatever is active has an attempt left, so none of them ends there. TLC has checked
  `RowsAreWhole` and the refinement also on the instance of `jobs_one_repo`.
* **GraphGateProofs.** `GateIsExclusive`, `WakeupsAreNotLost`, and
  `GateImplementsExclusion`: the gate refines `ReadWriteExclusion` for any finite set
  of threads. The inductive invariant `GateInv` adds to the flags' meaning that a
  running mutation has drained the readers.
* **PipelineProofs.** `TypeCorrect`, `CheckpointsAreTrue` (invariants),
  `AcknowledgementsAreDurable`, `ForceKeepsToItsSnapshot`, `ForceIsComplete` (action
  properties), for any files, relationships, batch size, edits, failures and deaths.
  `IInv` of `Pipeline` adds to the type invariant what the position of a pass says
  about the graph (`StructureStored`, `PlanStored`), that a pass narrows
  (`PassShape`), and that a force job in progress has before it exactly what its
  manifest still wants (`ForceShape`). The last is what keeps a retry from deleting
  an acknowledged target again: `CheckpointIsTrue` alone is not kept by
  `DeleteReplaced`. The types need the plan: relationships may be stored only
  because each end is a file that was parsed or had nodes when it was planned.
  About full passes there are six more. `FullPassesKeepTheirShape` is `FullShape`, what the
  position of a full pass says of each file: to be swept, unchanged under its record,
  still to be acknowledged, or exact. `FullPassesDoTheirPart` follows: at a successful end
  a file is exact or was skipped because its record named its content. Whether the record
  then tells the truth is `RecordsCanBeTrusted`: it does for every file that is not
  `doubted`, whatever the modes, edits and deaths. The invariant says why: sweeping and
  replacing touch a file that is not doubted only while its record names something else
  than the sources hold. `FullPassesAreExact` joins the two to `FullPassIsExact`. Section 5
  has the counterexample for a doubted file (`ReadyHashesAreTrue`). `TargetsAreKept` and `UninterruptedPassesKeepEdges` (a
  relationship between acknowledged files is stored whenever the store is ready) suppose
  that targets of relationships stay in the sources and speak of runs in which no pass
  is cut off: a relationship taken away with its target is in the plan of the pass
  that took it. TLC has checked `IInv` and `RecordsAreTrusted` on the
  instances of both runs, the rest on that of `pipeline_full`.
* **IndexingDaemonProofs.** `DaemonKeepsToTheQueue` (every behaviour of the daemon is,
  seen at the queue, a behaviour of `IngestionJobs`), `DaemonImplementsWork` (and
  so one of `RepositoryWork`), `ReadinessIsWithdrawn`,
  `HalvesCanBeDeleted` (invariants), `DeletionsTakeTheirOwn`, `DeletedStaysDeleted`,
  `DeletionsLeaveNothing` (action properties), for any roots, rows, generations,
  failures, late requests and deaths. The inductive invariant is `DaemonInv`:
  the queue's own `IInv`, kept because the module first shows that a step is one of the
  queue; `RunnerOwns` and `RunnerWaits`, the runner holds just the row it works on and
  waits for just one watcher; `DropsAreNotCancelled` and `AbsentIsUnbound`;
  `DeletionProgress`, what each durable effect of a deletion leaves for the next;
  `TombstonesAreDeletions`, without which a retried deletion that meets its own
  tombstone could skip a store; `Withdrawn`, which extends `NotReadyWhileWriting` to the
  steps before the first write; `HalvesOfOthers`, which adds that a pending deletion the
  catalog has left behind is no explanation, since it will complete as superseded. The
  argument goes by effects: `RowsStep` says what any step does to a row, `StoreStep` and
  `TombstoneStep` what it does to a root, and the parts of the invariant are kept by
  these alone. The facts about the queue come from `IngestionJobsProofs`, instantiated
  with one worker and a store per root. TLC has checked every part on the instances of
  `daemon_bindings` and `daemon_recovery`.
* **DaemonLifecycleProofs.** `WorkersOwnTheLock`, `TheServerWrites` (invariants),
  `StoppedForGood`, `ShutdownIsAddressed`, `LeasesKeepTheDaemon` (action properties),
  for any numbers of daemons, controllers and faults. `LifeInv` adds to the two
  invariants that a bridge is connected to a daemon that answers, leases are held over
  connections, an armed timer means that nobody is attached, and what a controller may
  conclude about the generation it asked to stop. The last carries `StopMeansStopped`
  through the controller's wait: the answer is given many steps after the look.
* **WatcherProofs.** `WatchInvariant` and `NothingIsForgotten` (`QuietMeansIndexed`), for any
  edits, returns of old contents, failures, cancellations, restarts and number of attempts.
  The invariant says that a baseline showing the present version was reported when it was
  taken (`BaselineWasReported`), and that until a discovery after it the report is in the
  hands of the timer, a thread, the queue or the runner, or `lost`. Torn fingerprints are
  covered by `NothingFromTheFuture`: what was read in three instants testifies at most to
  the last.
* **DiscoveryProofs.** For any tree, rules, links, mounts and answers of Git:
  `OnlyVisibleSources`, by following names to the files they lead to; and
  `OneEligibilityPolicy`: in the repository's own tree and in directories below both
  thresholds, `discover` and `build_file_entry` judge a file alike. The sums of sizes that
  the two take over different sets of files are compared by a minimal counterexample among
  finite sets.
* **QueryProofs.** `FusionLosesNothing` is about `CodeSearch` alone: for any queries,
  channels and outages, the fused ranking has every node that a channel names once and no
  other, in a strict order, each with just the queries that found it. A sorted function
  on a finite set exists by a minimal counterexample, and places are counted.
  `QueryTypes`, `AnswersAreHonest` (`CompletenessIsTruthful`) and `NoSleeperIsForgotten`
  are invariants of `Query` for any queries, limits and outages. `IInv` joins to the types
  that permits are held by finitely many queries; `InOrder`, from its routing on a
  handler owes at least what its remaining stages are due, and has raised no flag exactly
  when it has followed its playbook and owes no more than that and the silent results; and
  `MonitorServesSleepers`, which ties each sleeping query to a monitor that has still to
  notify. Each route has a lemma about the flags and the results of its own answer; a stage joins
  its answer to those before it.

Every module's `ASSUME` names what its constants must satisfy; nothing else is assumed.

Every safety property of the passing runs is thereby stated by a theorem. Only
model-checked is liveness (`EveryJobSettles`, `StartupRewatches`,
`ReservationIsServed`, `IdleDaemonStops`, `ChangesAreIndexed`, `DowntimeIsRecovered`,
`EveryQueryReturns`, `OutagesEnd`), since fairness and ENABLED are outside what the proof
system handles, and the counterexample `DeletionTargetsTheCatalog`. Induction principles
that take a predicate are out of its reach too; where a proof needs one, over finite
sets, it takes a minimal counterexample by the well-foundedness of strict inclusion.
No module declares a RECURSIVE operator.

## 5. Where code and documents disagree

Shown by a run: `daemon_stale_binding`. A merge keeps the queued row's generation
(`indexing/jobs.py:387`), and `ingest_files` and the watchers enqueue under a binding read
earlier; a row of a deleted generation absorbs the next deletion, which then ends as
superseded and leaves the repository in place.

More are stated as definitions of the modules that do not hold. To see a
counterexample, check the definition on the instance given (the remaining constants as
in the run named):

| Definition | Instance | Disagreement |
|---|---|---|
| `ForceRequestRediscovers` (property of `IngestionJobs`) | `jobs_one_repo` with `MaxJobs = 2`, `Workers = 1` | a queued force request that never ran inherits the manifest of an older attempt (`indexing/jobs.py:673`), though the comment at line 205 says that it must rediscover its own |
| `RunnerSurvives` (invariant of `IndexingDaemon`) | `daemon_bindings` with `MaxAttempts = 1`, `MaxBoots = 1`, `MaxGenerations = 1`, `MaxLate = 0` | `on_failed` may raise out of `run_once` (`indexing/runner.py:129`), which ends the only runner of the daemon, against `specs/2026-09-09-delete-ingested-repository.md:118` |
| `ReadyHashesAreTrue` (invariant of `Pipeline`) | `pipeline_force` with `Modes <- FullOnly`, `Deletable <- NoFiles`, `MaxFaults = 0`, `MaxCrashes = 0` | an interrupted pass leaves new nodes under the old hash; when the file returns to the old content the next pass skips it and publishes readiness over a graph of the other content (`indexing/pipeline.py:370`, against `specs/2026-08-27-resumable-batch-ingestion.md:60`) |
| `EdgesSurvive` (invariant of `Pipeline`) | `pipeline_full` with `Steady <- TwoFiles`, `Modes <- FullOnly`, `MaxEdits = 1`, `MaxRequests = 2`, `MaxFaults = 0`, `MaxCrashes = 1` | a death between `delete_nodes` and `batch_upsert_edges` loses the relationships of unchanged files into the replaced one (`indexing/pipeline.py:405`, against the comment at line 687) |
| `SupersededRootsAreWatched` (property of `IndexingDaemon`) | `daemon_bindings` | `drop_index` pops the watcher when it accepts a deletion (`main.py:556`); when the deletion ends as superseded the live root stays unwatched until a restart or a new index request, against `specs/2026-08-31-git-aware-automatic-reindexing.md:39` |
| `WatchersFollowTheCatalog` (invariant of `IndexingDaemon`) | `daemon_bindings` | a watcher put in the table after the deletion of its generation was accepted is kept by the re-index, which finds the root in `_watchers` (`main.py:834`), and reports under a dead generation, against the same line |
| `UnleasedDaemonExits` (property of `DaemonLifecycle`) | `lifecycle` | when `has_active` raises, `_shutdown_after` ends with nobody to arm another timer (`main.py:416`): an idle daemon stays, against `specs/2026-09-04-lazy-mcp-daemon-and-github-release.md:55` |
| `Converges` (invariant of `Watcher`) | `watcher` | a content restored between the runner's discovery and the next poll, and a change whose job fails for good or is cancelled (`indexing/jobs.py:642`), leave the index behind until another change, against `specs/2026-08-31-git-aware-automatic-reindexing.md:9` |
| `UnavailableIndexIsReported` (invariant of `Query`) | `query` | of the routes only the search reports that a repository is not indexed (`services/routes.py:602`, 748): an answer without a search says `complete`, against `specs/2026-09-22-unified-query-orchestration.md:267` |
| `SnapshotIsReconstructible` (invariant of `Discovery`) | `discovery` | full discovery counts the Git-visible files below a vendored directory, the one-file check the direct entries, ignored ones too (`indexing/pipeline.py:239`): a force job may freeze a file that it then rejects on each attempt as "no longer ingestable" (line 490, against contract 8 of `specs/2026-08-31-text-fallback-ingestion.md:33`) |
| `MountsAgree` (invariant of `Discovery`) | `discovery` | `git ls-files` and `rglob` do not find what lies beyond a directory link or in a submodule (`indexing/discovery.py:234`, 544), while the one-file check keeps it, as `tests/unit/test_indexing_discovery.py:369` asserts for the link, against the same contract |
| `NestedRulesHide` (invariant of `Discovery`) | `discovery` | one path beyond a link makes `check-ignore` exit 128, and every path of that call is judged by the root `.gitignore` alone (`indexing/discovery.py:198`): a file hidden by a nested rule is let in although Git works |

Met on the way and visible in the models:

* Queue and daemon. A row in `cancelling` that fails is retried
  (`indexing/jobs.py:657`, against `specs/2026-09-08-upgrade-safe-daemon-shutdown.md:99`).
  After a deletion failed for good the watcher is restored for a record whose store may
  be gone (`main.py:821`, against
  `decisions/2026-09-09-expose-durable-repository-deletion.md:118`). Two calls of
  `_ensure_watcher` may also leave two watchers polling one root, one of them out of the
  table and never stopped (`main.py:834`, against
  `specs/2026-08-31-git-aware-automatic-reindexing.md:39`). After a degraded pass has
  exhausted its attempts a later `files` job publishes readiness over nodes without
  vectors (`main.py:256`, against the comment at `indexing/runner.py:212`).
* Life cycle. The identity record is removed after the lock is released
  (`identity.py:75`, `main.py:373`), so the record of a successor can be deleted. The
  probe of the writer lock holds it for an instant, in which a starting daemon gives
  up. `ensure_started` may return a daemon that is stopping. A contender whose
  controller gave up at its deadline can start after an uninstallation.
* Watcher. Changes between the start-up discovery and the first baseline are not
  reported, nor is a change whose enqueue raises. A cancelled watcher's enqueue thread may
  still write its row.
* Query. `related` is cut
  at 20 without a word; tests are looked for only among the dependents that were
  selected; of several `node_ids` only the first is used. A classification that timed
  out has released its permit while its HTTP thread still runs.
* Discovery. When `check-ignore` times out and `ls-files` answers, files that nested
  rules ignore are let in. This is why `SourcesAreVisible` speaks of nested rules only
  where Git answered for the names in question. A tracked file that a rule matches is
  listed and kept.

Limits of the positive results that follow from the same causes: `FullPassIsExact`
excepts doubted files. (A file that went back to an earlier content, one deleted for a
client and recreated, or a force job cut off between deletion and insertion and then given
up, can leave a true hash without its nodes, which a full pass does not look at.) A path in both lists of a merged `files`
job is ingested and then deleted. `CompletenessIsTruthful` does not count what no
route can tell: a rank below a search's limit, a 21st symbol, an anchor that names nothing;
and what a missing index was silent about is `UnavailableIndexIsReported`.

## 6. What is not modelled, and the plan

Not modelled by choice: language parsers (stateless rules over text), embedding and
reranking providers (seen as success or failure), framing and validation of SCSWire,
the MCP translation, configuration, git history, evaluation harnesses, statistics and
listings. `EventBroker` has no subscriber in the daemon, so its bounded queues are
never filled.

Not modelled yet: the cache of open handles. `ProjectStoreRegistry._open`
(`storage/registry.py:228`) tests and fills it from several threads, so two handles of one
store, each with its own gate, can exist at once; `GraphGate` speaks of one handle.

The plan. Done: the queue with its proofs; the gate with its proofs; the daemon
around the queue with its proofs; the pipeline with its proofs; the watcher, the life
cycle of the process, queries with their provider and the drain, fusion, and discovery,
with their proofs. Left, most important first:

1. `ProjectStores`: the cache of open handles and their gates from several threads,
   during creation and deletion; property: one live handle per store.
2. `cleanup_stale_files` and the planner's second limit in `Pipeline`, should a request of
   the daemon come to create cleanup jobs.
3. `Metrics`: the bounded table and its pruning.
