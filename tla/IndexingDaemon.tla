--------------------------- MODULE IndexingDaemon ---------------------------
(***************************************************************************)
(* The daemon around the durable queue: the runner of indexing/runner.py   *)
(* with the callbacks main.py gives it, the project-store catalog and      *)
(* registry of storage/, the enrollment and deletion routes, and the       *)
(* watchers, as far as they bind requests to store generations.            *)
(*                                                                         *)
(* Every use of the queue is an action of IngestionJobs.  A step is what   *)
(* happens between two awaits of the event loop, or one durable effect of  *)
(* a worker thread.  _enqueue and drop_index hold the per-root lock from   *)
(* the look at the active deletion to the enqueue, so both are one action; *)
(* a route that only fails its checks changes nothing and is no action.    *)
(***************************************************************************)
EXTENDS Integers, FiniteSets

CONSTANTS
  Repos, Paths, MaxAttempts, MaxJobs, MaxBoots,  \* as in IngestionJobs
  MaxGenerations,  \* bound: store generations ever created
  MaxFaults,       \* bound: I/O and provider failures
  MaxLate          \* bound: requests between their binding and their enqueue

ASSUME DaemonBoundsAssumption ==
  /\ Repos # {}
  /\ MaxAttempts \in Nat \ {0}
  /\ MaxJobs \in Nat /\ MaxBoots \in Nat
  /\ MaxGenerations \in Nat /\ MaxFaults \in Nat /\ MaxLate \in Nat

VARIABLES
  jobs, nextId, boot, alive, held,  \* the queue
  catalog,         \* catalog.db: per root the state and the active generation
  store,           \* per root, the generations under its store directory
  tombstones,      \* per root, the deletion jobs whose tombstone exists
  nextGeneration,  \* the next unused generation
  runner,          \* position and locals of IngestionJobRunner.run_once
  watcher,         \* self._watchers: per root the bound generation, 0 if none
  orphans,         \* per root, generations of watchers dropped from the table
  enrolling,       \* calls of _ensure_watcher in progress
  late,            \* requests that have their binding and not yet their row
  booting,         \* roots that start() has still to look at for a watcher
  faults           \* failures so far

queueVars == <<jobs, nextId, boot, alive, held>>
storeVars == <<catalog, store, tombstones, nextGeneration>>
watchVars == <<watcher, orphans, enrolling, late, booting>>
vars == <<queueVars, storeVars, watchVars, runner, faults>>

Generations == 0 .. MaxGenerations  \* 0: no generation (NULL)

\* The store of a root is a hash of the root; the runner is the only worker.
Queue == INSTANCE IngestionJobs WITH
  Stores <- Repos, StoreOf <- [r \in Repos |-> r], Workers <- 1

StoreStates == {"absent", "uninitialized", "semantic_stale", "semantic_ready"}
Absent == [state |-> "absent", generation |-> 0]
Registered(r) == catalog[r].state # "absent"
Bound(r) == catalog[r].generation # 0
LiveStore(r) == Bound(r) /\ catalog[r].generation \in store[r]

DeletionPending(r) == Queue!DeletionFor(r) # {}

Serving == alive /\ booting = {}

\* self._repository_mutation_lock: held by _enqueue until its watcher is in.
Unlocked(r) == ~\E e \in enrolling : e.repo = r /\ e.by = "route"

Positions == {"idle", "claimed", "started", "opened", "writing", "executed",
              "publishing", "published", "retiring", "renaming",
              "unregistering", "removing", "cancelled", "raised", "restoring",
              "rewatching", "dead"}

AtRest == [pc |-> "idle", job |-> 0, matches |-> FALSE, superseded |-> FALSE]

Job == jobs[runner.job]
Repo == Job.repo
At(pc) == alive /\ runner.pc = pc
Goto(pc) == runner' = [runner EXCEPT !.pc = pc]

\* update_state touches a record only while the job's generation is active.
Matches == Registered(Repo) /\ catalog[Repo].generation = Job.generation

Fault == faults < MaxFaults /\ faults' = faults + 1

Enqueue(r, g, mode, paths) ==
  Queue!EnqueueMerge(r, mode, paths) \/ Queue!EnqueueInsert(r, g, mode, paths)

\* Bound: requests leave one row per root to each start-up still to come, so
\* that no restart is kept from reconciling by the bound on rows.
SpareRows == MaxJobs - Cardinality(Repos) * (MaxBoots - boot)

EnqueueRequest(r, g, mode, paths) ==
  /\ Enqueue(r, g, mode, paths)
  /\ nextId' # nextId => nextId <= SpareRows

(***************************************************************************)
(* The routes repository.index, repository.reindex and drop_index.         *)
(***************************************************************************)
\* ensure_graph on a root without generation creates one; on a root with a
\* generation it opens the store, which raises when its directory is gone.
EnsureGraph(r, g) ==
  \/ /\ LiveStore(r)
     /\ g = catalog[r].generation
     /\ UNCHANGED storeVars
  \/ /\ ~Bound(r)
     /\ g = nextGeneration
     /\ g \in Generations
     /\ nextGeneration' = g + 1
     /\ store' = [store EXCEPT ![r] = @ \cup {g}]
     /\ catalog' = [catalog EXCEPT ![r] =
                      [state |-> "semantic_stale", generation |-> g]]
     /\ UNCHANGED tombstones

\* Variant: the enrollment relies on the queue alone to reject it.
IndexUnchecked(r, mode) ==
  /\ Serving
  /\ Unlocked(r)
  /\ \E g \in Generations :
       /\ EnsureGraph(r, g)
       /\ IF DeletionPending(r)
          THEN UNCHANGED <<queueVars, enrolling>>
          ELSE /\ EnqueueRequest(r, g, mode, {})
               /\ UNCHANGED enrolling
  /\ UNCHANGED <<watcher, orphans, late, booting, runner, faults>>

\* ensure_graph and enqueue are two awaits, but both under the root's lock,
\* which every deletion request takes.  In between only ingest_files or a
\* watcher may enqueue for the root, as they may just before.  _ensure_watcher
\* begins a watcher for a root without one, or it returns: auto_reindex_enabled
\* is off, or the root is no directory any more.
Index(r, mode) ==
  /\ Serving
  /\ Unlocked(r)
  /\ ~DeletionPending(r)
  /\ \E g \in Generations :
       /\ EnsureGraph(r, g)
       /\ EnqueueRequest(r, g, mode, {})
       /\ \/ UNCHANGED enrolling
          \/ /\ watcher[r] = 0
             /\ enrolling' = enrolling \cup
                  {[repo |-> r, generation |-> g, by |-> "route", stage |-> "bound"]}
  /\ UNCHANGED <<watcher, orphans, late, booting, runner, faults>>

\* ensure_graph fails after registering, or after creating the store, and
\* before it activates the generation.
EnsureGraphFails(r) ==
  /\ Serving
  /\ Unlocked(r)
  /\ ~DeletionPending(r)
  /\ ~Bound(r)
  /\ catalog' = [catalog EXCEPT ![r] = [@ EXCEPT !.state = "uninitialized"]]
  /\ \/ UNCHANGED <<store, nextGeneration>>
     \/ /\ nextGeneration \in Generations
        /\ nextGeneration' = nextGeneration + 1
        /\ store' = [store EXCEPT ![r] = @ \cup {nextGeneration}]
  /\ Fault
  /\ UNCHANGED <<queueVars, tombstones, watchVars, runner>>

DropIndex(r) ==
  /\ Serving
  /\ Unlocked(r)
  /\ ~DeletionPending(r)
  /\ Registered(r) \/ store[r] # {} \/ tombstones[r] # {}
  /\ EnqueueRequest(r, catalog[r].generation, "drop_index", {})
  /\ watcher' = [watcher EXCEPT ![r] = 0]
  /\ UNCHANGED <<storeVars, orphans, enrolling, late, booting, runner, faults>>

\* system.shutdown with cancel_active.
CancelAll ==
  /\ Serving
  /\ Queue!RequestCancelAll
  /\ UNCHANGED <<storeVars, watchVars, runner, faults>>

(***************************************************************************)
(* Requests whose binding is read in one step and enqueued in a later one: *)
(* repository.ingest_files, and the changes a watcher reports under the    *)
(* binding it was created with.  An active deletion rejects the enqueue.   *)
(***************************************************************************)
Late(r, g, mode, paths) ==
  /\ Cardinality(late) < MaxLate
  /\ late' = late \cup {[repo |-> r, generation |-> g, mode |-> mode, paths |-> paths]}
  /\ UNCHANGED <<queueVars, storeVars, watcher, orphans, enrolling, booting,
                 runner, faults>>

IngestFiles(r, paths) ==
  /\ Serving
  /\ Bound(r)
  /\ ~DeletionPending(r)
  /\ Late(r, catalog[r].generation, "files", paths)

WatcherFires(r) ==
  /\ alive
  /\ \E g \in (orphans[r] \cup {watcher[r]}) \ {0} : Late(r, g, "full", {})

EnqueueLate(request) ==
  /\ late' = late \ {request}
  /\ IF DeletionPending(request.repo) THEN UNCHANGED queueVars
     ELSE EnqueueRequest(request.repo, request.generation, request.mode,
                         request.paths)
  /\ UNCHANGED <<storeVars, watcher, orphans, enrolling, booting, runner, faults>>

(***************************************************************************)
(* _ensure_watcher: it looks at the table and the catalog, the new watcher *)
(* enqueues its reconciliation and takes its baseline, then it is put in   *)
(* the table.  Between these three anything may happen to the root, except *)
(* what the lock of a route keeps out.                                     *)
(***************************************************************************)
Advance(call, stage) == (enrolling \ {call}) \cup {[call EXCEPT !.stage = stage]}

\* Variant: a root that has work in the queue is left to that work.
RestoreIdleOnStartup(r) ==
  /\ alive
  /\ r \in booting
  /\ ~\E e \in enrolling : e.by = "startup"
  /\ IF \/ watcher[r] # 0 \/ ~Bound(r)
        \/ \E j \in Queue!Jobs : Queue!Active(j) /\ jobs[j].repo = r
     THEN booting' = booting \ {r} /\ UNCHANGED enrolling
     ELSE /\ enrolling' = enrolling \cup
               {[repo |-> r, generation |-> catalog[r].generation,
                 by |-> "startup", stage |-> "bound"]}
          /\ UNCHANGED booting
  /\ UNCHANGED <<queueVars, storeVars, watcher, orphans, late, runner, faults>>

\* start(), after the runner is up and before the socket is.
RestoreOnStartup(r) ==
  /\ alive
  /\ r \in booting
  /\ ~\E e \in enrolling : e.by = "startup"
  /\ IF DeletionPending(r) \/ watcher[r] # 0 \/ ~Bound(r)
     THEN booting' = booting \ {r} /\ UNCHANGED enrolling
     ELSE /\ enrolling' = enrolling \cup
               {[repo |-> r, generation |-> catalog[r].generation,
                 by |-> "startup", stage |-> "bound"]}
          /\ UNCHANGED booting
  /\ UNCHANGED <<queueVars, storeVars, watcher, orphans, late, runner, faults>>

\* restore_failed_deletion, with the same two ways of _ensure_watcher.
RestoreAfterFailure ==
  /\ At("restoring")
  /\ \/ runner' = AtRest /\ UNCHANGED enrolling
     \/ /\ Bound(Repo)
        /\ Goto("rewatching")
        /\ watcher[Repo] = 0
        /\ enrolling' = enrolling \cup
             {[repo |-> Repo, generation |-> catalog[Repo].generation,
               by |-> "runner", stage |-> "bound"]}
  /\ UNCHANGED <<queueVars, storeVars, watcher, orphans, late, booting, faults>>

Reconcile(call) ==
  /\ call.stage = "bound"
  /\ ~DeletionPending(call.repo)
  /\ IF call.by = "startup"
     THEN Enqueue(call.repo, call.generation, "full", {})
     ELSE EnqueueRequest(call.repo, call.generation, "full", {})
  /\ enrolling' = Advance(call, "observing")
  /\ UNCHANGED <<storeVars, watcher, orphans, late, booting, runner, faults>>

\* enqueue raises ValueError.  Nothing between on_failed and the task of the
\* runner's loop catches it.
ReconcileRejected(call) ==
  /\ call.stage = "bound"
  /\ call.by = "runner"
  /\ DeletionPending(call.repo)
  /\ enrolling' = enrolling \ {call}
  /\ Goto("dead")
  /\ UNCHANGED <<queueVars, storeVars, watcher, orphans, late, booting, faults>>

InsertWatcher(call) ==
  /\ call.stage = "observing"
  /\ enrolling' = enrolling \ {call}
  /\ orphans' = [orphans EXCEPT ![call.repo] = @ \cup ({watcher[call.repo]} \ {0})]
  /\ watcher' = [watcher EXCEPT ![call.repo] = call.generation]
  /\ runner' = IF call.by = "runner" THEN AtRest ELSE runner
  /\ booting' = IF call.by = "startup" THEN booting \ {call.repo} ELSE booting
  /\ UNCHANGED <<queueVars, storeVars, late, faults>>

(***************************************************************************)
(* IngestionJobRunner.run_once on an indexing job.                         *)
(***************************************************************************)
runnerOnly == <<queueVars, storeVars, watchVars, faults>>

Claim ==
  /\ At("idle")
  /\ \E j \in Queue!Jobs :
       /\ Queue!ClaimNext(j)
       /\ runner' = [AtRest EXCEPT !.pc = "claimed", !.job = j]
  /\ UNCHANGED <<storeVars, watchVars, faults>>

\* Variant: readiness is withdrawn before full passes only.
MarkStaleForFullPasses ==
  /\ At("claimed")
  /\ Job.mode # "drop_index"
  /\ Goto(IF Matches THEN "started" ELSE "raised")
  /\ catalog' = IF Matches /\ Job.mode # "files"
                THEN [catalog EXCEPT ![Repo].state = "semantic_stale"]
                ELSE catalog
  /\ UNCHANGED <<queueVars, store, tombstones, nextGeneration, watchVars, faults>>

\* on_started: readiness is withdrawn before the job writes to its graph.
MarkStale ==
  /\ At("claimed")
  /\ Job.mode # "drop_index"
  /\ Goto(IF Matches THEN "started" ELSE "raised")
  /\ catalog' = IF Matches
                THEN [catalog EXCEPT ![Repo].state = "semantic_stale"]
                ELSE catalog
  /\ UNCHANGED <<queueVars, store, tombstones, nextGeneration, watchVars, faults>>

\* Variant: any interruption counts as a cancellation.
Interrupted ==
  /\ At("started") \/ At("opened") \/ At("writing")
  /\ Goto("cancelled")
  /\ UNCHANGED runnerOnly

\* cancellation_requested before and after the graph is opened, and between
\* the pipeline's durable steps.
Cancelling ==
  /\ At("started") \/ At("opened") \/ At("writing")
  /\ Job.status = "cancelling"
  /\ Goto("cancelled")
  /\ UNCHANGED runnerOnly

\* pipeline_factory: graph_for_binding.
OpenGraph ==
  /\ At("started")
  /\ Goto(IF Matches /\ LiveStore(Repo) THEN "opened" ELSE "raised")
  /\ UNCHANGED runnerOnly

StartWriting ==
  /\ At("opened")
  /\ Job.status = "running"
  /\ Goto("writing")
  /\ UNCHANGED runnerOnly

FreezeManifest ==
  /\ At("writing")
  /\ Job.mode = "force_full"
  /\ Queue!InstallForceFullSnapshot(runner.job, Paths)
  /\ UNCHANGED <<storeVars, watchVars, runner, faults>>

AcknowledgeBatch(path) ==
  /\ At("writing")
  /\ Job.mode = "force_full"
  /\ path \in Job.payload.targets \ Job.payload.acked
  /\ Queue!AcknowledgeForceFullSnapshotFiles(runner.job, {path})
  /\ UNCHANGED <<storeVars, watchVars, runner, faults>>

IngestEnds ==
  /\ At("writing")
  /\ Job.mode = "force_full" => Job.payload.frozen
  /\ Goto("executed")
  /\ UNCHANGED runnerOnly

\* A parse, embedding or I/O failure, or a degraded result.
IngestRaises ==
  /\ At("writing")
  /\ Fault
  /\ Goto("raised")
  /\ UNCHANGED <<queueVars, storeVars, watchVars>>

\* Back in the loop with the result, the status is read once more.
ReadStatus ==
  /\ At("executed")
  /\ Goto(IF Job.status = "cancelling" THEN "cancelled" ELSE "publishing")
  /\ UNCHANGED runnerOnly

\* on_completed.
Publish ==
  /\ At("publishing")
  /\ Goto(IF Job.mode = "drop_index" \/ Matches THEN "published" ELSE "raised")
  /\ catalog' = IF Job.mode # "drop_index" /\ Matches
                THEN [catalog EXCEPT ![Repo].state = "semantic_ready"]
                ELSE catalog
  /\ UNCHANGED <<queueVars, store, tombstones, nextGeneration, watchVars, faults>>

CompleteJob ==
  /\ At("published")
  /\ Queue!Complete(runner.job)
  /\ runner' = AtRest
  /\ UNCHANGED <<storeVars, watchVars, faults>>

\* mark_cancelled itself does not look at the status.
CancelJob ==
  /\ At("cancelled")
  /\ jobs' = [jobs EXCEPT ![runner.job] = Queue!Settled(@, "cancelled")]
  /\ held' = held \ {runner.job}
  /\ runner' = AtRest
  /\ UNCHANGED <<nextId, boot, alive, storeVars, watchVars, faults>>

\* fail_or_retry, and on_failed for a deletion that has failed for good.
FailJob ==
  /\ At("raised")
  /\ Queue!FailOrRetry(runner.job)
  /\ runner' = IF jobs'[runner.job].status = "failed" /\ Job.mode = "drop_index"
               THEN [runner EXCEPT !.pc = "restoring"]
               ELSE AtRest
  /\ UNCHANGED <<storeVars, watchVars, faults>>

(***************************************************************************)
(* ProjectStoreRegistry.delete_repository, one durable effect at a time.   *)
(***************************************************************************)
\* Variant: the catalog's binding is not compared with the job's.
BeginDeletionUnchecked ==
  /\ At("claimed")
  /\ Job.mode = "drop_index"
  /\ runner' = [runner EXCEPT !.matches = Matches, !.pc =
       IF runner.job \in tombstones[Repo] \/ store[Repo] = {} THEN "unregistering"
       ELSE "retiring"]
  /\ UNCHANGED runnerOnly

\* Variant: a tombstone counts as the end of the deletion.
BeginDeletionTrustingTombstone ==
  /\ At("claimed")
  /\ Job.mode = "drop_index"
  /\ runner' = [runner EXCEPT
       !.matches = Matches,
       !.superseded = Registered(Repo) /\ ~Matches,
       !.pc = IF \/ Registered(Repo) /\ ~Matches
                 \/ runner.job \in tombstones[Repo]
              THEN "removing"
              ELSE IF store[Repo] = {} THEN "unregistering"
              ELSE "retiring"]
  /\ UNCHANGED runnerOnly

BeginDeletion ==
  /\ At("claimed")
  /\ Job.mode = "drop_index"
  /\ runner' = [runner EXCEPT
       !.matches = Matches,
       !.superseded = Registered(Repo) /\ ~Matches,
       !.pc = IF Registered(Repo) /\ ~Matches THEN "removing"
              ELSE IF runner.job \in tombstones[Repo] \/ store[Repo] = {}
              THEN "unregistering"
              ELSE "retiring"]
  /\ UNCHANGED runnerOnly

\* graph_for_binding and delete_repo_sync, if there is a bound graph.
DeleteGraph ==
  /\ At("retiring")
  /\ Goto(IF runner.matches /\ Job.generation # 0 /\ ~LiveStore(Repo)
          THEN "raised" ELSE "renaming")
  /\ UNCHANGED runnerOnly

RetireStore ==
  /\ At("renaming")
  /\ store' = [store EXCEPT ![Repo] = {}]
  /\ tombstones' = [tombstones EXCEPT ![Repo] = @ \cup {runner.job}]
  /\ Goto("unregistering")
  /\ UNCHANGED <<queueVars, catalog, nextGeneration, watchVars, faults>>

\* The conditional DELETE, skipped when the record did not match at the start.
Unregister ==
  /\ At("unregistering")
  /\ catalog' = IF runner.matches /\ Matches
                THEN [catalog EXCEPT ![Repo] = Absent] ELSE catalog
  /\ Goto("removing")
  /\ UNCHANGED <<queueVars, store, tombstones, nextGeneration, watchVars, faults>>

\* _remove_retired_stores removes every tombstone of the store.
RemoveTombstones ==
  /\ At("removing")
  /\ tombstones' = [tombstones EXCEPT ![Repo] = {}]
  /\ Goto("executed")
  /\ UNCHANGED <<queueVars, catalog, store, nextGeneration, watchVars, faults>>

DeletionRaises ==
  /\ \E pc \in {"retiring", "renaming", "unregistering", "removing"} : At(pc)
  /\ Fault
  /\ Goto("raised")
  /\ UNCHANGED <<queueVars, storeVars, watchVars>>

(***************************************************************************)
(* A new daemon incarnation, and the death of one.                         *)
(***************************************************************************)
\* The roots to restore are the stored ones that are directories, if
\* auto_reindex_enabled is on.
Boot ==
  /\ Queue!StartRunner
  /\ booting' \in SUBSET {r \in Repos : Bound(r)}
  /\ runner' = AtRest
  /\ UNCHANGED <<storeVars, watcher, orphans, enrolling, late, faults>>

Crash ==
  /\ Queue!Crash
  /\ runner' = AtRest
  /\ watcher' = [r \in Repos |-> 0]
  /\ orphans' = [r \in Repos |-> {}]
  /\ enrolling' = {}
  /\ late' = {}
  /\ booting' = {}
  /\ UNCHANGED <<storeVars, faults>>

-----------------------------------------------------------------------------
Init ==
  /\ Queue!Init
  /\ catalog = [r \in Repos |-> Absent]
  /\ store = [r \in Repos |-> {}]
  /\ tombstones = [r \in Repos |-> {}]
  /\ nextGeneration = 1
  /\ runner = AtRest
  /\ watcher = [r \in Repos |-> 0]
  /\ orphans = [r \in Repos |-> {}]
  /\ enrolling = {}
  /\ late = {}
  /\ booting = {}
  /\ faults = 0

RunOnce ==
  \/ Claim \/ MarkStale \/ Cancelling \/ OpenGraph \/ StartWriting
  \/ FreezeManifest \/ \E path \in Paths : AcknowledgeBatch(path)
  \/ IngestEnds \/ IngestRaises \/ ReadStatus \/ Publish
  \/ CompleteJob \/ CancelJob \/ FailJob
  \/ BeginDeletion \/ DeleteGraph \/ RetireStore \/ Unregister
  \/ RemoveTombstones \/ DeletionRaises \/ RestoreAfterFailure

Watching ==
  \/ \E r \in Repos : RestoreOnStartup(r)
  \/ \E call \in enrolling :
       Reconcile(call) \/ ReconcileRejected(call) \/ InsertWatcher(call)

Requests ==
  \/ \E r \in Repos :
       \/ \E mode \in {"full", "force_full"} : Index(r, mode)
       \/ EnsureGraphFails(r)
       \/ DropIndex(r)
       \/ \E paths \in SUBSET Paths \ {{}} : IngestFiles(r, paths)
       \/ WatcherFires(r)
  \/ CancelAll

Next ==
  \/ RunOnce
  \/ Watching
  \/ Requests
  \/ \E request \in late : EnqueueLate(request)
  \/ Boot
  \/ Crash

\* The loop of the runner goes on, start() and _ensure_watcher return, and a
\* stopped daemon is started again.
Fairness == WF_vars(RunOnce) /\ WF_vars(Watching) /\ WF_vars(Boot)

Spec == Init /\ [][Next]_vars

FairSpec == Spec /\ Fairness
-----------------------------------------------------------------------------
\* Every variable has its type.
TypeOK ==
  /\ catalog \in [Repos -> [state : StoreStates, generation : Generations]]
  /\ store \in [Repos -> SUBSET (1 .. MaxGenerations)]
  /\ tombstones \in [Repos -> SUBSET Queue!Jobs]
  /\ nextGeneration \in 1 .. MaxGenerations + 1
  /\ runner \in [pc : Positions, job : 0 .. MaxJobs,
                 matches : BOOLEAN, superseded : BOOLEAN]
  /\ watcher \in [Repos -> Generations]
  /\ orphans \in [Repos -> SUBSET (1 .. MaxGenerations)]
  /\ late \in SUBSET [repo : Repos, generation : 1 .. MaxGenerations,
                      mode : {"files", "full"}, paths : SUBSET Paths]
  /\ enrolling \in SUBSET [repo : Repos, generation : 1 .. MaxGenerations,
                           by : {"route", "runner", "startup"},
                           stage : {"bound", "observing"}]
  /\ booting \in SUBSET Repos
  /\ faults \in 0 .. MaxFaults

\* The runner, the routes and the watchers use the queue as the queue is meant
\* to be used: a row is given back once, by the run that claimed it, and marked
\* cancelled only after a cancellation request.
UsesTheQueue == Queue!Spec

\* No record is semantic_ready while a job of its generation is about to write,
\* writes, or has failed: readiness is withdrawn before the graph changes and
\* comes back only after a pass of that same generation.
NotReadyWhileWriting ==
  /\ runner.pc \in {"opened", "writing", "executed", "publishing", "raised"}
  /\ Job.mode # "drop_index"
  /\ Matches
  => catalog[Repo].state # "semantic_ready"

\* A record whose store is gone, or a store without record, is only ever the
\* trace of a deletion that is pending or has failed or of an enrollment that
\* has failed: an explicit delete can pick up every such half.
HalvesAreExplained ==
  \A r \in Repos :
    \/ LiveStore(r)
    \/ ~Bound(r) /\ (store[r] = {} \/ Registered(r))
    \/ \E j \in Queue!Jobs :
         /\ jobs[j].repo = r
         /\ jobs[j].mode = "drop_index"
         /\ Queue!Active(j) \/ jobs[j].status = "failed"

\* A store that the catalog points at is taken away, and a record with a
\* generation removed, only by a deletion job of that very generation.
OnlyItsDeletionRemoves ==
  [][\A r \in Repos :
       /\ Bound(r)
       /\ (LiveStore(r) /\ ~LiveStore(r)') \/ catalog'[r] = Absent
       => /\ runner.job # 0 /\ Repo = r
          /\ Job.mode = "drop_index"
          /\ Job.generation = catalog[r].generation]_vars

\* From the acceptance of a deletion to its end no generation of the root is
\* created or brought back ("index and incremental-ingestion requests cannot
\* resurrect a repository while deletion is active").
NoResurrection ==
  [][\A r \in Repos :
       DeletionPending(r) =>
         /\ catalog'[r].generation \in {catalog[r].generation, 0}
         /\ store'[r] \subseteq store[r]]_vars

\* When a deletion completes, its generation is gone for good: no record, no
\* store directory and no tombstone is left, whatever failures and crashes its
\* attempts went through.  A superseded deletion leaves the newer generation.
DeletionIsComplete ==
  [][\A j \in Queue!Jobs :
       /\ Queue!Working(j) /\ jobs[j].mode = "drop_index"
       /\ jobs'[j].status = "completed"
       => LET r == jobs[j].repo
          IN  /\ tombstones'[r] = {}
              /\ \/ catalog'[r] = Absent /\ store'[r] = {}
                 \/ runner.superseded /\ catalog'[r].generation # jobs[j].generation]_vars

\* Every accepted row is settled although jobs may fail and the daemon die,
\* unless a failed deletion has ended the runner of a daemon that lives on
\* (RunnerSurvives); the rows that daemon leaves are settled after a restart.
EveryJobSettles ==
  \A j \in Queue!Jobs :
    Queue!Active(j) ~> Queue!Terminal(j) \/ At("dead")

\* A daemon that starts comes to watch every stored root it has to restore,
\* under the generation the catalog has for it, whatever the rows recovered
\* with it do meanwhile, unless the root is being deleted.
StartupRewatches ==
  \A r \in Repos :
    r \in booting /\ LiveStore(r) ~>
      \/ watcher[r] = catalog[r].generation
      \/ ~alive \/ ~LiveStore(r) \/ DeletionPending(r)

\* specs/2026-09-09-delete-ingested-repository.md:130 says "Queue and catalog
\* binding checks must close the re-index race": the row that answers a deletion
\* request would be bound to the generation the catalog has at that moment.
DeletionTargetsTheCatalog ==
  [][\A r \in Repos :
       ~DeletionPending(r) /\ DeletionPending(r)' =>
         \A j \in Queue!Jobs :
           jobs'[j].mode = "drop_index" /\ Queue!Active(j)' /\ jobs'[j].repo = r
             => jobs'[j].generation = catalog[r].generation]_vars

\* The same specification, lines 117-119: after exhausted retries "SCS restores
\* the watcher; partial retirement stays recoverable by another idempotent
\* delete".  The runner that must execute it would still be there.  It does not hold:
\* a watcher's enqueue beside another deletion ends it (README, divergences).
RunnerSurvives == runner.pc # "dead"

\* specs/2026-08-31-git-aware-automatic-reindexing.md:39 says "Every active,
\* existing catalog repository receives one Git-state poller".  A root that a
\* superseded deletion leaves stored would still have its own.  It does not
\* hold: drop_index has dropped that watcher when it accepted the deletion, and
\* only a restart or a new index request brings one back (README, divergences).
SupersededRootsAreWatched ==
  [][\A j \in Queue!Jobs :
       /\ Queue!Working(j) /\ jobs[j].mode = "drop_index"
       /\ jobs'[j].status = "completed" /\ LiveStore(jobs[j].repo)
       => watcher[jobs[j].repo] = catalog[jobs[j].repo].generation]_vars

\* The same line: a watcher of a live root would report under the generation
\* the catalog has.  It does not hold: a watcher put in the table after the
\* deletion of its generation was accepted is kept by the re-index, which finds
\* the root in _watchers (README, divergences).
WatchersFollowTheCatalog ==
  \A r \in Repos :
    Serving /\ LiveStore(r) => watcher[r] \in {0, catalog[r].generation}
=============================================================================
