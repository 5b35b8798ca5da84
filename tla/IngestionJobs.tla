---------------------------- MODULE IngestionJobs ----------------------------
(***************************************************************************)
(* The durable ingestion queue, src/src/scs/indexing/jobs.py, together     *)
(* with the daemon incarnations that use it.                               *)
(*                                                                         *)
(* Every public method of IngestionJobStore runs in one BEGIN IMMEDIATE    *)
(* transaction, so each is one atomic action over the table `jobs`.        *)
(* Row ids are handed out in creation order, so the id stands for          *)
(* (created_at, rowid), the order the queries sort by.  The status         *)
(* 'retrying' is accepted by the queries but never written by the code;    *)
(* it is left out.  Reasons, messages, progress and timestamps are         *)
(* abstracted away.                                                        *)
(***************************************************************************)
EXTENDS Integers, FiniteSets

CONSTANTS
  Repos,        \* canonical repository roots
  Stores,       \* project stores
  StoreOf,      \* COALESCE(store_id, repo_path): a pure hash of the root
  Generations,  \* store generations an enqueue can be bound to
  Paths,        \* entries of the file_paths / deleted_paths lists and of manifests
  MaxAttempts,  \* max_attempts of a row
  MaxJobs,      \* bound: rows ever inserted
  MaxBoots,     \* bound: daemon incarnations
  Workers       \* jobs one incarnation may hold at once (the daemon's runner: 1)

ASSUME StoreOfAssumption == StoreOf \in [Repos -> Stores]

ASSUME NonEmptyAssumption == Repos # {} /\ Generations # {}

ASSUME BoundsAssumption ==
  /\ MaxAttempts \in Nat \ {0}
  /\ MaxJobs \in Nat
  /\ MaxBoots \in Nat
  /\ Workers \in Nat

VARIABLES
  jobs,    \* the table: row id -> row; status "absent" until inserted
  nextId,  \* the next row id
  boot,    \* the lease owner: the current (or last) daemon incarnation
  alive,   \* whether that incarnation is running
  held     \* rows claimed by the live incarnation and not yet finished by it

vars == <<jobs, nextId, boot, alive, held>>

Jobs == 1 .. MaxJobs
Modes == {"cleanup", "files", "full", "force_full", "drop_index"}
ActiveStatuses == {"queued", "running", "cancelling"}
Statuses == ActiveStatuses \cup {"absent", "completed", "failed", "cancelled"}

\* The force-full manifest is the fields frozen/targets/acked: targets are
\* the paths of the manifest, acked those marked acknowledged.
Payloads == [paths : SUBSET Paths, frozen : BOOLEAN,
             targets : SUBSET Paths, acked : SUBSET Paths]

NoPayload == [paths |-> {}, frozen |-> FALSE, targets |-> {}, acked |-> {}]

\* owner 0 stands for a NULL lease; expired for lease_expires_at < now.
Rows == [repo : Repos, generation : Generations, mode : Modes,
         payload : Payloads, status : Statuses, attempts : Nat,
         owner : 0 .. MaxBoots, expired : BOOLEAN]

Absent == [repo |-> CHOOSE r \in Repos : TRUE,
           generation |-> CHOOSE g \in Generations : TRUE,
           mode |-> "cleanup", payload |-> NoPayload, status |-> "absent",
           attempts |-> 0, owner |-> 0, expired |-> FALSE]

Queued(j) == jobs[j].status = "queued"
Working(j) == jobs[j].status \in {"running", "cancelling"}
Active(j) == jobs[j].status \in ActiveStatuses
Deleting(j) == Active(j) /\ jobs[j].mode = "drop_index"
Terminal(j) == jobs[j].status \in {"completed", "failed", "cancelled"}

QueuedFor(r) == {j \in Jobs : Queued(j) /\ jobs[j].repo = r}
\* Variant: a claimed deletion no longer counts as active.
QueuedDeletionFor(r) ==
  {j \in Jobs : Queued(j) /\ jobs[j].mode = "drop_index" /\ jobs[j].repo = r}

DeletionFor(r) == {j \in Jobs : Deleting(j) /\ jobs[j].repo = r}

(***************************************************************************)
(* _mode_rank and _merge_payload                                           *)
(***************************************************************************)
Rank == [cleanup |-> 0, files |-> 1, full |-> 2, force_full |-> 3,
         drop_index |-> 4]

\* Variants: the latest request wins; the existing row always wins.
LatestMode(existing, new) == new
ExistingMode(existing, new) == existing

MergedMode(existing, new) ==
  IF Rank[new] > Rank[existing] THEN new ELSE existing

Manifest(payload) == [payload EXCEPT !.paths = {}]

\* Variant: a merge into a force-full row always restarts its discovery.
ForgetfulPayload(existing, existingPayload, new, newPayload) ==
  IF MergedMode(existing, new) = "files"
  THEN [NoPayload EXCEPT !.paths = existingPayload.paths \cup newPayload.paths]
  ELSE NoPayload

MergedPayload(existing, existingPayload, new, newPayload) ==
  LET winner == MergedMode(existing, new)
  IN  CASE winner = "files" ->
             [NoPayload EXCEPT !.paths = existingPayload.paths \cup newPayload.paths]
        [] winner = "force_full" /\ new = "force_full" -> Manifest(newPayload)
        [] winner = "force_full" /\ new # "force_full" -> Manifest(existingPayload)
        [] OTHER -> NoPayload

\* The row `existing` with the request (mode, payload) merged into it.
MergeInto(existing, mode, payload) ==
  [existing EXCEPT !.mode = MergedMode(existing.mode, mode),
                   !.payload = MergedPayload(existing.mode, existing.payload,
                                             mode, payload)]

(***************************************************************************)
(* enqueue.  A request that finds an active deletion changes nothing: a    *)
(* drop_index request returns that row, any other raises ValueError.       *)
(* A merge keeps the row's store binding and its attempts.                 *)
(***************************************************************************)
RequestPayload(mode, paths) ==
  IF mode = "files" THEN [NoPayload EXCEPT !.paths = paths] ELSE NoPayload

EnqueueMerge(r, mode, paths) ==
  /\ alive
  /\ DeletionFor(r) = {}
  /\ \E q \in QueuedFor(r) :
       jobs' = [jobs EXCEPT ![q] = MergeInto(@, mode, RequestPayload(mode, paths))]
  /\ UNCHANGED <<nextId, boot, alive, held>>

EnqueueInsert(r, g, mode, paths) ==
  /\ alive
  /\ DeletionFor(r) = {}
  /\ QueuedFor(r) = {}
  /\ nextId \in Jobs
  /\ jobs' = [jobs EXCEPT ![nextId] =
       [repo |-> r, generation |-> g, mode |-> mode,
        payload |-> RequestPayload(mode, paths), status |-> "queued",
        attempts |-> 0, owner |-> 0, expired |-> FALSE]]
  /\ nextId' = nextId + 1
  /\ UNCHANGED <<boot, alive, held>>

(***************************************************************************)
(* claim_next: the oldest queued row of a store nobody works on, cleanup   *)
(* rows last.                                                              *)
(***************************************************************************)
\* Variant: no NOT EXISTS clause.
ClaimableIgnoringStore(j) == Queued(j)

Claimable(j) ==
  /\ Queued(j)
  /\ \A k \in Jobs : Working(k) =>
       StoreOf[jobs[k].repo] # StoreOf[jobs[j].repo]

Before(j, k) ==
  IF (jobs[j].mode = "cleanup") # (jobs[k].mode = "cleanup")
  THEN jobs[k].mode = "cleanup"
  ELSE j <= k

ClaimNext(j) ==
  /\ alive
  /\ Cardinality(held) < Workers
  /\ Claimable(j)
  /\ \A k \in Jobs : Claimable(k) => Before(j, k)
  /\ jobs' = [jobs EXCEPT ![j].status = "running", ![j].owner = boot,
                          ![j].expired = FALSE]
  /\ held' = held \cup {j}
  /\ UNCHANGED <<nextId, boot, alive>>

\* heartbeat writes owner and lease without comparing the stored owner.
Heartbeat(j) ==
  /\ j \in held
  /\ Working(j)
  /\ jobs' = [jobs EXCEPT ![j].owner = boot, ![j].expired = FALSE]
  /\ UNCHANGED <<nextId, boot, alive, held>>

\* Time passes and the heartbeat is late.
LeaseExpires(j) ==
  /\ Working(j)
  /\ jobs' = [jobs EXCEPT ![j].expired = TRUE]
  /\ UNCHANGED <<nextId, boot, alive, held>>

(***************************************************************************)
(* install_force_full_snapshot (a second call keeps the first manifest)    *)
(* and acknowledge_force_full_snapshot_files.                              *)
(***************************************************************************)
InstallForceFullSnapshot(j, targets) ==
  /\ j \in held
  /\ jobs[j].mode = "force_full"
  /\ ~jobs[j].payload.frozen
  /\ jobs' = [jobs EXCEPT ![j].payload =
                [@ EXCEPT !.frozen = TRUE, !.targets = targets, !.acked = {}]]
  /\ UNCHANGED <<nextId, boot, alive, held>>

AcknowledgeForceFullSnapshotFiles(j, paths) ==
  /\ j \in held
  /\ Working(j)
  /\ jobs[j].payload.frozen
  /\ paths \subseteq jobs[j].payload.targets
  /\ jobs' = [jobs EXCEPT ![j].payload.acked = @ \cup paths]
  /\ UNCHANGED <<nextId, boot, alive, held>>

(***************************************************************************)
(* complete, mark_cancelled and fail_or_retry, called by the worker that   *)
(* claimed the row.                                                        *)
(***************************************************************************)
Settled(row, status) ==
  [row EXCEPT !.status = status, !.owner = 0, !.expired = FALSE]

Complete(j) ==
  /\ j \in held
  /\ jobs' = [jobs EXCEPT ![j] =
       Settled(@, IF @.status = "cancelling" THEN "cancelled" ELSE "completed")]
  /\ held' = held \ {j}
  /\ UNCHANGED <<nextId, boot, alive>>

\* The worker cancels only after it has read the status 'cancelling'.
MarkCancelled(j) ==
  /\ j \in held
  /\ jobs[j].status = "cancelling"
  /\ jobs' = [jobs EXCEPT ![j] = Settled(@, "cancelled")]
  /\ held' = held \ {j}
  /\ UNCHANGED <<nextId, boot, alive>>

\* The row j as its worker gives it back: failed, or queued once more.
Retried(row, attempts) ==
  [Settled(row, IF attempts >= MaxAttempts THEN "failed" ELSE "queued")
     EXCEPT !.attempts = attempts]

\* Variant: the retry does not look for a queued follow-up.
RetryBesideFollowUp(j) ==
  /\ j \in held
  /\ jobs' = [jobs EXCEPT ![j] = Retried(@, jobs[j].attempts + 1)]
  /\ held' = held \ {j}
  /\ UNCHANGED <<nextId, boot, alive>>

FailOrRetry(j) ==
  LET attempts == jobs[j].attempts + 1
      others == QueuedFor(jobs[j].repo) \ {j}
  IN /\ j \in held
     /\ \/ /\ attempts >= MaxAttempts \/ others = {}
           /\ jobs' = [jobs EXCEPT ![j] = Retried(@, attempts)]
        \/ /\ attempts < MaxAttempts
           /\ \E q \in others :
                jobs' = [jobs EXCEPT
                  ![q] = MergeInto(@, jobs[j].mode, jobs[j].payload),
                  ![j] = [Settled(@, "cancelled") EXCEPT !.attempts = attempts]]
     /\ held' = held \ {j}
     /\ UNCHANGED <<nextId, boot, alive>>

(***************************************************************************)
(* request_cancel and request_cancel_all (system.shutdown, cancel_active). *)
(***************************************************************************)
\* Variant: a running row is cancelled under its worker.
CancelledAtOnce(row) ==
  IF row.status \in {"queued", "running"} THEN Settled(row, "cancelled") ELSE row

CancelRequested(row) ==
  CASE row.status = "queued" -> Settled(row, "cancelled")
    [] row.status = "running" -> [row EXCEPT !.status = "cancelling"]
    [] OTHER -> row

RequestCancel(j) ==
  /\ alive
  /\ Active(j)
  /\ jobs' = [jobs EXCEPT ![j] = CancelRequested(@)]
  /\ UNCHANGED <<nextId, boot, alive, held>>

\* Variant: deletions are cancelled with the rest.
RequestCancelEverything ==
  /\ alive
  /\ jobs' = [j \in Jobs |-> CancelRequested(jobs[j])]
  /\ UNCHANGED <<nextId, boot, alive, held>>

RequestCancelAll ==
  /\ alive
  /\ jobs' = [j \in Jobs |-> IF jobs[j].mode = "drop_index" THEN jobs[j]
                             ELSE CancelRequested(jobs[j])]
  /\ UNCHANGED <<nextId, boot, alive, held>>

(***************************************************************************)
(* reclaim_stale_running(lease_owner = o, reclaim_other_owners = TRUE), the *)
(* only call there is.  The loop treats the stale rows one by one; no two  *)
(* of them share a repository (OneWorkerPerStore), so it is written as one *)
(* map.  An interrupted attempt counts only if the owner is the caller.    *)
(***************************************************************************)
\* Variant: rows whose cancellation was requested are not recovered.
StaleRunning(j, o) ==
  jobs[j].status = "running" /\ (jobs[j].expired \/ jobs[j].owner # o)

Stale(j, o) == Working(j) /\ (jobs[j].expired \/ jobs[j].owner # o)

Reclaimed(o) ==
  [j \in Jobs |->
    CASE Stale(j, o) /\ QueuedFor(jobs[j].repo) # {} ->
           Settled(jobs[j], "cancelled")
      [] Stale(j, o) /\ QueuedFor(jobs[j].repo) = {} ->
           Retried(jobs[j], IF jobs[j].owner # o THEN jobs[j].attempts
                            ELSE jobs[j].attempts + 1)
      [] Queued(j) /\ \E k \in Jobs : Stale(k, o) /\ jobs[k].repo = jobs[j].repo ->
           LET k == CHOOSE k \in Jobs : Stale(k, o) /\ jobs[k].repo = jobs[j].repo
           IN  MergeInto(jobs[j], jobs[k].mode, jobs[k].payload)
      [] OTHER -> jobs[j]]

\* IngestionJobRunner.start of a new daemon incarnation: the process lock
\* admits it only when no other is alive, its owner string is new.
StartRunner ==
  /\ ~alive
  /\ boot < MaxBoots
  /\ boot' = boot + 1
  /\ alive' = TRUE
  /\ held' = {}
  /\ jobs' = Reclaimed(boot + 1)
  /\ UNCHANGED nextId

\* The daemon process dies at any moment; the table survives.
Crash ==
  /\ alive
  /\ boot < MaxBoots
  /\ alive' = FALSE
  /\ held' = {}
  /\ UNCHANGED <<jobs, nextId, boot>>

-----------------------------------------------------------------------------
Init ==
  /\ jobs = [j \in Jobs |-> Absent]
  /\ nextId = 1
  /\ boot = 0
  /\ alive = FALSE
  /\ held = {}

Enqueue ==
  \E r \in Repos, mode \in Modes, paths \in SUBSET Paths :
    \/ EnqueueMerge(r, mode, paths)
    \/ \E g \in Generations : EnqueueInsert(r, g, mode, paths)

Finish(j) == Complete(j) \/ MarkCancelled(j) \/ FailOrRetry(j)

RowStep(j) ==
  \/ ClaimNext(j)
  \/ Heartbeat(j)
  \/ LeaseExpires(j)
  \/ \E targets \in SUBSET Paths : InstallForceFullSnapshot(j, targets)
  \/ \E paths \in SUBSET Paths : AcknowledgeForceFullSnapshotFiles(j, paths)
  \/ Finish(j)
  \/ RequestCancel(j)

Next ==
  \/ Enqueue
  \/ \E j \in Jobs : RowStep(j)
  \/ RequestCancelAll
  \/ StartRunner
  \/ Crash

\* The runner's loop keeps claiming while it lives, every claimed job ends
\* in one of the three calls of run_once, and a stopped daemon is started
\* again by the next client.
Fairness ==
  /\ WF_vars(StartRunner)
  /\ \A j \in Jobs : WF_vars(ClaimNext(j)) /\ WF_vars(Finish(j))

Spec == Init /\ [][Next]_vars

FairSpec == Spec /\ Fairness
-----------------------------------------------------------------------------
\* Every variable has its type (the columns hold the values the code writes).
TypeOK ==
  /\ jobs \in [Jobs -> Rows]
  /\ nextId \in 1 .. MaxJobs + 1
  /\ boot \in 0 .. MaxBoots
  /\ alive \in BOOLEAN
  /\ held \in SUBSET Jobs

\* At most one queued row per repository: the unique index
\* idx_ingestion_jobs_one_queued_per_repo is never hit, although retries and
\* recovery put running rows back into the queue beside fresh requests.
OneQueuedPerRepo ==
  \A j, k \in Jobs :
    Queued(j) /\ Queued(k) /\ jobs[j].repo = jobs[k].repo => j = k

\* At most one row of a store is running or cancelling: claim_next's NOT
\* EXISTS clause together with recovery keeps writers of a store apart.
OneWorkerPerStore ==
  \A j, k \in Jobs :
    Working(j) /\ Working(k) /\ StoreOf[jobs[j].repo] = StoreOf[jobs[k].repo]
      => j = k

\* While a deletion of a repository is pending nothing else of that repository
\* waits in the queue, and while it is executed nothing else is active at all.
DeletionIsExclusive ==
  \A j, k \in Jobs :
    Deleting(j) /\ Active(k) /\ k # j /\ jobs[k].repo = jobs[j].repo
      => Queued(j) /\ Working(k)

\* The row a worker holds stays running or cancelling and leased to that worker
\* until the worker itself gives it back: complete, mark_cancelled and
\* fail_or_retry need no status check of their own.
HeldRowsStayLeased ==
  \A j \in held : alive /\ Working(j) /\ jobs[j].owner = boot

\* Rows are inserted in id order.
Fresh == \A j \in Jobs : j >= nextId => jobs[j].status = "absent"

\* The inductive invariant behind the five invariants above.
IInv ==
  /\ TypeOK
  /\ Fresh
  /\ OneQueuedPerRepo
  /\ OneWorkerPerStore
  /\ DeletionIsExclusive
  /\ HeldRowsStayLeased

\* A finished row is never touched again (complete and mark_cancelled update
\* unconditionally; retry, recovery and cancel-all must not revive it).
TerminalIsFinal ==
  [][\A j \in Jobs : Terminal(j) => jobs'[j] = jobs[j]]_vars

\* An accepted deletion is only ever ended by its completion, by exhausting its
\* attempts or by a cancellation request that names it: merging, retry, crash
\* recovery and cancel-all neither downgrade nor drop it.
DeletionSurvives ==
  [][\A j \in Jobs : Deleting(j) =>
       \/ Deleting(j)'
       \/ jobs'[j].status \in {"completed", "failed"}
       \/ jobs[j].status = "cancelling" /\ jobs'[j].status = "cancelled"
       \/ RequestCancel(j)]_vars

\* The row k carries all the work of the row j.
Carries(rowK, rowJ) ==
  /\ Rank[rowK.mode] >= Rank[rowJ.mode]
  /\ rowK.mode = "files" => rowJ.payload.paths \subseteq rowK.payload.paths

\* Work in progress is never dropped: unless its cancellation was requested, a
\* running row ends completed or failed, goes back to the queue as it was, or
\* is carried by the queued row it was merged into.
RunningWorkIsCarried ==
  [][\A j \in Jobs : jobs[j].status = "running" =>
       \/ jobs'[j].status \in {"completed", "failed"}
       \/ Active(j)' /\ Carries(jobs'[j], jobs[j])
       \/ \E k \in Jobs : /\ Queued(k)'
                          /\ jobs'[k].repo = jobs[j].repo
                          /\ Carries(jobs'[k], jobs[j])]_vars

\* A queued request only widens while it waits: later requests, failed attempts
\* and recovery may raise its mode and add paths, never lower or remove.
QueuedWorkOnlyGrows ==
  [][\A j \in Jobs : Queued(j) /\ Active(j)' => Carries(jobs'[j], jobs[j])]_vars

\* The manifest of a force-full attempt is frozen: until the attempt ends for good the
\* row, be it running, cancelling or queued for its retry, or the queued row its work is
\* merged into, keeps the targets and loses no acknowledgement, across failures, deaths
\* and requests of other modes.  A request drops it in three ways: a cancellation, a
\* deletion, and a force_full merged into the waiting retry, which starts over
\* (jobs.py:205-214).
ManifestIsFrozen ==
  [][\A j \in Jobs : Active(j) /\ jobs[j].payload.frozen =>
       \/ jobs'[j].status \in {"completed", "failed"}
       \/ jobs[j].status \in {"queued", "cancelling"} /\ jobs'[j].status = "cancelled"
       \/ Queued(j) /\ \E paths \in SUBSET Paths : EnqueueMerge(jobs[j].repo, "force_full", paths)
       \/ \E k \in Jobs :
            /\ Active(k)' /\ jobs'[k].repo = jobs[j].repo
            /\ \/ /\ jobs'[k].payload.targets = jobs[j].payload.targets
                  /\ jobs[j].payload.acked \subseteq jobs'[k].payload.acked
               \/ jobs'[k].mode = "drop_index"]_vars

\* Every inserted row reaches a terminal status: no row is stuck behind a
\* store, a lost lease or a crash, once crashes stop.
EveryJobSettles ==
  \A j \in Jobs : Active(j) ~> Terminal(j)

\* jobs.py:205-207 says that a queued explicit force request "must rediscover its
\* own immutable file/hash set": a queued force row without a manifest would not
\* acquire one before it is claimed.  It does not hold: the retry of an older force
\* attempt hands its manifest down (README, divergences).
ForceRequestRediscovers ==
  [][\A j \in Jobs :
       /\ Queued(j) /\ jobs[j].mode = "force_full" /\ ~jobs[j].payload.frozen
       /\ Queued(j)'
       => ~jobs'[j].payload.frozen]_vars

(***************************************************************************)
(* The rows as work: the queue implements RepositoryWork.                  *)
(***************************************************************************)
WorkingFor(r) == {j \in Jobs : Working(j) /\ jobs[j].repo = r}

AsWork(row) == [mode |-> row.mode, paths |-> row.payload.paths]

\* The work of the one row in `rows`, if there is one.
WorkIn(rows) ==
  IF rows = {} THEN [mode |-> "none", paths |-> {}]
  ELSE AsWork(jobs[CHOOSE j \in rows : TRUE])

WaitingWork == [r \in Repos |-> WorkIn(QueuedFor(r))]
RunningWork == [r \in Repos |-> WorkIn(WorkingFor(r))]

Work == INSTANCE RepositoryWork WITH
  waiting <- WaitingWork, running <- RunningWork, up <- alive

\* What the refinement needs besides IInv: every lease is the present daemon's or an
\* older one's, whatever is active may be tried once more, and only work on
\* single files has paths.
WholeRow(row, owner) ==
  /\ row.owner <= owner
  /\ row.status \in ActiveStatuses => row.attempts < MaxAttempts
  /\ row.mode # "files" => row.payload.paths = {}

RowsAreWhole == \A j \in Jobs : WholeRow(jobs[j], boot)

\* However requests, claims, failures, cancellations, deaths and recoveries interleave,
\* the table does to the work of each repository only what RepositoryWork allows:
\* enqueue and the returns of fail_or_retry and reclaim_stale_running join, only
\* a cancellation withdraws, only an end of a worker's own takes away.
ImplementsWork == Work!Spec
=============================================================================
