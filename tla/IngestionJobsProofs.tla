------------------------- MODULE IngestionJobsProofs -------------------------
(***************************************************************************)
(* Proofs about the durable ingestion queue for every set of repositories, *)
(* every number of workers, rows, attempts and crashes.                    *)
(***************************************************************************)
EXTENDS IngestionJobs, TLAPS

(***************************************************************************)
(* What the row operations return.                                         *)
(***************************************************************************)

\* _mode_rank is total on the modes and _merge_payload picks one of them.
LEMMA MergedModeType ==
  ASSUME NEW a \in Modes, NEW b \in Modes
  PROVE  /\ MergedMode(a, b) \in Modes
         /\ MergedMode(a, b) \in {a, b}
         /\ a = "drop_index" => MergedMode(a, b) = "drop_index"
  BY DEF MergedMode, Modes, Rank

\* _merge_payload returns a well-formed payload.
LEMMA MergedPayloadType ==
  ASSUME NEW a \in Modes, NEW b \in Modes, NEW p \in Payloads, NEW q \in Payloads
  PROVE  MergedPayload(a, p, b, q) \in Payloads
<1> DEFINE winner == MergedMode(a, b)
<1>1. CASE winner = "files"
  BY <1>1 DEF MergedPayload, Payloads, NoPayload
<1>2. CASE winner = "force_full" /\ b = "force_full"
  BY <1>2 DEF MergedPayload, Payloads, Manifest
<1>3. CASE winner = "force_full" /\ b # "force_full"
  BY <1>3 DEF MergedPayload, Payloads, Manifest
<1>4. CASE winner \notin {"files", "force_full"}
  BY <1>4 DEF MergedPayload, Payloads, NoPayload
<1> QED BY <1>1, <1>2, <1>3, <1>4

\* Merging a request into a row touches only its mode and payload.
LEMMA MergeIntoFacts ==
  ASSUME NEW row \in Rows, NEW b \in Modes, NEW q \in Payloads
  PROVE  /\ MergeInto(row, b, q) \in Rows
         /\ MergeInto(row, b, q).repo = row.repo
         /\ MergeInto(row, b, q).status = row.status
         /\ MergeInto(row, b, q).owner = row.owner
         /\ MergeInto(row, b, q).mode = MergedMode(row.mode, b)
<1>1. MergedMode(row.mode, b) \in Modes
  BY MergedModeType DEF Rows
<1>2. MergedPayload(row.mode, row.payload, b, q) \in Payloads
  BY MergedPayloadType DEF Rows
<1> HIDE DEF Modes
<1> QED BY <1>1, <1>2 DEF MergeInto, Rows

\* Settling a row touches only its status and lease.
LEMMA SettledFacts ==
  ASSUME NEW row \in Rows, NEW status \in Statuses
  PROVE  /\ Settled(row, status) \in Rows
         /\ Settled(row, status).repo = row.repo
         /\ Settled(row, status).mode = row.mode
         /\ Settled(row, status).status = status
         /\ Settled(row, status).owner = 0
<1>1. 0 \in 0 .. MaxBoots
  BY BoundsAssumption
<1>2. row = [repo |-> row.repo, generation |-> row.generation, mode |-> row.mode,
             payload |-> row.payload, status |-> row.status,
             attempts |-> row.attempts, owner |-> row.owner,
             expired |-> row.expired]
  BY DEF Rows
<1> QED BY <1>1, <1>2 DEF Settled, Rows

\* A row given back by its worker or by recovery is failed or queued.
LEMMA RetriedFacts ==
  ASSUME NEW row \in Rows, NEW attempts \in Nat
  PROVE  /\ Retried(row, attempts) \in Rows
         /\ Retried(row, attempts).repo = row.repo
         /\ Retried(row, attempts).mode = row.mode
         /\ Retried(row, attempts).status \in {"failed", "queued"}
         /\ attempts < MaxAttempts => Retried(row, attempts).status = "queued"
         /\ attempts >= MaxAttempts => Retried(row, attempts).status = "failed"
<1> DEFINE status == IF attempts >= MaxAttempts THEN "failed" ELSE "queued"
           row1 == Settled(row, status)
<1>1. status \in Statuses
  BY DEF Statuses, ActiveStatuses
<1>2. row1 \in Rows /\ row1.repo = row.repo /\ row1.mode = row.mode /\ row1.status = status
  BY <1>1, SettledFacts
<1>3. Retried(row, attempts) = [row1 EXCEPT !.attempts = attempts]
  BY DEF Retried
<1>4. attempts < MaxAttempts => ~(attempts >= MaxAttempts)
  BY BoundsAssumption
<1>5. /\ attempts < MaxAttempts => status = "queued"
      /\ attempts >= MaxAttempts => status = "failed"
      /\ status \in {"failed", "queued"}
  BY <1>4
<1> HIDE DEF status, row1
<1> QED BY <1>2, <1>3, <1>5 DEF Rows

\* A cancellation request moves queued to cancelled and running to cancelling.
LEMMA CancelRequestedFacts ==
  ASSUME NEW row \in Rows
  PROVE  /\ CancelRequested(row) \in Rows
         /\ CancelRequested(row).repo = row.repo
         /\ CancelRequested(row).mode = row.mode
         /\ row.status = "queued" => CancelRequested(row).status = "cancelled"
         /\ row.status = "running" => CancelRequested(row).status = "cancelling"
         /\ row.status \notin {"queued", "running"} => CancelRequested(row) = row
         /\ row.status # "queued" => CancelRequested(row).owner = row.owner
<1>1. CASE row.status = "queued"
  BY <1>1, SettledFacts DEF CancelRequested, Statuses
<1>2. CASE row.status = "running"
  BY <1>2 DEF CancelRequested, Rows, Statuses, ActiveStatuses
<1>3. CASE row.status \notin {"queued", "running"}
  BY <1>3 DEF CancelRequested
<1> QED BY <1>1, <1>2, <1>3
-----------------------------------------------------------------------------
(***************************************************************************)
(* Type correctness                                                        *)
(***************************************************************************)

\* The payload of a request is well formed.
LEMMA RequestPayloadType ==
  ASSUME NEW mode \in Modes, NEW paths \in SUBSET Paths
  PROVE  RequestPayload(mode, paths) \in Payloads
  BY DEF RequestPayload, NoPayload, Payloads

\* Rows of jobs are rows, and the ids that are sets of Jobs are subsets.
LEMMA RowFacts ==
  ASSUME TypeOK, NEW j \in Jobs
  PROVE  /\ jobs[j] \in Rows
         /\ jobs[j].repo \in Repos
         /\ jobs[j].mode \in Modes
         /\ jobs[j].payload \in Payloads
         /\ jobs[j].status \in Statuses
         /\ jobs[j].attempts \in Nat
         /\ jobs[j].attempts + 1 \in Nat
         /\ jobs[j].owner \in 0 .. MaxBoots
  BY DEF TypeOK, Rows

\* Recovery (reclaim_stale_running) rewrites rows into rows, keeps their
\* repository, and settles, requeues, merges into or keeps each of them.
LEMMA ReclaimedFacts ==
  ASSUME TypeOK, NEW o, NEW j \in Jobs
  PROVE  /\ Reclaimed(o)[j] \in Rows
         /\ Reclaimed(o)[j].repo = jobs[j].repo
         /\ Stale(j, o) /\ QueuedFor(jobs[j].repo) # {} =>
              Reclaimed(o)[j].status = "cancelled"
         /\ Stale(j, o) /\ QueuedFor(jobs[j].repo) = {} =>
              /\ Reclaimed(o)[j].status \in {"failed", "queued"}
              /\ Reclaimed(o)[j].mode = jobs[j].mode
         /\ ~Stale(j, o) =>
              /\ Reclaimed(o)[j].status = jobs[j].status
              /\ Reclaimed(o)[j].owner = jobs[j].owner
         /\ ~Stale(j, o) /\ Reclaimed(o)[j].mode # jobs[j].mode =>
              /\ Queued(j)
              /\ \E k \in Jobs : /\ Stale(k, o) /\ jobs[k].repo = jobs[j].repo
                                 /\ Reclaimed(o)[j].mode = jobs[k].mode
         /\ ~Stale(j, o) /\ jobs[j].mode = "drop_index" =>
              Reclaimed(o)[j].mode = "drop_index"
         /\ ~Stale(j, o) /\ ~Queued(j) => Reclaimed(o)[j] = jobs[j]
<1> DEFINE stale(k) == Stale(k, o) /\ jobs[k].repo = jobs[j].repo
           k0 == CHOOSE k \in Jobs : Stale(k, o) /\ jobs[k].repo = jobs[j].repo
<1>0. jobs[j] \in Rows /\ jobs[j].attempts \in Nat /\ jobs[j].attempts + 1 \in Nat
  BY RowFacts
<1>d. ~(Stale(j, o) /\ Queued(j))
  BY DEF Stale, Working, Queued
<1>1. CASE Stale(j, o) /\ QueuedFor(jobs[j].repo) # {}
  <2>1. Reclaimed(o)[j] = Settled(jobs[j], "cancelled")
    BY <1>1, <1>d DEF Reclaimed
  <2>2. "cancelled" \in Statuses
    BY DEF Statuses
  <2> QED BY <1>0, <1>1, <2>1, <2>2, SettledFacts
<1>2. CASE Stale(j, o) /\ QueuedFor(jobs[j].repo) = {}
  <2> DEFINE attempts == IF jobs[j].owner # o THEN jobs[j].attempts
                         ELSE jobs[j].attempts + 1
  <2>1. Reclaimed(o)[j] = Retried(jobs[j], attempts)
    BY <1>2, <1>d DEF Reclaimed
  <2>2. attempts \in Nat
    BY <1>0
  <2> HIDE DEF attempts
  <2>3. Retried(jobs[j], attempts).repo = jobs[j].repo
        /\ Retried(jobs[j], attempts).mode = jobs[j].mode
        /\ Retried(jobs[j], attempts).status \in {"failed", "queued"}
        /\ Retried(jobs[j], attempts) \in Rows
    BY <1>0, <2>2, RetriedFacts
  <2> QED BY <1>2, <2>1, <2>3
<1>3. CASE ~Stale(j, o) /\ Queued(j) /\ \E k \in Jobs : stale(k)
  <2>1. k0 \in Jobs /\ Stale(k0, o) /\ jobs[k0].repo = jobs[j].repo
    BY <1>3
  <2> HIDE DEF k0
  <2>2. Reclaimed(o)[j] = MergeInto(jobs[j], jobs[k0].mode, jobs[k0].payload)
    BY <1>3 DEF Reclaimed, k0
  <2>3. jobs[k0].mode \in Modes /\ jobs[k0].payload \in Payloads /\ jobs[j].mode \in Modes
    BY <2>1, RowFacts
  <2>4. /\ MergedMode(jobs[j].mode, jobs[k0].mode) \in {jobs[j].mode, jobs[k0].mode}
        /\ jobs[j].mode = "drop_index" =>
             MergedMode(jobs[j].mode, jobs[k0].mode) = "drop_index"
    BY <2>3, MergedModeType
  <2> QED BY <1>0, <1>3, <2>1, <2>2, <2>3, <2>4, MergeIntoFacts
<1>4. CASE ~Stale(j, o) /\ ~(Queued(j) /\ \E k \in Jobs : stale(k))
  <2>1. Reclaimed(o)[j] = jobs[j]
    BY <1>4 DEF Reclaimed
  <2> QED BY <1>0, <1>4, <2>1
<1> QED BY <1>1, <1>2, <1>3, <1>4

\* TypeOK is kept by every step of the queue.
LEMMA TypeStep == TypeOK /\ [Next]_vars => TypeOK'
<1> SUFFICES ASSUME TypeOK, [Next]_vars PROVE TypeOK'
  OBVIOUS
<1> USE DEF TypeOK
<1>1. ASSUME NEW r \in Repos, NEW mode \in Modes, NEW paths \in SUBSET Paths,
             EnqueueMerge(r, mode, paths)
      PROVE  TypeOK'
  <2>1. RequestPayload(mode, paths) \in Payloads
    BY RequestPayloadType
  <2>2. PICK q \in QueuedFor(r) :
          jobs' = [jobs EXCEPT ![q] = MergeInto(@, mode, RequestPayload(mode, paths))]
    BY <1>1 DEF EnqueueMerge
  <2>3. q \in Jobs /\ jobs[q] \in Rows
    BY RowFacts DEF QueuedFor
  <2>4. MergeInto(jobs[q], mode, RequestPayload(mode, paths)) \in Rows
    BY <2>1, <2>3, MergeIntoFacts
  <2> QED BY <1>1, <2>2, <2>4 DEF EnqueueMerge
<1>2. ASSUME NEW r \in Repos, NEW g \in Generations, NEW mode \in Modes,
             NEW paths \in SUBSET Paths, EnqueueInsert(r, g, mode, paths)
      PROVE  TypeOK'
  <2>1. RequestPayload(mode, paths) \in Payloads
    BY RequestPayloadType
  <2> DEFINE row == [repo |-> r, generation |-> g, mode |-> mode,
                     payload |-> RequestPayload(mode, paths), status |-> "queued",
                     attempts |-> 0, owner |-> 0, expired |-> FALSE]
  <2>2. row \in Rows
    BY <2>1, BoundsAssumption DEF Rows, Statuses, ActiveStatuses
  <2>3. jobs' = [jobs EXCEPT ![nextId] = row]
    BY <1>2 DEF EnqueueInsert
  <2>4. nextId + 1 \in 1 .. MaxJobs + 1
    BY <1>2, BoundsAssumption DEF EnqueueInsert, Jobs
  <2> HIDE DEF row
  <2> QED BY <1>2, <2>2, <2>3, <2>4 DEF EnqueueInsert
<1>3. ASSUME NEW j \in Jobs, ClaimNext(j) PROVE TypeOK'
  <2>1. jobs[j] \in Rows
    BY RowFacts
  <2>2. [jobs[j] EXCEPT !.status = "running", !.owner = boot, !.expired = FALSE] \in Rows
    BY <2>1 DEF Rows, Statuses, ActiveStatuses
  <2>3. jobs' = [jobs EXCEPT ![j] =
          [jobs[j] EXCEPT !.status = "running", !.owner = boot, !.expired = FALSE]]
    BY <1>3 DEF ClaimNext
  <2> QED BY <1>3, <2>2, <2>3 DEF ClaimNext
<1>4. ASSUME NEW j \in Jobs, Heartbeat(j) PROVE TypeOK'
  <2>1. jobs[j] \in Rows
    BY RowFacts
  <2>2. [jobs[j] EXCEPT !.owner = boot, !.expired = FALSE] \in Rows
    BY <2>1 DEF Rows
  <2> QED BY <1>4, <2>2 DEF Heartbeat
<1>5. ASSUME NEW j \in Jobs, LeaseExpires(j) PROVE TypeOK'
  <2>1. jobs[j] \in Rows
    BY RowFacts
  <2>2. [jobs[j] EXCEPT !.expired = TRUE] \in Rows
    BY <2>1 DEF Rows
  <2> QED BY <1>5, <2>2 DEF LeaseExpires
<1>6. ASSUME NEW j \in Jobs, NEW targets \in SUBSET Paths,
             InstallForceFullSnapshot(j, targets)
      PROVE  TypeOK'
  <2>1. jobs[j] \in Rows /\ jobs[j].payload \in Payloads
    BY RowFacts
  <2> DEFINE payload == [jobs[j].payload EXCEPT !.frozen = TRUE, !.targets = targets,
                                                !.acked = {}]
  <2>2. payload \in Payloads
    BY <2>1 DEF Payloads
  <2>3. [jobs[j] EXCEPT !.payload = payload] \in Rows
    BY <2>1, <2>2 DEF Rows
  <2>4. jobs' = [jobs EXCEPT ![j] = [jobs[j] EXCEPT !.payload = payload]]
    BY <1>6 DEF InstallForceFullSnapshot
  <2> HIDE DEF payload
  <2> QED BY <1>6, <2>3, <2>4 DEF InstallForceFullSnapshot
<1>7. ASSUME NEW j \in Jobs, NEW paths \in SUBSET Paths,
             AcknowledgeForceFullSnapshotFiles(j, paths)
      PROVE  TypeOK'
  <2>1. jobs[j] \in Rows /\ jobs[j].payload \in Payloads
    BY RowFacts
  <2> DEFINE payload == [jobs[j].payload EXCEPT !.acked = jobs[j].payload.acked \cup paths]
  <2>2. payload \in Payloads
    BY <2>1 DEF Payloads
  <2>3. [jobs[j] EXCEPT !.payload = payload] \in Rows
    BY <2>1, <2>2 DEF Rows
  <2>4. jobs' = [jobs EXCEPT ![j] = [jobs[j] EXCEPT !.payload = payload]]
    BY <1>7 DEF AcknowledgeForceFullSnapshotFiles
  <2> HIDE DEF payload
  <2> QED BY <1>7, <2>3, <2>4 DEF AcknowledgeForceFullSnapshotFiles
<1>8. ASSUME NEW j \in Jobs, Complete(j) \/ MarkCancelled(j) PROVE TypeOK'
  <2>1. jobs[j] \in Rows /\ "cancelled" \in Statuses /\ "completed" \in Statuses
    BY RowFacts DEF Statuses
  <2>2. Settled(jobs[j], "cancelled") \in Rows /\ Settled(jobs[j], "completed") \in Rows
    BY <2>1, SettledFacts
  <2>3. \/ jobs' = [jobs EXCEPT ![j] = Settled(jobs[j], "cancelled")]
        \/ jobs' = [jobs EXCEPT ![j] = Settled(jobs[j], "completed")]
    BY <1>8 DEF Complete, MarkCancelled
  <2> QED BY <1>8, <2>2, <2>3 DEF Complete, MarkCancelled
<1>9. ASSUME NEW j \in Jobs, FailOrRetry(j) PROVE TypeOK'
  <2> DEFINE attempts == jobs[j].attempts + 1
             others == QueuedFor(jobs[j].repo) \ {j}
  <2>0. jobs[j] \in Rows /\ attempts \in Nat
    BY RowFacts
  <2>1. CASE jobs' = [jobs EXCEPT ![j] = Retried(jobs[j], attempts)]
    <3>1. Retried(jobs[j], attempts) \in Rows
      BY <2>0, RetriedFacts
    <3> HIDE DEF attempts
    <3> QED BY <1>9, <2>1, <3>1 DEF FailOrRetry
  <2>2. CASE \E q \in others :
               jobs' = [jobs EXCEPT
                 ![q] = MergeInto(@, jobs[j].mode, jobs[j].payload),
                 ![j] = [Settled(@, "cancelled") EXCEPT !.attempts = attempts]]
    <3>1. PICK q \in others :
               jobs' = [jobs EXCEPT
                 ![q] = MergeInto(@, jobs[j].mode, jobs[j].payload),
                 ![j] = [Settled(@, "cancelled") EXCEPT !.attempts = attempts]]
      BY <2>2
    <3>2. q \in Jobs /\ q # j /\ jobs[q] \in Rows
      BY RowFacts DEF QueuedFor
    <3>3. MergeInto(jobs[q], jobs[j].mode, jobs[j].payload) \in Rows
      BY <3>2, RowFacts, MergeIntoFacts
    <3>4. Settled(jobs[j], "cancelled") \in Rows
      BY <2>0, SettledFacts DEF Statuses
    <3>5. [Settled(jobs[j], "cancelled") EXCEPT !.attempts = attempts] \in Rows
      BY <2>0, <3>4 DEF Rows
    <3>6. jobs' = [jobs EXCEPT
             ![q] = MergeInto(jobs[q], jobs[j].mode, jobs[j].payload),
             ![j] = [Settled(jobs[j], "cancelled") EXCEPT !.attempts = attempts]]
      BY <3>1, <3>2
    <3> HIDE DEF attempts, others
    <3> QED BY <1>9, <3>2, <3>3, <3>5, <3>6 DEF FailOrRetry
  <2> QED BY <1>9, <2>1, <2>2 DEF FailOrRetry
<1>10. ASSUME NEW j \in Jobs, RequestCancel(j) PROVE TypeOK'
  <2>1. CancelRequested(jobs[j]) \in Rows
    BY RowFacts, CancelRequestedFacts
  <2> QED BY <1>10, <2>1 DEF RequestCancel
<1>11. CASE RequestCancelAll
  <2>1. \A j \in Jobs : jobs[j] \in Rows /\ CancelRequested(jobs[j]) \in Rows
    BY RowFacts, CancelRequestedFacts
  <2> QED BY <1>11, <2>1 DEF RequestCancelAll
<1>12. CASE StartRunner
  <2>1. \A j \in Jobs : Reclaimed(boot + 1)[j] \in Rows
    BY ReclaimedFacts
  <2>2. Reclaimed(boot + 1) = [j \in Jobs |-> Reclaimed(boot + 1)[j]]
    BY DEF Reclaimed
  <2>3. jobs' \in [Jobs -> Rows]
    BY <1>12, <2>1, <2>2 DEF StartRunner
  <2>4. boot' \in 0 .. MaxBoots
    BY <1>12, BoundsAssumption DEF StartRunner
  <2> QED BY <1>12, <2>3, <2>4 DEF StartRunner
<1>13. CASE Crash
  BY <1>13 DEF Crash
<1>14. CASE UNCHANGED vars
  BY <1>14 DEF vars
<1> HIDE DEF TypeOK
<1>15. CASE Enqueue
  BY <1>1, <1>2, <1>15 DEF Enqueue
<1>16. ASSUME NEW j \in Jobs, RowStep(j) PROVE TypeOK'
  BY <1>3, <1>4, <1>5, <1>6, <1>7, <1>8, <1>9, <1>10, <1>16 DEF RowStep, Finish
<1> QED BY <1>11, <1>12, <1>13, <1>14, <1>15, <1>16 DEF Next

\* The empty table of a fresh database is well typed.
LEMMA InitType == Init => TypeOK
<1>1. Absent \in Rows
  BY NonEmptyAssumption, BoundsAssumption
  DEF Absent, Rows, Modes, Payloads, NoPayload, Statuses
<1>2. 1 \in 1 .. MaxJobs + 1 /\ 0 \in 0 .. MaxBoots
  BY BoundsAssumption
<1>3. Init => jobs \in [Jobs -> Rows]
  BY <1>1 DEF Init
<1> QED BY <1>2, <1>3 DEF Init, TypeOK

\* The columns of the queue always hold values of their types.
THEOREM TypeCorrect == Spec => []TypeOK
  BY InitType, TypeStep, PTL DEF Spec
-----------------------------------------------------------------------------
(***************************************************************************)
(* Exclusion in the queue                                                  *)
(***************************************************************************)
RowInv == OneQueuedPerRepo /\ OneWorkerPerStore /\ DeletionIsExclusive

\* A step after which no row is newly queued or newly worked on, and no active
\* row has changed its mode, keeps the three exclusion invariants.
LEMMA ShrinkKeeps ==
  ASSUME RowInv,
         \A j \in Jobs : /\ jobs'[j].repo = jobs[j].repo
                         /\ Queued(j)' => Queued(j)
                         /\ Working(j)' => Working(j)
                         /\ Active(j)' => jobs'[j].mode = jobs[j].mode
  PROVE  RowInv'
<1>1. OneQueuedPerRepo'
  BY DEF RowInv, OneQueuedPerRepo
<1>2. OneWorkerPerStore'
  BY DEF RowInv, OneWorkerPerStore
<1>3. DeletionIsExclusive'
  BY DEF RowInv, DeletionIsExclusive, Deleting, Active, ActiveStatuses, Queued, Working
<1> QED BY <1>1, <1>2, <1>3 DEF RowInv

\* Widening a queued row of a repository without active deletion.
LEMMA EnqueueMergeKeeps ==
  ASSUME TypeOK, RowInv, NEW r \in Repos, NEW mode \in Modes,
         NEW paths \in SUBSET Paths, EnqueueMerge(r, mode, paths)
  PROVE  /\ RowInv'
         /\ \A j \in Jobs : /\ jobs'[j].status = jobs[j].status
                            /\ jobs'[j].owner = jobs[j].owner
<1>1. RequestPayload(mode, paths) \in Payloads
  BY RequestPayloadType
<1>2. PICK q \in QueuedFor(r) :
        jobs' = [jobs EXCEPT ![q] = MergeInto(@, mode, RequestPayload(mode, paths))]
  BY DEF EnqueueMerge
<1>3. q \in Jobs /\ jobs[q] \in Rows /\ Queued(q) /\ jobs[q].repo = r
  BY <1>2, RowFacts DEF QueuedFor
<1>4. /\ \A j \in Jobs : /\ jobs'[j].repo = jobs[j].repo
                         /\ jobs'[j].status = jobs[j].status
                         /\ jobs'[j].owner = jobs[j].owner
                         /\ j # q => jobs'[j] = jobs[j]
  BY <1>1, <1>2, <1>3, MergeIntoFacts DEF TypeOK
<1>5. \A j \in Jobs : jobs[j].repo = r => ~Deleting(j)
  BY DEF EnqueueMerge, DeletionFor
<1>6. OneQueuedPerRepo'
  BY <1>4 DEF RowInv, OneQueuedPerRepo, Queued
<1>7. OneWorkerPerStore'
  BY <1>4 DEF RowInv, OneWorkerPerStore, Working
<1>8. DeletionIsExclusive'
  <2> SUFFICES ASSUME NEW j \in Jobs, NEW k \in Jobs, Deleting(j)', Active(k)',
                      k # j, jobs'[k].repo = jobs'[j].repo
               PROVE  Queued(j)' /\ Working(k)'
    BY DEF DeletionIsExclusive
  <2>1. Active(k) /\ Active(j) /\ jobs[k].repo = jobs[j].repo
    BY <1>4 DEF Active, Deleting
  <2>2. CASE j = q
    <3>1. ~Queued(k)
      BY <1>3, <2>1, <2>2 DEF RowInv, OneQueuedPerRepo
    <3> QED BY <1>3, <1>4, <2>1, <2>2, <3>1
            DEF Active, ActiveStatuses, Queued, Working
  <2>3. CASE j # q
    <3>1. Deleting(j)
      BY <1>4, <2>1, <2>3 DEF Deleting
    <3>2. Queued(j) /\ Working(k)
      BY <2>1, <3>1 DEF RowInv, DeletionIsExclusive
    <3> QED BY <1>4, <3>2 DEF Queued, Working
  <2> QED BY <2>2, <2>3
<1> QED BY <1>4, <1>6, <1>7, <1>8 DEF RowInv

\* Inserting a row for a repository that has neither a queued row nor an
\* active deletion.
LEMMA EnqueueInsertKeeps ==
  ASSUME TypeOK, Fresh, RowInv, NEW r \in Repos, NEW g \in Generations,
         NEW mode \in Modes, NEW paths \in SUBSET Paths,
         EnqueueInsert(r, g, mode, paths)
  PROVE  /\ RowInv'
         /\ nextId \in Jobs /\ nextId' = nextId + 1
         /\ \A j \in Jobs : j # nextId => jobs'[j] = jobs[j]
         /\ jobs[nextId].status = "absent"
<1>0. PICK n \in Jobs : n = nextId
  BY DEF EnqueueInsert
<1>1. nextId' = n + 1 /\ QueuedFor(r) = {} /\ DeletionFor(r) = {}
  BY <1>0 DEF EnqueueInsert
<1>2. jobs[n].status = "absent"
  BY <1>0 DEF Fresh, Jobs
<1>3. \A j \in Jobs : j # n => jobs'[j] = jobs[j]
  BY <1>0 DEF EnqueueInsert, TypeOK
<1>4. jobs'[n].repo = r /\ jobs'[n].status = "queued"
  BY <1>0 DEF EnqueueInsert, TypeOK
<1>5. \A j \in Jobs : jobs[j].repo = r => ~Queued(j) /\ ~Deleting(j)
  BY <1>1 DEF QueuedFor, DeletionFor
<1>6. Queued(n)' /\ ~Working(n)'
  BY <1>4 DEF Queued, Working
<1>7. \A j \in Jobs : j # n =>
        /\ Queued(j)' <=> Queued(j)
        /\ Working(j)' <=> Working(j)
        /\ Deleting(j)' <=> Deleting(j)
        /\ Active(j)' <=> Active(j)
  BY <1>3 DEF Queued, Working, Deleting, Active
<1>8. OneQueuedPerRepo'
  BY <1>3, <1>4, <1>5, <1>7 DEF RowInv, OneQueuedPerRepo
<1>9. OneWorkerPerStore'
  BY <1>3, <1>6, <1>7 DEF RowInv, OneWorkerPerStore
<1>10. DeletionIsExclusive'
  <2> SUFFICES ASSUME NEW j \in Jobs, NEW k \in Jobs, Deleting(j)', Active(k)',
                      k # j, jobs'[k].repo = jobs'[j].repo
               PROVE  Queued(j)' /\ Working(k)'
    BY DEF DeletionIsExclusive
  <2>1. CASE j = n
    <3>1. Active(k) /\ ~Queued(k)
      BY <1>3, <1>4, <1>5, <1>7, <2>1
    <3>2. Working(k)
      BY <3>1 DEF Active, ActiveStatuses, Queued, Working
    <3> QED BY <1>6, <1>7, <2>1, <3>2
  <2>2. CASE j # n /\ k = n
    BY <1>3, <1>4, <1>5, <1>7, <2>2
  <2>3. CASE j # n /\ k # n
    BY <1>3, <1>7, <2>3 DEF RowInv, DeletionIsExclusive
  <2> QED BY <2>1, <2>2, <2>3
<1> QED BY <1>0, <1>1, <1>2, <1>3, <1>8, <1>9, <1>10 DEF RowInv

\* Claiming a row of a store nobody works on.
LEMMA ClaimNextKeeps ==
  ASSUME TypeOK, RowInv, NEW c \in Jobs, ClaimNext(c)
  PROVE  /\ RowInv'
         /\ Queued(c) /\ Working(c)' /\ jobs'[c].owner = boot
         /\ \A j \in Jobs : j # c => jobs'[j] = jobs[j]
<1>1. \A j \in Jobs : j # c => jobs'[j] = jobs[j]
  BY DEF ClaimNext, TypeOK
<1>2. /\ jobs'[c].repo = jobs[c].repo /\ jobs'[c].mode = jobs[c].mode
      /\ jobs'[c].status = "running" /\ jobs'[c].owner = boot
  BY RowFacts DEF ClaimNext, TypeOK, Rows
<1>3. /\ Queued(c) /\ Working(c)' /\ ~Queued(c)'
  BY <1>2 DEF ClaimNext, Claimable, Queued, Working
<1>4. \A k \in Jobs : Working(k) => StoreOf[jobs[k].repo] # StoreOf[jobs[c].repo]
  BY DEF ClaimNext, Claimable
<1>5. \A j \in Jobs : j # c =>
        /\ Queued(j)' <=> Queued(j)
        /\ Working(j)' <=> Working(j)
        /\ Deleting(j)' <=> Deleting(j)
        /\ Active(j)' <=> Active(j)
  BY <1>1 DEF Queued, Working, Deleting, Active
<1>6. OneQueuedPerRepo'
  BY <1>1, <1>3, <1>5 DEF RowInv, OneQueuedPerRepo
<1>7. OneWorkerPerStore'
  BY <1>1, <1>2, <1>4, <1>5 DEF RowInv, OneWorkerPerStore
<1>8. DeletionIsExclusive'
  <2> SUFFICES ASSUME NEW j \in Jobs, NEW k \in Jobs, Deleting(j)', Active(k)',
                      k # j, jobs'[k].repo = jobs'[j].repo
               PROVE  Queued(j)' /\ Working(k)'
    BY DEF DeletionIsExclusive
  <2>1. Deleting(j) /\ Active(k) /\ jobs[k].repo = jobs[j].repo
    BY <1>1, <1>2, <1>3, <1>5 DEF Deleting, Active, ActiveStatuses, Queued
  <2>2. Queued(j) /\ Working(k)
    BY <2>1 DEF RowInv, DeletionIsExclusive
  <2>3. j # c
    BY <1>4, <2>1, <2>2
  <2>4. k # c
    BY <1>3, <2>2 DEF Queued, Working
  <2> QED BY <1>5, <2>2, <2>3, <2>4
<1> QED BY <1>1, <1>2, <1>3, <1>6, <1>7, <1>8 DEF RowInv

\* Giving a row back: failed, queued where no follow-up waits, or merged into the
\* follow-up and cancelled.
LEMMA FailOrRetryKeeps ==
  ASSUME TypeOK, RowInv, NEW c \in Jobs, Working(c), FailOrRetry(c)
  PROVE  /\ RowInv'
         /\ \A j \in Jobs : ~Queued(j) /\ j # c => jobs'[j] = jobs[j]
<1> DEFINE attempts == jobs[c].attempts + 1
           others == QueuedFor(jobs[c].repo) \ {c}
<1>0. jobs[c] \in Rows /\ attempts \in Nat /\ ~Queued(c) /\ Active(c)
  BY RowFacts DEF Working, Queued, Active, ActiveStatuses
<1>1. CASE /\ attempts >= MaxAttempts \/ others = {}
           /\ jobs' = [jobs EXCEPT ![c] = Retried(jobs[c], attempts)]
  <2> DEFINE row == Retried(jobs[c], attempts)
  <2>1. /\ row.repo = jobs[c].repo /\ row.mode = jobs[c].mode
        /\ row.status \in {"failed", "queued"}
        /\ attempts >= MaxAttempts => row.status = "failed"
    BY <1>0, RetriedFacts
  <2>2. jobs'[c] = row /\ \A j \in Jobs : j # c => jobs'[j] = jobs[j]
    BY <1>1 DEF TypeOK
  <2>3. jobs'[c].status = "queued" => \A j \in Jobs :
          Queued(j) => jobs[j].repo # jobs[c].repo
    BY <1>0, <1>1, <2>1, <2>2 DEF QueuedFor
  <2> HIDE DEF row, attempts, others
  <2>4. \A j \in Jobs : jobs'[j].repo = jobs[j].repo /\ jobs'[j].mode = jobs[j].mode
    BY <2>1, <2>2
  <2>5. \A j \in Jobs : /\ Working(j)' => j # c /\ Working(j)
                        /\ Active(j)' => Active(j)
                        /\ j # c => (Queued(j)' <=> Queued(j))
                        /\ j # c => (Working(j)' <=> Working(j))
    BY <1>0, <2>1, <2>2 DEF Working, Active, Queued
  <2>6. OneQueuedPerRepo'
    BY <2>2, <2>3, <2>4, <2>5 DEF RowInv, OneQueuedPerRepo, Queued
  <2>7. OneWorkerPerStore'
    BY <2>4, <2>5 DEF RowInv, OneWorkerPerStore
  <2>8. DeletionIsExclusive'
    <3> SUFFICES ASSUME NEW j \in Jobs, NEW k \in Jobs, Deleting(j)', Active(k)',
                        k # j, jobs'[k].repo = jobs'[j].repo
                 PROVE  Queued(j)' /\ Working(k)'
      BY DEF DeletionIsExclusive
    <3>1. Deleting(j) /\ Active(k) /\ jobs[k].repo = jobs[j].repo
      BY <2>4, <2>5 DEF Deleting
    <3>2. Queued(j) /\ Working(k)
      BY <3>1 DEF RowInv, DeletionIsExclusive
    <3>3. j # c
      BY <1>0, <3>2
    <3>4. k # c
      BY <2>1, <2>2, <2>3, <3>1, <3>2 DEF Active, ActiveStatuses
    <3> QED BY <2>5, <3>2, <3>3, <3>4
  <2> QED BY <2>2, <2>6, <2>7, <2>8 DEF RowInv
<1>2. CASE \E q \in others :
             jobs' = [jobs EXCEPT
               ![q] = MergeInto(@, jobs[c].mode, jobs[c].payload),
               ![c] = [Settled(@, "cancelled") EXCEPT !.attempts = attempts]]
  <2>1. PICK q \in others :
             jobs' = [jobs EXCEPT
               ![q] = MergeInto(@, jobs[c].mode, jobs[c].payload),
               ![c] = [Settled(@, "cancelled") EXCEPT !.attempts = attempts]]
    BY <1>2
  <2>2. q \in Jobs /\ q # c /\ jobs[q] \in Rows /\ Queued(q) /\ jobs[q].repo = jobs[c].repo
    BY <2>1, RowFacts DEF QueuedFor
  <2>3. Settled(jobs[c], "cancelled") \in Rows /\
        Settled(jobs[c], "cancelled").repo = jobs[c].repo /\
        Settled(jobs[c], "cancelled").status = "cancelled"
    BY <1>0, SettledFacts DEF Statuses
  <2>4. jobs[c].mode \in Modes /\ jobs[c].payload \in Payloads
        /\ jobs[q].mode \in Modes
    BY <2>2, RowFacts
  <2>5. /\ jobs'[q] = MergeInto(jobs[q], jobs[c].mode, jobs[c].payload)
        /\ jobs'[c] = [Settled(jobs[c], "cancelled") EXCEPT !.attempts = attempts]
        /\ \A j \in Jobs : j # c /\ j # q => jobs'[j] = jobs[j]
    BY <2>1, <2>2 DEF TypeOK
  <2> HIDE DEF attempts, others
  <2>6. jobs'[c].repo = jobs[c].repo /\ jobs'[c].status = "cancelled"
    BY <2>3, <2>5 DEF Rows
  <2>7. /\ jobs'[q].repo = jobs[q].repo /\ jobs'[q].status = "queued"
        /\ jobs'[q].mode \in {jobs[q].mode, jobs[c].mode}
    BY <2>2, <2>4, <2>5, MergeIntoFacts, MergedModeType DEF Queued
  <2>8. ~Deleting(c)
    BY <1>0, <2>2 DEF RowInv, DeletionIsExclusive, Queued, Deleting, Active, ActiveStatuses
  <2>9. jobs'[q].mode = "drop_index" => jobs[q].mode = "drop_index"
    BY <1>0, <2>7, <2>8 DEF Deleting
  <2>10. \A j \in Jobs : jobs'[j].repo = jobs[j].repo
    BY <2>5, <2>6, <2>7
  <2>11. \A j \in Jobs : /\ Working(j)' => j # c /\ Working(j)
                         /\ Queued(j)' => j # c /\ Queued(j)
                         /\ Active(j)' => j # c /\ Active(j)
                         /\ j # c => (Queued(j)' <=> Queued(j))
                         /\ j # c => (Working(j)' <=> Working(j))
                         /\ Deleting(j)' => Deleting(j)
    BY <2>2, <2>5, <2>6, <2>7, <2>9
    DEF Working, Active, ActiveStatuses, Queued, Deleting
  <2>12. OneQueuedPerRepo'
    BY <2>10, <2>11 DEF RowInv, OneQueuedPerRepo
  <2>13. OneWorkerPerStore'
    BY <2>10, <2>11 DEF RowInv, OneWorkerPerStore
  <2>14. DeletionIsExclusive'
    <3> SUFFICES ASSUME NEW j \in Jobs, NEW k \in Jobs, Deleting(j)', Active(k)',
                        k # j, jobs'[k].repo = jobs'[j].repo
                 PROVE  Queued(j)' /\ Working(k)'
      BY DEF DeletionIsExclusive
    <3>1. /\ Deleting(j) /\ Active(k) /\ jobs[k].repo = jobs[j].repo
          /\ j # c /\ k # c
      BY <2>10, <2>11 DEF Deleting
    <3>2. Queued(j) /\ Working(k)
      BY <3>1 DEF RowInv, DeletionIsExclusive
    <3> QED BY <2>11, <3>1, <3>2
  <2> QED BY <2>2, <2>5, <2>12, <2>13, <2>14 DEF RowInv
<1> QED BY <1>1, <1>2 DEF FailOrRetry

\* Recovery: two stale rows never share a repository, a stale row goes back to
\* the queue only where nothing waits, and it hands its mode only to the row
\* that waits there.
LEMMA ReclaimKeeps ==
  ASSUME TypeOK, RowInv, NEW o, jobs' = Reclaimed(o)
  PROVE  /\ RowInv'
         /\ \A j \in Jobs : jobs[j].status = "absent" => jobs'[j] = jobs[j]
<1>1. \A j \in Jobs : jobs'[j].repo = jobs[j].repo
  BY ReclaimedFacts
<1>2. \A j \in Jobs : Stale(j, o) => Working(j) /\ Active(j) /\ ~Queued(j)
  BY DEF Stale, Working, Queued, Active, ActiveStatuses
<1>3. \A j \in Jobs : Stale(j, o) /\ QueuedFor(jobs[j].repo) # {} =>
        ~Active(j)' /\ ~Queued(j)' /\ ~Working(j)'
  BY ReclaimedFacts DEF Active, ActiveStatuses, Queued, Working
<1>4. \A j \in Jobs : Stale(j, o) /\ QueuedFor(jobs[j].repo) = {} =>
        ~Working(j)' /\ jobs'[j].mode = jobs[j].mode
  BY ReclaimedFacts DEF Working
<1>5. \A j \in Jobs : ~Stale(j, o) => /\ Active(j)' <=> Active(j)
                                      /\ Queued(j)' <=> Queued(j)
                                      /\ Working(j)' <=> Working(j)
  BY ReclaimedFacts DEF Active, Queued, Working
<1>6. \A j \in Jobs : Active(j)' => Active(j)
  BY <1>2, <1>5
<1>7. \A j, k \in Jobs : Queued(k) /\ jobs[k].repo = jobs[j].repo =>
        QueuedFor(jobs[j].repo) # {}
  BY DEF QueuedFor
<1>8. \A j, k \in Jobs : Stale(j, o) /\ Stale(k, o) /\ jobs[j].repo = jobs[k].repo
        => j = k
  BY <1>2 DEF RowInv, OneWorkerPerStore
<1>9. OneQueuedPerRepo'
  <2> SUFFICES ASSUME NEW j \in Jobs, NEW k \in Jobs, Queued(j)', Queued(k)',
                      jobs'[j].repo = jobs'[k].repo
               PROVE  j = k
    BY DEF OneQueuedPerRepo
  <2>1. jobs[j].repo = jobs[k].repo
    BY <1>1
  <2>2. CASE Stale(j, o) /\ Stale(k, o)
    BY <1>8, <2>1, <2>2
  <2>3. CASE Stale(j, o) /\ ~Stale(k, o)
    BY <1>3, <1>5, <1>7, <2>1, <2>3
  <2>4. CASE ~Stale(j, o) /\ Stale(k, o)
    BY <1>3, <1>5, <1>7, <2>1, <2>4
  <2>5. CASE ~Stale(j, o) /\ ~Stale(k, o)
    BY <1>5, <2>1, <2>5 DEF RowInv, OneQueuedPerRepo
  <2> QED BY <2>2, <2>3, <2>4, <2>5
<1>10. OneWorkerPerStore'
  <2>1. \A j \in Jobs : Working(j)' => Working(j)
    BY <1>2, <1>5
  <2> QED BY <1>1, <2>1 DEF RowInv, OneWorkerPerStore
<1>11. DeletionIsExclusive'
  <2> SUFFICES ASSUME NEW j \in Jobs, NEW k \in Jobs, Deleting(j)', Active(k)',
                      k # j, jobs'[k].repo = jobs'[j].repo
               PROVE  Queued(j)' /\ Working(k)'
    BY DEF DeletionIsExclusive
  <2>1. /\ Active(j)' /\ jobs'[j].mode = "drop_index"
        /\ Active(j) /\ Active(k) /\ jobs[k].repo = jobs[j].repo
    BY <1>1, <1>6 DEF Deleting
  <2>2. jobs[j].mode = "drop_index"
    <3> SUFFICES ASSUME jobs'[j].mode # jobs[j].mode PROVE FALSE
      BY <2>1
    <3>1. ~Stale(j, o)
      BY <1>3, <1>4, <2>1
    <3>2. /\ Queued(j)
          /\ \E i \in Jobs : /\ Stale(i, o) /\ jobs[i].repo = jobs[j].repo
                             /\ jobs'[j].mode = jobs[i].mode
      BY <3>1, ReclaimedFacts
    <3>3. PICK i \in Jobs : /\ Stale(i, o) /\ jobs[i].repo = jobs[j].repo
                            /\ jobs'[j].mode = jobs[i].mode
      BY <3>2
    <3>4. Deleting(i) /\ ~Queued(i) /\ i # j
      BY <1>2, <2>1, <3>2, <3>3 DEF Deleting
    <3> QED BY <2>1, <3>3, <3>4 DEF RowInv, DeletionIsExclusive
  <2>3. Queued(j) /\ Working(k)
    BY <2>1, <2>2 DEF RowInv, DeletionIsExclusive, Deleting
  <2>4. ~Stale(j, o) /\ ~Stale(k, o)
    BY <1>2, <1>3, <1>7, <2>1, <2>3
  <2> QED BY <1>5, <2>3, <2>4
<1>12. \A j \in Jobs : jobs[j].status = "absent" => jobs'[j] = jobs[j]
  BY ReclaimedFacts DEF Stale, Working, Queued
<1> QED BY <1>9, <1>10, <1>11, <1>12 DEF RowInv

\* A row that stays exactly as it is, and stays held by a live worker, stays leased.
LEMMA HeldKept ==
  ASSUME HeldRowsStayLeased, alive' = alive, boot' = boot,
         \A j \in held' : \/ /\ Working(j)' /\ jobs'[j].owner = boot /\ alive
                          \/ j \in held /\ jobs'[j] = jobs[j]
  PROVE  HeldRowsStayLeased'
  BY DEF HeldRowsStayLeased, Working

\* Every step of the queue keeps the whole inductive invariant.
LEMMA InvStep == IInv /\ [Next]_vars => IInv'
<1> SUFFICES ASSUME IInv, [Next]_vars PROVE IInv'
  OBVIOUS
<1>t. TypeOK /\ TypeOK' /\ RowInv /\ Fresh /\ HeldRowsStayLeased
  BY TypeStep DEF IInv, RowInv
<1>h. \A j \in held : /\ j \in Jobs /\ Working(j) /\ ~Queued(j) /\ Active(j)
                      /\ jobs[j].status # "absent"
  BY <1>t DEF HeldRowsStayLeased, TypeOK, Working, Queued, Active, ActiveStatuses
<1>g. SUFFICES RowInv' /\ Fresh' /\ HeldRowsStayLeased'
  BY <1>t DEF IInv, RowInv
<1>1. ASSUME NEW r \in Repos, NEW mode \in Modes, NEW paths \in SUBSET Paths,
             EnqueueMerge(r, mode, paths)
      PROVE  RowInv' /\ Fresh' /\ HeldRowsStayLeased'
  <2>1. /\ RowInv'
        /\ \A j \in Jobs : /\ jobs'[j].status = jobs[j].status
                           /\ jobs'[j].owner = jobs[j].owner
    BY <1>t, <1>1, EnqueueMergeKeeps
  <2> QED BY <1>t, <1>h, <1>1, <2>1 DEF EnqueueMerge, Fresh, HeldRowsStayLeased, Working
<1>2. ASSUME NEW r \in Repos, NEW g \in Generations, NEW mode \in Modes,
             NEW paths \in SUBSET Paths, EnqueueInsert(r, g, mode, paths)
      PROVE  RowInv' /\ Fresh' /\ HeldRowsStayLeased'
  <2>1. /\ RowInv' /\ nextId \in Jobs /\ nextId' = nextId + 1
        /\ \A j \in Jobs : j # nextId => jobs'[j] = jobs[j]
        /\ jobs[nextId].status = "absent"
    BY <1>t, <1>2, EnqueueInsertKeeps
  <2>2. Fresh'
    <3> SUFFICES ASSUME NEW j \in Jobs, j >= nextId + 1
                 PROVE  jobs'[j].status = "absent"
      BY <2>1 DEF Fresh
    <3>1. j # nextId /\ j >= nextId
      BY <1>t, <2>1 DEF Jobs
    <3> QED BY <1>t, <2>1, <3>1 DEF Fresh
  <2>3. HeldRowsStayLeased'
    BY <1>t, <1>h, <1>2, <2>1, HeldKept DEF EnqueueInsert
  <2> QED BY <2>1, <2>2, <2>3
<1>3. ASSUME NEW c \in Jobs, ClaimNext(c)
      PROVE  RowInv' /\ Fresh' /\ HeldRowsStayLeased'
  <2>1. /\ RowInv' /\ Queued(c) /\ Working(c)' /\ jobs'[c].owner = boot
        /\ \A j \in Jobs : j # c => jobs'[j] = jobs[j]
    BY <1>t, <1>3, ClaimNextKeeps
  <2>2. Fresh'
    BY <1>t, <1>3, <2>1 DEF Fresh, ClaimNext, Queued
  <2>3. HeldRowsStayLeased'
    BY <1>t, <1>h, <1>3, <2>1, HeldKept DEF ClaimNext
  <2> QED BY <2>1, <2>2, <2>3
<1>4. ASSUME NEW c \in Jobs, Heartbeat(c) \/ LeaseExpires(c)
                 \/ (\E targets \in SUBSET Paths : InstallForceFullSnapshot(c, targets))
                 \/ (\E paths \in SUBSET Paths :
                       AcknowledgeForceFullSnapshotFiles(c, paths))
      PROVE  RowInv' /\ Fresh' /\ HeldRowsStayLeased'
  <2>1. /\ \A j \in Jobs : j # c => jobs'[j] = jobs[j]
        /\ jobs'[c].repo = jobs[c].repo /\ jobs'[c].mode = jobs[c].mode
        /\ jobs'[c].status = jobs[c].status
        /\ jobs'[c].owner = jobs[c].owner \/ (jobs'[c].owner = boot /\ c \in held)
        /\ Working(c) \/ c \in held
        /\ UNCHANGED <<nextId, boot, alive, held>>
    <3>0. jobs[c] \in Rows
      BY <1>t, RowFacts
    <3>1. CASE Heartbeat(c) \/ LeaseExpires(c)
      BY <1>t, <3>0, <3>1 DEF Heartbeat, LeaseExpires, TypeOK, Rows
    <3>2. CASE \E targets \in SUBSET Paths : InstallForceFullSnapshot(c, targets)
      <4>1. PICK targets \in SUBSET Paths : InstallForceFullSnapshot(c, targets)
        BY <3>2
      <4> DEFINE payload == [jobs[c].payload EXCEPT !.frozen = TRUE, !.targets = targets,
                                                    !.acked = {}]
      <4>2. jobs' = [jobs EXCEPT ![c] = [jobs[c] EXCEPT !.payload = payload]]
        BY <4>1 DEF InstallForceFullSnapshot
      <4> HIDE DEF payload
      <4> QED BY <1>t, <3>0, <4>1, <4>2 DEF InstallForceFullSnapshot, TypeOK, Rows
    <3>3. CASE \E paths \in SUBSET Paths : AcknowledgeForceFullSnapshotFiles(c, paths)
      <4>1. PICK paths \in SUBSET Paths : AcknowledgeForceFullSnapshotFiles(c, paths)
        BY <3>3
      <4> DEFINE payload == [jobs[c].payload EXCEPT
                               !.acked = jobs[c].payload.acked \cup paths]
      <4>2. jobs' = [jobs EXCEPT ![c] = [jobs[c] EXCEPT !.payload = payload]]
        BY <4>1 DEF AcknowledgeForceFullSnapshotFiles
      <4> HIDE DEF payload
      <4> QED BY <1>t, <3>0, <4>1, <4>2 DEF AcknowledgeForceFullSnapshotFiles, TypeOK, Rows
    <3> QED BY <1>4, <3>1, <3>2, <3>3
  <2>2. RowInv'
    <3>1. \A j \in Jobs : /\ jobs'[j].repo = jobs[j].repo
                          /\ jobs'[j].mode = jobs[j].mode
                          /\ jobs'[j].status = jobs[j].status
      BY <2>1
    <3> QED BY <1>t, <3>1, ShrinkKeeps DEF Queued, Working, Active
  <2>3. Fresh'
    BY <1>t, <2>1 DEF Fresh
  <2>4. HeldRowsStayLeased'
    BY <1>t, <1>h, <2>1 DEF HeldRowsStayLeased, Working
  <2> QED BY <2>2, <2>3, <2>4
<1>5. ASSUME NEW c \in Jobs, Complete(c) \/ MarkCancelled(c)
      PROVE  RowInv' /\ Fresh' /\ HeldRowsStayLeased'
  <2>0. jobs[c] \in Rows /\ c \in held /\ {"cancelled", "completed"} \subseteq Statuses
    BY <1>t, <1>5, RowFacts DEF Complete, MarkCancelled, Statuses
  <2>1. \/ jobs' = [jobs EXCEPT ![c] = Settled(jobs[c], "cancelled")]
        \/ jobs' = [jobs EXCEPT ![c] = Settled(jobs[c], "completed")]
    BY <1>5 DEF Complete, MarkCancelled
  <2>2. /\ \A j \in Jobs : j # c => jobs'[j] = jobs[j]
        /\ jobs'[c].repo = jobs[c].repo /\ jobs'[c].status \in {"cancelled", "completed"}
    BY <1>t, <2>0, <2>1, SettledFacts DEF TypeOK
  <2>3. held' = held \ {c} /\ UNCHANGED <<nextId, boot, alive>>
    BY <1>5 DEF Complete, MarkCancelled
  <2>4. ~Queued(c)' /\ ~Working(c)' /\ ~Active(c)'
    BY <2>2 DEF Queued, Working, Active, ActiveStatuses
  <2>5. RowInv'
    BY <1>t, <2>2, <2>4, ShrinkKeeps DEF Queued, Working, Active
  <2>6. Fresh'
    BY <1>t, <1>h, <2>0, <2>2, <2>3 DEF Fresh
  <2>7. HeldRowsStayLeased'
    BY <1>t, <1>h, <2>2, <2>3, HeldKept
  <2> QED BY <2>5, <2>6, <2>7
<1>6. ASSUME NEW c \in Jobs, FailOrRetry(c)
      PROVE  RowInv' /\ Fresh' /\ HeldRowsStayLeased'
  <2>0. c \in held /\ held' = held \ {c} /\ UNCHANGED <<nextId, boot, alive>>
    BY <1>6 DEF FailOrRetry
  <2>1. /\ RowInv'
        /\ \A j \in Jobs : ~Queued(j) /\ j # c => jobs'[j] = jobs[j]
    BY <1>t, <1>h, <1>6, <2>0, FailOrRetryKeeps
  <2>2. Fresh'
    BY <1>t, <1>h, <2>0, <2>1 DEF Fresh, Queued
  <2>3. HeldRowsStayLeased'
    BY <1>t, <1>h, <2>0, <2>1, HeldKept
  <2> QED BY <2>1, <2>2, <2>3
<1>7. ASSUME RequestCancelAll \/ \E c \in Jobs : RequestCancel(c)
      PROVE  RowInv' /\ Fresh' /\ HeldRowsStayLeased'
  <2>1. \A j \in Jobs : jobs'[j] = jobs[j] \/ jobs'[j] = CancelRequested(jobs[j])
    BY <1>t, <1>7 DEF RequestCancelAll, RequestCancel, TypeOK
  <2>2. UNCHANGED <<nextId, boot, alive, held>>
    BY <1>7 DEF RequestCancelAll, RequestCancel
  <2>3. \A j \in Jobs : /\ jobs'[j].repo = jobs[j].repo /\ jobs'[j].mode = jobs[j].mode
                        /\ Queued(j)' => Queued(j)
                        /\ Working(j)' <=> Working(j)
                        /\ ~Queued(j) => jobs'[j].owner = jobs[j].owner
                        /\ jobs[j].status = "absent" => jobs'[j].status = "absent"
    <3> SUFFICES ASSUME NEW j \in Jobs
                 PROVE  /\ jobs'[j].repo = jobs[j].repo /\ jobs'[j].mode = jobs[j].mode
                        /\ Queued(j)' => Queued(j)
                        /\ Working(j)' <=> Working(j)
                        /\ ~Queued(j) => jobs'[j].owner = jobs[j].owner
                        /\ jobs[j].status = "absent" => jobs'[j].status = "absent"
      OBVIOUS
    <3>1. jobs[j] \in Rows
      BY <1>t, RowFacts
    <3> QED BY <2>1, <3>1, CancelRequestedFacts DEF Queued, Working
  <2>4. RowInv'
    BY <1>t, <2>3, ShrinkKeeps
  <2>5. Fresh'
    BY <1>t, <2>2, <2>3 DEF Fresh
  <2>6. HeldRowsStayLeased'
    BY <1>t, <1>h, <2>2, <2>3 DEF HeldRowsStayLeased
  <2> QED BY <2>4, <2>5, <2>6
<1>8. CASE StartRunner
  <2>1. /\ RowInv'
        /\ \A j \in Jobs : jobs[j].status = "absent" => jobs'[j] = jobs[j]
    BY <1>t, <1>8, ReclaimKeeps DEF StartRunner
  <2> QED BY <1>t, <1>8, <2>1 DEF StartRunner, Fresh, HeldRowsStayLeased
<1>9. CASE Crash \/ UNCHANGED vars
  <2>1. jobs' = jobs /\ nextId' = nextId /\ (held' = {} \/ UNCHANGED vars)
    BY <1>9 DEF Crash, vars
  <2>2. RowInv'
    BY <1>t, <2>1, ShrinkKeeps DEF Queued, Working, Active
  <2> QED BY <1>t, <2>1, <2>2 DEF Fresh, HeldRowsStayLeased, vars, Working
<1>10. CASE Enqueue
  BY <1>1, <1>2, <1>10 DEF Enqueue
<1>11. ASSUME NEW j \in Jobs, RowStep(j)
       PROVE  RowInv' /\ Fresh' /\ HeldRowsStayLeased'
  BY <1>3, <1>4, <1>5, <1>6, <1>7, <1>11 DEF RowStep, Finish
<1> QED BY <1>7, <1>8, <1>9, <1>10, <1>11 DEF Next

\* The inductive invariant holds in every reachable state.
THEOREM InvCorrect == Spec => []IInv
<1>1. Init => IInv
  <2>1. Init => TypeOK
    BY InitType
  <2>2. Init => \A j \in Jobs : jobs[j].status = "absent"
    BY DEF Init, Absent
  <2>3. Init => held = {}
    BY DEF Init
  <2> QED BY <2>1, <2>2, <2>3
          DEF IInv, Fresh, OneQueuedPerRepo, OneWorkerPerStore, DeletionIsExclusive,
              HeldRowsStayLeased, Queued, Working, Deleting, Active, ActiveStatuses
<1> QED BY <1>1, InvStep, PTL DEF Spec

\* The unique index on queued rows is never hit, however retries, recovery and
\* requests interleave.
THEOREM QueueIsUnique == Spec => []OneQueuedPerRepo
<1>1. IInv => OneQueuedPerRepo
  BY DEF IInv
<1> QED BY <1>1, InvCorrect, PTL

\* One worker per store, for any number of workers and through every crash.
THEOREM StoreIsExclusive == Spec => []OneWorkerPerStore
<1>1. IInv => OneWorkerPerStore
  BY DEF IInv
<1> QED BY <1>1, InvCorrect, PTL

\* An active deletion shares its repository only with the job it waits for.
THEOREM DeletionExclusion == Spec => []DeletionIsExclusive
<1>1. IInv => DeletionIsExclusive
  BY DEF IInv
<1> QED BY <1>1, InvCorrect, PTL

\* A worker never loses the row it works on.
THEOREM LeaseStability == Spec => []HeldRowsStayLeased
<1>1. IInv => HeldRowsStayLeased
  BY DEF IInv
<1> QED BY <1>1, InvCorrect, PTL

\* No step of the queue touches a finished row: complete, mark_cancelled and
\* fail_or_retry only meet working rows (HeldRowsStayLeased), the rest queued or
\* working ones.
LEMMA TerminalStep ==
  IInv /\ [Next]_vars => \A j \in Jobs : Terminal(j) => jobs'[j] = jobs[j]
<1> SUFFICES ASSUME IInv, [Next]_vars, NEW j \in Jobs, Terminal(j)
             PROVE  jobs'[j] = jobs[j]
  OBVIOUS
<1>t. TypeOK /\ Fresh /\ RowInv
  BY DEF IInv, RowInv
<1>j. ~Queued(j) /\ ~Working(j) /\ ~Active(j) /\ j \notin held
  BY DEF Terminal, Queued, Working, Active, ActiveStatuses, IInv, HeldRowsStayLeased
<1>1. CASE Enqueue
  <2>1. CASE \E r \in Repos, mode \in Modes, paths \in SUBSET Paths :
               EnqueueMerge(r, mode, paths)
    BY <1>t, <1>j, <2>1 DEF EnqueueMerge, QueuedFor, TypeOK
  <2>2. CASE \E r \in Repos, mode \in Modes, paths \in SUBSET Paths, g \in Generations :
               EnqueueInsert(r, g, mode, paths)
    <3>1. jobs[j].status # "absent"
      BY DEF Terminal
    <3>2. j # nextId
      BY <1>t, <3>1 DEF Fresh, Jobs
    <3> QED BY <1>t, <2>2, <3>2 DEF EnqueueInsert, TypeOK
  <2> QED BY <1>1, <2>1, <2>2 DEF Enqueue
<1>2. ASSUME NEW c \in Jobs, RowStep(c) PROVE jobs'[j] = jobs[j]
  <2>1. CASE c = j
    BY <1>2, <1>j, <2>1
    DEF RowStep, Finish, ClaimNext, Claimable, Heartbeat, LeaseExpires, RequestCancel,
        InstallForceFullSnapshot, AcknowledgeForceFullSnapshotFiles, Complete,
        MarkCancelled, FailOrRetry
  <2>2. CASE c # j /\ ~FailOrRetry(c)
    BY <1>2, <1>t, <2>2
    DEF RowStep, Finish, ClaimNext, Heartbeat, LeaseExpires, RequestCancel,
        InstallForceFullSnapshot, AcknowledgeForceFullSnapshotFiles, Complete,
        MarkCancelled, TypeOK
  <2>3. CASE c # j /\ FailOrRetry(c)
    <3>1. Working(c)
      BY <2>3 DEF FailOrRetry, IInv, HeldRowsStayLeased
    <3> QED BY <1>t, <1>j, <2>3, <3>1, FailOrRetryKeeps
  <2> QED BY <2>1, <2>2, <2>3
<1>3. CASE RequestCancelAll
  BY <1>3, <1>t, <1>j, RowFacts, CancelRequestedFacts
  DEF RequestCancelAll, Queued, Working
<1>4. CASE StartRunner
  <2>1. ~Stale(j, boot + 1)
    BY <1>j DEF Stale
  <2> QED BY <1>4, <1>t, <1>j, <2>1, ReclaimedFacts DEF StartRunner
<1>5. CASE Crash \/ UNCHANGED vars
  BY <1>5 DEF Crash, vars
<1> QED BY <1>1, <1>2, <1>3, <1>4, <1>5 DEF Next

\* A finished row is final, although no UPDATE of a finishing call looks at the
\* status it overwrites.
THEOREM FinishedRowsAreFinal == Spec => TerminalIsFinal
<1>1. IInv /\ [Next]_vars =>
        [\A j \in Jobs : Terminal(j) => jobs'[j] = jobs[j]]_vars
  BY TerminalStep
<1> QED BY <1>1, InvCorrect, PTL DEF Spec, TerminalIsFinal

\* What may become of an active deletion in one step.
Survives(j) ==
  \/ Deleting(j)'
  \/ jobs'[j].status \in {"completed", "failed"}
  \/ jobs[j].status = "cancelling" /\ jobs'[j].status = "cancelled"
  \/ RequestCancel(j)

\* The only queued row a working one can be merged into is of its repository,
\* and a working deletion has no such row; a waiting deletion outranks whatever
\* is merged into it.
LEMMA DeletionStep ==
  IInv /\ [Next]_vars => \A j \in Jobs : Deleting(j) => Survives(j)
<1> SUFFICES ASSUME IInv, [Next]_vars, NEW j \in Jobs, Deleting(j)
             PROVE  Survives(j)
  OBVIOUS
<1>t. TypeOK /\ Fresh /\ RowInv
  BY DEF IInv, RowInv
<1>j. /\ jobs[j] \in Rows /\ Active(j) /\ jobs[j].mode = "drop_index"
      /\ jobs[j].status # "absent"
  BY <1>t, RowFacts DEF Deleting, Active, ActiveStatuses
<1>x. \A k \in Jobs : Active(k) /\ k # j /\ jobs[k].repo = jobs[j].repo =>
        Queued(j) /\ Working(k)
  BY <1>t DEF RowInv, DeletionIsExclusive
<1>s. jobs'[j] = jobs[j] => Survives(j)
  BY DEF Survives, Deleting, Active
<1>m. jobs'[j].status = jobs[j].status /\ jobs'[j].mode = "drop_index" => Survives(j)
  BY <1>j DEF Survives, Deleting, Active
<1>1. CASE Enqueue
  <2>1. ASSUME NEW r \in Repos, NEW mode \in Modes, NEW paths \in SUBSET Paths,
               EnqueueMerge(r, mode, paths)
        PROVE  jobs'[j] = jobs[j]
    <3>1. jobs[j].repo # r
      BY <2>1 DEF EnqueueMerge, DeletionFor
    <3> QED BY <1>t, <2>1, <3>1 DEF EnqueueMerge, QueuedFor, TypeOK
  <2>2. ASSUME NEW r \in Repos, NEW g \in Generations, NEW mode \in Modes,
               NEW paths \in SUBSET Paths, EnqueueInsert(r, g, mode, paths)
        PROVE  jobs'[j] = jobs[j]
    <3>1. j # nextId
      BY <1>t, <1>j DEF Fresh, Jobs
    <3> QED BY <1>t, <2>2, <3>1 DEF EnqueueInsert, TypeOK
  <2> QED BY <1>1, <1>s, <2>1, <2>2 DEF Enqueue
<1>2. ASSUME NEW c \in Jobs, FailOrRetry(c) PROVE Survives(j)
  <2> DEFINE attempts == jobs[c].attempts + 1
             others == QueuedFor(jobs[c].repo) \ {c}
  <2>1. Working(c) /\ attempts \in Nat
    BY <1>t, <1>2, RowFacts DEF FailOrRetry, IInv, HeldRowsStayLeased
  <2>2. CASE c # j
    <3>1. CASE ~Queued(j)
      BY <1>t, <1>2, <1>s, <2>1, <2>2, <3>1, FailOrRetryKeeps
    <3>2. CASE jobs' = [jobs EXCEPT ![c] = Retried(@, attempts)]
      BY <1>t, <1>s, <2>2, <3>2 DEF TypeOK
    <3>3. CASE \E q \in others : jobs' = [jobs EXCEPT
                 ![q] = MergeInto(@, jobs[c].mode, jobs[c].payload),
                 ![c] = [Settled(@, "cancelled") EXCEPT !.attempts = attempts]]
      <4>1. PICK q \in others : jobs' = [jobs EXCEPT
                 ![q] = MergeInto(@, jobs[c].mode, jobs[c].payload),
                 ![c] = [Settled(@, "cancelled") EXCEPT !.attempts = attempts]]
        BY <3>3
      <4>2. CASE q # j
        BY <1>t, <1>s, <2>2, <4>1, <4>2 DEF TypeOK
      <4>3. CASE q = j
        <5>1. jobs'[j] = MergeInto(jobs[j], jobs[c].mode, jobs[c].payload)
          BY <1>t, <2>2, <4>1, <4>3 DEF TypeOK
        <5>2. jobs[c].mode \in Modes /\ jobs[c].payload \in Payloads
              /\ jobs[j].mode \in Modes
          BY <1>t, RowFacts
        <5>3. jobs'[j].status = jobs[j].status /\ jobs'[j].mode = "drop_index"
          BY <1>j, <5>1, <5>2, MergeIntoFacts, MergedModeType
        <5> QED BY <1>m, <5>3
      <4> QED BY <4>2, <4>3
    <3> QED BY <1>2, <3>1, <3>2, <3>3 DEF FailOrRetry
  <2>3. CASE c = j
    <3>1. others = {}
      BY <1>x, <2>1, <2>3
      DEF QueuedFor, Queued, Working, Active, ActiveStatuses
    <3>2. jobs' = [jobs EXCEPT ![j] = Retried(jobs[j], attempts)]
      BY <1>2, <2>3, <3>1 DEF FailOrRetry
    <3>3. /\ jobs'[j] = Retried(jobs[j], attempts)
          /\ Retried(jobs[j], attempts).mode = jobs[j].mode
          /\ Retried(jobs[j], attempts).status \in {"failed", "queued"}
      BY <1>t, <1>j, <2>1, <3>2, RetriedFacts DEF TypeOK
    <3> QED BY <1>j, <3>3 DEF Survives, Deleting, Active, ActiveStatuses
  <2> QED BY <2>2, <2>3
<1>3. ASSUME NEW c \in Jobs, ClaimNext(c) PROVE Survives(j)
  <2>1. CASE c # j
    BY <1>t, <1>3, <1>s, <2>1 DEF ClaimNext, TypeOK
  <2>2. CASE c = j
    <3>1. jobs'[j].status = "running" /\ jobs'[j].mode = jobs[j].mode
      BY <1>t, <1>3, <1>j, <2>2 DEF ClaimNext, TypeOK, Rows
    <3> QED BY <1>j, <3>1 DEF Survives, Deleting, Active, ActiveStatuses
  <2> QED BY <2>1, <2>2
<1>4. ASSUME NEW c \in Jobs, Heartbeat(c) \/ LeaseExpires(c) PROVE Survives(j)
  <2>1. jobs'[j].status = jobs[j].status /\ jobs'[j].mode = "drop_index"
    BY <1>t, <1>4, <1>j DEF Heartbeat, LeaseExpires, TypeOK, Rows
  <2> QED BY <1>m, <2>1
<1>5. ASSUME NEW c \in Jobs, NEW paths \in SUBSET Paths,
             \/ InstallForceFullSnapshot(c, paths)
             \/ AcknowledgeForceFullSnapshotFiles(c, paths)
      PROVE  Survives(j)
  <2>1. \E payload : jobs' = [jobs EXCEPT ![c] = [jobs[c] EXCEPT !.payload = payload]]
    BY <1>5 DEF InstallForceFullSnapshot, AcknowledgeForceFullSnapshotFiles
  <2>2. jobs'[j].status = jobs[j].status /\ jobs'[j].mode = "drop_index"
    BY <1>t, <1>j, <2>1 DEF TypeOK, Rows
  <2> QED BY <1>m, <2>2
<1>6. ASSUME NEW c \in Jobs, Complete(c) \/ MarkCancelled(c) PROVE Survives(j)
  <2>1. CASE c # j
    BY <1>t, <1>6, <1>s, <2>1 DEF Complete, MarkCancelled, TypeOK
  <2>2. CASE c = j
    <3>1. {"cancelled", "completed"} \subseteq Statuses
      BY DEF Statuses
    <3>2. \/ jobs'[j] = Settled(jobs[j], "completed")
          \/ jobs[j].status = "cancelling" /\ jobs'[j] = Settled(jobs[j], "cancelled")
      BY <1>t, <1>6, <2>2 DEF Complete, MarkCancelled, TypeOK
    <3> QED BY <1>j, <3>1, <3>2, SettledFacts DEF Survives
  <2> QED BY <2>1, <2>2
<1>7. ASSUME NEW c \in Jobs, RequestCancel(c) PROVE Survives(j)
  BY <1>t, <1>7, <1>s DEF RequestCancel, Survives, TypeOK
<1>8. CASE RequestCancelAll
  BY <1>8, <1>s, <1>j DEF RequestCancelAll
<1>9. CASE StartRunner
  <2> DEFINE o == boot + 1
  <2>1. jobs' = Reclaimed(o)
    BY <1>9 DEF StartRunner
  <2>2. CASE ~Stale(j, o)
    BY <1>t, <1>j, <1>m, <2>1, <2>2, ReclaimedFacts
  <2>3. CASE Stale(j, o)
    <3>1. QueuedFor(jobs[j].repo) = {}
      BY <1>x, <2>3 DEF QueuedFor, Stale, Working, Queued, Active, ActiveStatuses
    <3>2. jobs'[j].status \in {"failed", "queued"} /\ jobs'[j].mode = "drop_index"
      BY <1>t, <1>j, <2>1, <2>3, <3>1, ReclaimedFacts
    <3> QED BY <3>2 DEF Survives, Deleting, Active, ActiveStatuses
  <2> QED BY <2>2, <2>3
<1>10. CASE Crash \/ UNCHANGED vars
  BY <1>10, <1>s DEF Crash, vars
<1> QED BY <1>1, <1>2, <1>3, <1>4, <1>5, <1>6, <1>7, <1>8, <1>9, <1>10
        DEF Next, RowStep, Finish

\* An accepted deletion is never lost to merging, retry, recovery or cancel-all.
THEOREM AcceptedDeletionsSurvive == Spec => DeletionSurvives
<1>1. IInv /\ [Next]_vars =>
        [\A j \in Jobs : Deleting(j) =>
           \/ Deleting(j)'
           \/ jobs'[j].status \in {"completed", "failed"}
           \/ jobs[j].status = "cancelling" /\ jobs'[j].status = "cancelled"
           \/ RequestCancel(j)]_vars
  BY DeletionStep DEF Survives
<1> QED BY <1>1, InvCorrect, PTL DEF Spec, DeletionSurvives
-----------------------------------------------------------------------------
(***************************************************************************)
(* What becomes of the work of a row                                       *)
(***************************************************************************)
KeepsWork(j) ==
  /\ jobs'[j].repo = jobs[j].repo
  /\ jobs'[j].mode = jobs[j].mode
  /\ jobs'[j].payload = jobs[j].payload

Stays(j) == KeepsWork(j) /\ jobs'[j].status = jobs[j].status

\* enqueue inserts the row, or merges a request into it.
Appears(j) ==
  /\ jobs[j].status = "absent" /\ jobs'[j].status = "queued"
  /\ ~jobs'[j].payload.frozen

Absorbs(j, mode, payload) == Queued(j) /\ jobs'[j] = MergeInto(jobs[j], mode, payload)

TakesRequest(j) ==
  \E mode \in Modes, paths \in SUBSET Paths :
    /\ Absorbs(j, mode, RequestPayload(mode, paths))
    /\ EnqueueMerge(jobs[j].repo, mode, paths)

\* Retry or recovery merges the working row k into the queued row j.
TakesOver(j, k) ==
  /\ Working(k) /\ jobs[k].repo = jobs[j].repo /\ jobs'[k].status = "cancelled"
  /\ Absorbs(j, jobs[k].mode, jobs[k].payload)

MergedAway(j) ==
  /\ KeepsWork(j) /\ jobs'[j].status = "cancelled"
  /\ \E q \in Jobs : TakesOver(q, j)

Returns(j) == Working(j) /\ KeepsWork(j) /\ jobs'[j].status \in {"failed", "queued"}

Starts(j) == Queued(j) /\ Claimable(j) /\ KeepsWork(j) /\ jobs'[j].status = "running"

Ends(j) ==
  /\ Working(j) /\ KeepsWork(j)
  /\ \/ jobs'[j].status = "completed"
     \/ jobs[j].status = "cancelling" /\ jobs'[j].status = "cancelled"

Cancels(j) ==
  /\ KeepsWork(j)
  /\ \/ Queued(j) /\ jobs'[j].status = "cancelled"
     \/ jobs[j].status = "running" /\ jobs'[j].status = "cancelling"

\* install_force_full_snapshot and acknowledge_force_full_snapshot_files.
Records(j) ==
  /\ Working(j)
  /\ jobs'[j].repo = jobs[j].repo /\ jobs'[j].mode = jobs[j].mode
  /\ jobs'[j].status = jobs[j].status
  /\ jobs'[j].payload.paths = jobs[j].payload.paths
  /\ \/ jobs[j].mode = "force_full" /\ ~jobs[j].payload.frozen
     \/ /\ jobs[j].payload.frozen
        /\ jobs'[j].payload.targets = jobs[j].payload.targets
        /\ jobs[j].payload.acked \subseteq jobs'[j].payload.acked

Effect(j) ==
  \/ Stays(j) \/ Appears(j) \/ TakesRequest(j) \/ (\E k \in Jobs : TakesOver(j, k))
  \/ MergedAway(j) \/ Returns(j) \/ Starts(j) \/ Ends(j) \/ Cancels(j) \/ Records(j)

\* _settle and the retry keep the work of the row.
LEMMA SettledKeepsWork ==
  ASSUME NEW row \in Rows, NEW status, NEW attempts
  PROVE  /\ Settled(row, status).payload = row.payload
         /\ Settled(row, status).mode = row.mode
         /\ Settled(row, status).repo = row.repo
         /\ Settled(row, status).status = status
         /\ [Settled(row, status) EXCEPT !.attempts = attempts].payload = row.payload
         /\ [Settled(row, status) EXCEPT !.attempts = attempts].mode = row.mode
         /\ [Settled(row, status) EXCEPT !.attempts = attempts].repo = row.repo
         /\ [Settled(row, status) EXCEPT !.attempts = attempts].status = status
  BY DEF Settled, Rows

\* A row that is given back is failed or queued with the work it had.
LEMMA RetriedKeepsWork ==
  ASSUME NEW row \in Rows, NEW attempts \in Nat
  PROVE  /\ Retried(row, attempts).payload = row.payload
         /\ Retried(row, attempts).mode = row.mode
         /\ Retried(row, attempts).repo = row.repo
         /\ Retried(row, attempts).status \in {"failed", "queued"}
<1> DEFINE status == IF attempts >= MaxAttempts THEN "failed" ELSE "queued"
<1>1. Retried(row, attempts) = [Settled(row, status) EXCEPT !.attempts = attempts]
  BY DEF Retried
<1>2. status \in {"failed", "queued"}
  OBVIOUS
<1> HIDE DEF status
<1> QED BY <1>1, <1>2, SettledKeepsWork

\* fail_or_retry returns one row, or merges it into the one that waits.
LEMMA FailOrRetryEffect ==
  ASSUME IInv, NEW c \in Jobs, FailOrRetry(c), NEW j \in Jobs
  PROVE  Effect(j)
<1> DEFINE attempts == jobs[c].attempts + 1
           others == QueuedFor(jobs[c].repo) \ {c}
<1>t. TypeOK
  BY DEF IInv
<1>c. jobs[c] \in Rows /\ jobs[j] \in Rows /\ attempts \in Nat /\ Working(c)
  BY <1>t, RowFacts DEF FailOrRetry, IInv, HeldRowsStayLeased
<1>s. jobs'[j] = jobs[j] => Stays(j)
  BY DEF Stays, KeepsWork
<1>1. CASE jobs' = [jobs EXCEPT ![c] = Retried(jobs[c], attempts)]
  <2>1. CASE j # c
    BY <1>s, <1>t, <1>1, <2>1 DEF TypeOK, Effect
  <2>2. CASE j = c
    <3>1. jobs'[j] = Retried(jobs[j], attempts)
      BY <1>t, <1>1, <2>2 DEF TypeOK
    <3> HIDE DEF attempts
    <3> QED BY <1>c, <2>2, <3>1, RetriedKeepsWork DEF Effect, Returns, KeepsWork
  <2> QED BY <2>1, <2>2
<1>2. ASSUME NEW q \in others, jobs' = [jobs EXCEPT
                ![q] = MergeInto(@, jobs[c].mode, jobs[c].payload),
                ![c] = [Settled(@, "cancelled") EXCEPT !.attempts = attempts]]
      PROVE  Effect(j)
  <2>1. q \in Jobs /\ Queued(q) /\ jobs[q].repo = jobs[c].repo /\ q # c
    BY DEF QueuedFor
  <2>2. jobs'[q] = MergeInto(jobs[q], jobs[c].mode, jobs[c].payload)
    BY <1>t, <1>2, <2>1 DEF TypeOK
  <2>3. jobs'[c] = [Settled(jobs[c], "cancelled") EXCEPT !.attempts = attempts]
    BY <1>t, <1>2, <2>1 DEF TypeOK
  <2>4. TakesOver(q, c)
    BY <1>c, <2>1, <2>2, <2>3, SettledKeepsWork DEF TakesOver, Absorbs
  <2>5. MergedAway(c)
    BY <1>c, <2>1, <2>3, <2>4, SettledKeepsWork DEF MergedAway, KeepsWork
  <2>6. j \notin {q, c} => jobs'[j] = jobs[j]
    BY <1>t, <1>2 DEF TypeOK
  <2> QED BY <1>s, <2>4, <2>5, <2>6 DEF Effect
<1> QED BY <1>1, <1>2 DEF FailOrRetry

\* Recovery treats each stale row like a retry.
LEMMA ReclaimEffect ==
  ASSUME IInv, StartRunner, NEW j \in Jobs
  PROVE  Effect(j)
<1> DEFINE o == boot + 1
           k0(i) == CHOOSE k \in Jobs : Stale(k, o) /\ jobs[k].repo = jobs[i].repo
<1>t. TypeOK /\ OneWorkerPerStore
  BY DEF IInv
<1>r. \A i \in Jobs : jobs'[i] = Reclaimed(o)[i]
  BY DEF StartRunner
<1>j. jobs[j] \in Rows /\ jobs[j].attempts \in Nat /\ jobs[j].attempts + 1 \in Nat
  BY <1>t, RowFacts
<1>w. \A i \in Jobs : Stale(i, o) => Working(i) /\ ~Queued(i)
  BY DEF Stale, Working, Queued
<1>m. ASSUME NEW q \in Jobs, Queued(q), NEW i \in Jobs, Stale(i, o), jobs[i].repo = jobs[q].repo
      PROVE  \E k \in Jobs : /\ TakesOver(q, k) /\ Stale(k, o)
                             /\ jobs[k].repo = jobs[q].repo
  <2>1. k0(q) \in Jobs /\ Stale(k0(q), o) /\ jobs[k0(q)].repo = jobs[q].repo
    BY <1>m
  <2>2. Reclaimed(o)[q] = MergeInto(jobs[q], jobs[k0(q)].mode, jobs[k0(q)].payload)
    BY <1>w, <1>m DEF Reclaimed
  <2> HIDE DEF k0
  <2>3. Reclaimed(o)[k0(q)] = Settled(jobs[k0(q)], "cancelled")
    <3>1. QueuedFor(jobs[k0(q)].repo) # {}
      BY <1>m, <2>1 DEF QueuedFor
    <3>2. ~Queued(k0(q))
      BY <1>w, <2>1
    <3> QED BY <2>1, <3>1, <3>2 DEF Reclaimed
  <2>4. jobs'[k0(q)].status = "cancelled"
    BY <1>t, <1>r, <2>1, <2>3, RowFacts, SettledKeepsWork
  <2> QED BY <1>m, <1>r, <1>w, <2>1, <2>2, <2>4 DEF TakesOver, Absorbs
<1> HIDE DEF o
<1>1. CASE Stale(j, o) /\ QueuedFor(jobs[j].repo) # {}
  <2>1. PICK q \in Jobs : Queued(q) /\ jobs[q].repo = jobs[j].repo
    BY <1>1 DEF QueuedFor
  <2>2. PICK k \in Jobs : TakesOver(q, k) /\ Stale(k, o) /\ jobs[k].repo = jobs[q].repo
    BY <1>1, <1>m, <2>1
  <2>3. k = j
    BY <1>t, <1>1, <1>w, <2>1, <2>2 DEF OneWorkerPerStore
  <2>4. jobs'[j] = Settled(jobs[j], "cancelled")
    BY <1>1, <1>r, <1>w DEF Reclaimed
  <2> QED BY <1>j, <2>2, <2>3, <2>4, SettledKeepsWork DEF Effect, MergedAway, KeepsWork
<1>2. CASE Stale(j, o) /\ QueuedFor(jobs[j].repo) = {}
  <2> DEFINE attempts == IF jobs[j].owner # o THEN jobs[j].attempts ELSE jobs[j].attempts + 1
  <2>1. jobs'[j] = Retried(jobs[j], attempts) /\ attempts \in Nat
    BY <1>2, <1>j, <1>r, <1>w DEF Reclaimed
  <2> HIDE DEF attempts
  <2> QED BY <1>2, <1>j, <1>w, <2>1, RetriedKeepsWork DEF Effect, Returns, KeepsWork
<1>3. CASE Queued(j) /\ \E k \in Jobs : Stale(k, o) /\ jobs[k].repo = jobs[j].repo
  BY <1>3, <1>m DEF Effect
<1>4. CASE /\ ~Stale(j, o)
           /\ ~(Queued(j) /\ \E k \in Jobs : Stale(k, o) /\ jobs[k].repo = jobs[j].repo)
  <2>1. jobs'[j] = jobs[j]
    BY <1>4, <1>r DEF Reclaimed
  <2> QED BY <2>1 DEF Effect, Stays, KeepsWork
<1> QED BY <1>1, <1>2, <1>3, <1>4

\* Ten things can happen to a row in a step, and no other.
LEMMA Effects ==
  ASSUME IInv, [Next]_vars, NEW j \in Jobs
  PROVE  Effect(j)
<1>t. TypeOK
  BY DEF IInv
<1>j. jobs[j] \in Rows /\ jobs[j].payload \in Payloads
  BY <1>t, RowFacts
<1>s. jobs'[j] = jobs[j] => Effect(j)
  BY DEF Effect, Stays, KeepsWork
<1>1. ASSUME NEW r \in Repos, NEW mode \in Modes, NEW paths \in SUBSET Paths,
             EnqueueMerge(r, mode, paths)
      PROVE  Effect(j)
  <2>1. PICK q \in Jobs :
          /\ Queued(q) /\ jobs[q].repo = r
          /\ jobs' = [jobs EXCEPT ![q] = MergeInto(@, mode, RequestPayload(mode, paths))]
    BY <1>1 DEF EnqueueMerge, QueuedFor
  <2>2. CASE q # j
    BY <1>s, <1>t, <2>1, <2>2 DEF TypeOK
  <2>3. CASE q = j
    <3>1. jobs'[j] = MergeInto(jobs[j], mode, RequestPayload(mode, paths))
      BY <1>t, <2>1, <2>3 DEF TypeOK
    <3> QED BY <1>1, <2>1, <2>3, <3>1 DEF Effect, TakesRequest, Absorbs
  <2> QED BY <2>2, <2>3
<1>2. ASSUME NEW r \in Repos, NEW g \in Generations, NEW mode \in Modes,
             NEW paths \in SUBSET Paths, EnqueueInsert(r, g, mode, paths)
      PROVE  Effect(j)
  <2>1. CASE j # nextId
    BY <1>s, <1>t, <1>2, <2>1 DEF EnqueueInsert, TypeOK
  <2>2. CASE j = nextId
    <3>1. jobs[j].status = "absent"
      BY <2>2 DEF IInv, Fresh, Jobs
    <3>2. jobs'[j].status = "queued" /\ jobs'[j].payload = RequestPayload(mode, paths)
      BY <1>t, <1>2, <2>2 DEF EnqueueInsert, TypeOK
    <3>3. ~RequestPayload(mode, paths).frozen
      BY DEF RequestPayload, NoPayload
    <3> QED BY <3>1, <3>2, <3>3 DEF Effect, Appears
  <2> QED BY <2>1, <2>2
<1>3. ASSUME NEW c \in Jobs, ClaimNext(c) PROVE Effect(j)
  <2>1. CASE c # j
    BY <1>s, <1>t, <1>3, <2>1 DEF ClaimNext, TypeOK
  <2>2. CASE c = j
    <3>1. jobs'[j].status = "running" /\ KeepsWork(j) /\ Queued(j) /\ Claimable(j)
      BY <1>t, <1>3, <1>j, <2>2 DEF ClaimNext, Claimable, TypeOK, Rows, KeepsWork
    <3> QED BY <3>1 DEF Effect, Starts
  <2> QED BY <2>1, <2>2
<1>4. ASSUME NEW c \in Jobs, Heartbeat(c) \/ LeaseExpires(c) PROVE Effect(j)
  <2>1. Stays(j)
    BY <1>t, <1>4, <1>j DEF Heartbeat, LeaseExpires, TypeOK, Rows, Stays, KeepsWork
  <2> QED BY <2>1 DEF Effect
<1>5. ASSUME NEW c \in Jobs, NEW paths \in SUBSET Paths,
             \/ InstallForceFullSnapshot(c, paths)
             \/ AcknowledgeForceFullSnapshotFiles(c, paths)
      PROVE  Effect(j)
  <2>1. CASE c # j
    BY <1>s, <1>t, <1>5, <2>1
       DEF InstallForceFullSnapshot, AcknowledgeForceFullSnapshotFiles, TypeOK
  <2>2. CASE c = j
    <3>1. PICK payload : /\ jobs' = [jobs EXCEPT ![j] = [jobs[j] EXCEPT !.payload = payload]]
                         /\ payload.paths = jobs[j].payload.paths
                         /\ \/ jobs[j].mode = "force_full" /\ ~jobs[j].payload.frozen
                            \/ /\ jobs[j].payload.frozen
                               /\ payload.targets = jobs[j].payload.targets
                               /\ jobs[j].payload.acked \subseteq payload.acked
      <4>1. CASE InstallForceFullSnapshot(c, paths)
        <5> DEFINE payload == [jobs[j].payload EXCEPT !.frozen = TRUE, !.targets = paths,
                                                      !.acked = {}]
        <5>1. payload.paths = jobs[j].payload.paths
          BY <1>j DEF Payloads
        <5>2. jobs' = [jobs EXCEPT ![j] = [jobs[j] EXCEPT !.payload = payload]]
          BY <1>t, <2>2, <4>1 DEF InstallForceFullSnapshot, TypeOK
        <5>3. jobs[j].mode = "force_full" /\ ~jobs[j].payload.frozen
          BY <2>2, <4>1 DEF InstallForceFullSnapshot
        <5> QED BY <5>1, <5>2, <5>3
      <4>2. CASE AcknowledgeForceFullSnapshotFiles(c, paths)
        <5> DEFINE payload == [jobs[j].payload EXCEPT !.acked = @ \cup paths]
        <5>1. /\ payload.paths = jobs[j].payload.paths
              /\ payload.targets = jobs[j].payload.targets
              /\ jobs[j].payload.acked \subseteq payload.acked
          BY <1>j DEF Payloads
        <5>2. jobs' = [jobs EXCEPT ![j] = [jobs[j] EXCEPT !.payload = payload]]
          BY <1>t, <2>2, <4>2 DEF AcknowledgeForceFullSnapshotFiles, TypeOK
        <5>3. jobs[j].payload.frozen
          BY <2>2, <4>2 DEF AcknowledgeForceFullSnapshotFiles
        <5> QED BY <5>1, <5>2, <5>3
      <4> QED BY <1>5, <4>1, <4>2
    <3>2. Working(j)
      BY <1>5, <2>2 DEF InstallForceFullSnapshot, AcknowledgeForceFullSnapshotFiles, IInv,
         HeldRowsStayLeased
    <3>3. /\ jobs'[j].payload = payload
          /\ jobs'[j].repo = jobs[j].repo /\ jobs'[j].mode = jobs[j].mode
          /\ jobs'[j].status = jobs[j].status
      BY <1>t, <1>j, <3>1 DEF TypeOK, Rows
    <3> QED BY <3>1, <3>2, <3>3 DEF Effect, Records
  <2> QED BY <2>1, <2>2
<1>6. ASSUME NEW c \in Jobs, Complete(c) \/ MarkCancelled(c) PROVE Effect(j)
  <2>1. CASE c # j
    BY <1>s, <1>t, <1>6, <2>1 DEF Complete, MarkCancelled, TypeOK
  <2>2. CASE c = j
    <3>1. \/ jobs'[j] = Settled(jobs[j], "completed")
          \/ jobs[j].status = "cancelling" /\ jobs'[j] = Settled(jobs[j], "cancelled")
      BY <1>t, <1>6, <2>2 DEF Complete, MarkCancelled, TypeOK
    <3>2. Working(j)
      BY <1>6, <2>2 DEF Complete, MarkCancelled, IInv, HeldRowsStayLeased
    <3> QED BY <1>j, <3>1, <3>2, SettledKeepsWork DEF Effect, Ends, KeepsWork
  <2> QED BY <2>1, <2>2
<1>7. ASSUME jobs'[j] = CancelRequested(jobs[j]) PROVE Effect(j)
  <2>1. CASE jobs[j].status = "queued"
    <3>1. jobs'[j] = Settled(jobs[j], "cancelled")
      BY <1>7, <2>1 DEF CancelRequested
    <3> QED BY <1>j, <2>1, <3>1, SettledKeepsWork DEF Effect, Cancels, KeepsWork, Queued
  <2>2. CASE jobs[j].status = "running"
    <3>1. jobs'[j] = [jobs[j] EXCEPT !.status = "cancelling"]
      BY <1>7, <2>2 DEF CancelRequested
    <3>2. KeepsWork(j) /\ jobs'[j].status = "cancelling"
      BY <1>j, <3>1 DEF Rows, KeepsWork
    <3> QED BY <2>2, <3>2 DEF Effect, Cancels
  <2>3. CASE jobs[j].status \notin {"queued", "running"}
    BY <1>7, <1>s, <2>3 DEF CancelRequested
  <2> QED BY <2>1, <2>2, <2>3
<1>8. ASSUME NEW c \in Jobs, RequestCancel(c) PROVE Effect(j)
  <2>1. CASE c # j
    BY <1>s, <1>t, <1>8, <2>1 DEF RequestCancel, TypeOK
  <2>2. CASE c = j
    BY <1>t, <1>7, <1>8, <2>2 DEF RequestCancel, TypeOK
  <2> QED BY <2>1, <2>2
<1>9. CASE RequestCancelAll
  BY <1>7, <1>9, <1>s DEF RequestCancelAll
<1>10. CASE Crash \/ UNCHANGED vars
  BY <1>10, <1>s DEF Crash, vars
<1> QED BY <1>1, <1>2, <1>3, <1>4, <1>5, <1>6, <1>8, <1>9, <1>10, FailOrRetryEffect, ReclaimEffect
        DEF Next, Enqueue, RowStep, Finish

\* A merge carries the work of both.
LEMMA MergeCarries ==
  ASSUME NEW row \in Rows, NEW mode \in Modes, NEW payload \in Payloads
  PROVE  /\ Rank[MergeInto(row, mode, payload).mode] >= Rank[row.mode]
         /\ Rank[MergeInto(row, mode, payload).mode] >= Rank[mode]
         /\ MergeInto(row, mode, payload).mode = "files" =>
              /\ row.payload.paths \subseteq MergeInto(row, mode, payload).payload.paths
              /\ payload.paths \subseteq MergeInto(row, mode, payload).payload.paths
<1> DEFINE merged == MergedMode(row.mode, mode)
           load == MergedPayload(row.mode, row.payload, mode, payload)
<1>r. row.mode \in Modes /\ row.payload \in Payloads
  BY DEF Rows
<1>1. MergeInto(row, mode, payload).mode = merged /\ MergeInto(row, mode, payload).payload = load
  BY DEF MergeInto, Rows
<1>2. Rank[merged] >= Rank[row.mode] /\ Rank[merged] >= Rank[mode]
  BY <1>r DEF MergedMode, Rank, Modes
<1>3. merged = "files" => load.paths = row.payload.paths \cup payload.paths
  BY DEF MergedPayload, NoPayload
<1> HIDE DEF merged, load
<1> QED BY <1>1, <1>2, <1>3

\* Ranks can be compared.
LEMMA Ranks == \A mode \in Modes : Rank[mode] >= Rank[mode]
  BY DEF Modes, Rank

\* Keeping the work is carrying it.
LEMMA KeepingCarries ==
  ASSUME TypeOK, NEW j \in Jobs,
         jobs'[j].mode = jobs[j].mode, jobs'[j].payload.paths = jobs[j].payload.paths
  PROVE  Carries(jobs'[j], jobs[j])
  BY RowFacts, Ranks DEF Carries

\* A queued row leaves the queue for a worker or by cancellation; while it waits
\* it is only merged into.
LEMMA QueuedStep ==
  IInv /\ [Next]_vars =>
    \A j \in Jobs : Queued(j) /\ Active(j)' => Carries(jobs'[j], jobs[j])
<1> SUFFICES ASSUME IInv, [Next]_vars, NEW j \in Jobs, Queued(j), Active(j)'
             PROVE  Carries(jobs'[j], jobs[j])
  OBVIOUS
<1>t. TypeOK /\ jobs[j] \in Rows
  BY RowFacts DEF IInv
<1>q. /\ jobs[j].status = "queued" /\ ~Working(j)
      /\ jobs'[j].status \in {"queued", "running", "cancelling"}
  BY DEF Queued, Working, Active, ActiveStatuses
<1>1. CASE KeepsWork(j)
  BY <1>t, <1>1, KeepingCarries DEF KeepsWork
<1>2. ASSUME NEW mode \in Modes, NEW payload \in Payloads, Absorbs(j, mode, payload)
      PROVE  Carries(jobs'[j], jobs[j])
  BY <1>t, <1>2, MergeCarries DEF Absorbs, Carries
<1>3. CASE TakesRequest(j)
  BY <1>2, <1>3, RequestPayloadType DEF TakesRequest
<1>4. CASE \E k \in Jobs : TakesOver(j, k)
  BY <1>2, <1>4, <1>t, RowFacts DEF TakesOver
<1> QED BY <1>1, <1>3, <1>4, <1>q, Effects
        DEF Effect, Stays, Appears, MergedAway, Returns, Starts, Ends, Cancels, Records

\* A request that waits is never narrowed, by whatever is merged into it.
THEOREM WaitingWorkGrows == Spec => QueuedWorkOnlyGrows
<1>1. IInv /\ [Next]_vars =>
        [\A j \in Jobs : Queued(j) /\ Active(j)' => Carries(jobs'[j], jobs[j])]_vars
  BY QueuedStep
<1> QED BY <1>1, InvCorrect, PTL DEF Spec, QueuedWorkOnlyGrows

\* A running row ends, stays, goes back or is taken over.
LEMMA RunningStep ==
  IInv /\ [Next]_vars =>
    \A j \in Jobs : jobs[j].status = "running" =>
       \/ jobs'[j].status \in {"completed", "failed"}
       \/ Active(j)' /\ Carries(jobs'[j], jobs[j])
       \/ \E k \in Jobs : /\ Queued(k)'
                          /\ jobs'[k].repo = jobs[j].repo
                          /\ Carries(jobs'[k], jobs[j])
<1> SUFFICES ASSUME IInv, [Next]_vars, NEW j \in Jobs, jobs[j].status = "running"
             PROVE  \/ jobs'[j].status \in {"completed", "failed"}
                    \/ Active(j)' /\ Carries(jobs'[j], jobs[j])
                    \/ \E k \in Jobs : /\ Queued(k)'
                                       /\ jobs'[k].repo = jobs[j].repo
                                       /\ Carries(jobs'[k], jobs[j])
  OBVIOUS
<1>t. TypeOK /\ jobs[j] \in Rows
  BY RowFacts DEF IInv
<1>1. CASE Stays(j) \/ Returns(j) \/ Cancels(j) \/ Records(j)
  <2>1. Carries(jobs'[j], jobs[j])
    BY <1>t, <1>1, KeepingCarries DEF Stays, Returns, Cancels, Records, KeepsWork
  <2>2. jobs'[j].status = "failed" \/ Active(j)'
    BY <1>1 DEF Stays, Returns, Cancels, Records, Active, ActiveStatuses, Queued
  <2> QED BY <2>1, <2>2
<1>2. CASE Ends(j)
  BY <1>2 DEF Ends
<1>3. CASE MergedAway(j)
  <2>1. PICK k \in Jobs : TakesOver(k, j)
    BY <1>3 DEF MergedAway
  <2>2. /\ jobs[k] \in Rows /\ jobs[j].mode \in Modes /\ jobs[j].payload \in Payloads
        /\ Queued(k) /\ jobs[k].repo = jobs[j].repo
        /\ jobs'[k] = MergeInto(jobs[k], jobs[j].mode, jobs[j].payload)
    BY <1>t, <2>1, RowFacts DEF TakesOver, Absorbs
  <2>3. jobs'[k].status = "queued" /\ jobs'[k].repo = jobs[j].repo
    BY <2>2, MergeIntoFacts DEF Queued
  <2>4. Carries(jobs'[k], jobs[j])
    BY <2>2, MergeCarries DEF Carries
  <2> QED BY <2>3, <2>4 DEF Queued
<1>4. ~Queued(j) /\ jobs[j].status # "absent"
  BY DEF Queued
<1> QED BY <1>1, <1>2, <1>3, <1>4, Effects
        DEF Effect, Appears, TakesRequest, TakesOver, Absorbs, Starts

\* Retry, recovery and requests never drop work that runs.
THEOREM RunningWorkSurvives == Spec => RunningWorkIsCarried
<1>1. IInv /\ [Next]_vars =>
        [\A j \in Jobs : jobs[j].status = "running" =>
           \/ jobs'[j].status \in {"completed", "failed"}
           \/ Active(j)' /\ Carries(jobs'[j], jobs[j])
           \/ \E k \in Jobs : /\ Queued(k)'
                              /\ jobs'[k].repo = jobs[j].repo
                              /\ Carries(jobs'[k], jobs[j])]_vars
  BY RunningStep
<1> QED BY <1>1, InvCorrect, PTL DEF Spec, RunningWorkIsCarried

\* Only a force row has a manifest.
FrozenIsForce == \A j \in Jobs : jobs[j].payload.frozen => jobs[j].mode = "force_full"

\* What a merge makes of two manifests: a force request brings its own, another
\* leaves the existing one; a deletion drops both.
LEMMA MergedManifest ==
  ASSUME NEW row \in Rows, NEW mode \in Modes, NEW payload \in Payloads,
         row.payload.frozen => row.mode = "force_full",
         payload.frozen => mode = "force_full",
         NEW next, next = MergeInto(row, mode, payload)
  PROVE  /\ next.payload.frozen => next.mode = "force_full"
         /\ next.payload.frozen => row.payload.frozen \/ payload.frozen
         /\ mode = "force_full" =>
              \/ next.mode = "drop_index"
              \/ next.payload.targets = payload.targets /\ next.payload.acked = payload.acked
         /\ row.mode = "force_full" /\ mode # "force_full" =>
              \/ next.mode = "drop_index"
              \/ /\ next.payload.targets = row.payload.targets
                 /\ next.payload.acked = row.payload.acked
<1> DEFINE merged == MergedMode(row.mode, mode)
           load == MergedPayload(row.mode, row.payload, mode, payload)
<1>r. row.mode \in Modes /\ row.payload \in Payloads
  BY DEF Rows
<1>1. next.mode = merged /\ next.payload = load
  BY DEF MergeInto, Rows
<1>2. load.frozen => merged = "force_full"
  <2>1. merged # "force_full" => load.frozen = FALSE
    BY DEF MergedPayload, NoPayload
  <2> QED BY <2>1
<1>3. mode = "force_full" => merged \in {"force_full", "drop_index"}
  BY <1>r DEF MergedMode, Rank, Modes
<1>4. row.mode = "force_full" => merged \in {"force_full", "drop_index"}
  BY <1>r DEF MergedMode, Rank, Modes
<1>5. mode = "force_full" /\ merged = "force_full" => load = Manifest(payload)
  BY DEF MergedPayload
<1>6. mode # "force_full" /\ merged = "force_full" => load = Manifest(row.payload)
  BY DEF MergedPayload
<1>7. /\ Manifest(payload).targets = payload.targets /\ Manifest(payload).acked = payload.acked
      /\ Manifest(payload).frozen = payload.frozen
      /\ Manifest(row.payload).targets = row.payload.targets
      /\ Manifest(row.payload).acked = row.payload.acked
      /\ Manifest(row.payload).frozen = row.payload.frozen
  BY <1>r DEF Manifest, Payloads
<1> HIDE DEF merged, load
<1> QED BY <1>1, <1>2, <1>3, <1>4, <1>5, <1>6, <1>7

\* No step gives a manifest to a row of another mode.
LEMMA FrozenStep == IInv /\ FrozenIsForce /\ [Next]_vars => FrozenIsForce'
<1> SUFFICES ASSUME IInv, FrozenIsForce, [Next]_vars, NEW j \in Jobs, jobs'[j].payload.frozen
             PROVE  jobs'[j].mode = "force_full"
  BY DEF FrozenIsForce, Jobs
<1>t. TypeOK /\ jobs[j] \in Rows
  BY RowFacts DEF IInv
<1>1. CASE KeepsWork(j)
  BY <1>1 DEF KeepsWork, FrozenIsForce
<1>2. CASE Records(j)
  BY <1>2 DEF Records, FrozenIsForce
<1>3. CASE TakesRequest(j)
  <2>1. PICK mode \in Modes, paths \in SUBSET Paths :
          Absorbs(j, mode, RequestPayload(mode, paths))
    BY <1>3 DEF TakesRequest
  <2>2. RequestPayload(mode, paths) \in Payloads /\ ~RequestPayload(mode, paths).frozen
    BY RequestPayloadType DEF RequestPayload, NoPayload
  <2> QED BY <1>t, <2>1, <2>2, MergedManifest DEF Absorbs, FrozenIsForce
<1>4. CASE \E k \in Jobs : TakesOver(j, k)
  BY <1>4, <1>t, RowFacts, MergedManifest DEF TakesOver, Absorbs, FrozenIsForce
<1> QED BY <1>1, <1>2, <1>3, <1>4, Effects
        DEF Effect, Stays, Appears, MergedAway, Returns, Starts, Ends, Cancels

\* While a row with a manifest waits for its retry, nothing of its repository is worked on:
\* what waits beside it could only have been merged into it, or it into that.
RetriesStandAlone ==
  \A j, k \in Jobs : Queued(j) /\ jobs[j].payload.frozen /\ Working(k) => jobs[k].repo # jobs[j].repo

LEMMA StandAloneStep ==
  IInv /\ FrozenIsForce /\ RetriesStandAlone /\ [Next]_vars => RetriesStandAlone'
<1> SUFFICES ASSUME IInv, FrozenIsForce, RetriesStandAlone, [Next]_vars, NEW j \in Jobs, NEW k \in Jobs,
                    Queued(j)', jobs'[j].payload.frozen, Working(k)', jobs'[k].repo = jobs'[j].repo
             PROVE  FALSE
  BY DEF RetriesStandAlone, Jobs
<1>t. /\ TypeOK /\ OneQueuedPerRepo /\ OneWorkerPerStore
      /\ jobs[j] \in Rows /\ jobs[k] \in Rows
  BY RowFacts DEF IInv
<1>1. j # k
  BY DEF Queued, Working
<1>2. /\ jobs'[k].repo = jobs[k].repo
      /\ Working(k) \/ Starts(k)
  <2>1. Effect(k)
    BY Effects
  <2>2. Working(k)' => jobs'[k].status \in {"running", "cancelling"}
    BY DEF Working
  <2>3. ~TakesRequest(k) /\ ~(\E m \in Jobs : TakesOver(k, m))
    <3>1. ASSUME NEW mode \in Modes, NEW payload \in Payloads, Absorbs(k, mode, payload)
          PROVE  FALSE
      BY <1>t, <2>2, <3>1, MergeIntoFacts DEF Absorbs, Queued
    <3> QED BY <1>t, <3>1, RowFacts, RequestPayloadType DEF TakesRequest, TakesOver
  <2> QED BY <2>1, <2>2, <2>3
          DEF Effect, Stays, Appears, MergedAway, Returns, Starts, Ends, Cancels, Records, KeepsWork,
              Working
<1>3. CASE Queued(j) /\ jobs[j].payload.frozen /\ jobs'[j].repo = jobs[j].repo
  <2>1. ~Working(k)
    BY <1>2, <1>3 DEF RetriesStandAlone
  <2> QED BY <1>1, <1>2, <1>3, <1>t, <2>1 DEF OneQueuedPerRepo, Starts
<1>4. ASSUME NEW m \in Jobs, TakesOver(j, m), jobs'[j].repo = jobs[j].repo
      PROVE  FALSE
  <2>1. CASE Working(k)
    <3>1. k = m
      BY <1>2, <1>4, <1>t, <2>1 DEF OneWorkerPerStore, TakesOver
    <3> QED BY <1>4, <3>1 DEF TakesOver, Working
  <2>2. CASE Starts(k)
    BY <1>1, <1>2, <1>4, <1>t, <2>2 DEF OneQueuedPerRepo, Starts, TakesOver, Absorbs
  <2> QED BY <1>2, <2>1, <2>2
<1>5. CASE Returns(j)
  <2>1. Working(j) /\ jobs'[j].repo = jobs[j].repo
    BY <1>5 DEF Returns, KeepsWork
  <2>2. ~Working(k)
    BY <1>1, <1>2, <1>t, <2>1 DEF OneWorkerPerStore
  <2>3. ~Starts(k)
    BY <1>2, <2>1 DEF Starts, Claimable
  <2> QED BY <1>2, <2>2, <2>3
<1>6. \/ Queued(j) /\ jobs[j].payload.frozen /\ jobs'[j].repo = jobs[j].repo
      \/ (\E m \in Jobs : TakesOver(j, m)) /\ jobs'[j].repo = jobs[j].repo
      \/ Returns(j)
  <2>1. Effect(j)
    BY Effects
  <2>2. jobs'[j].status = "queued"
    BY DEF Queued
  <2>3. ASSUME NEW mode \in Modes, NEW payload \in Payloads, Absorbs(j, mode, payload)
        PROVE  jobs'[j].repo = jobs[j].repo
    BY <1>t, <2>3, MergeIntoFacts DEF Absorbs
  <2>4. CASE TakesRequest(j)
    <3>1. PICK mode \in Modes, paths \in SUBSET Paths :
            Absorbs(j, mode, RequestPayload(mode, paths))
      BY <2>4 DEF TakesRequest
    <3>2. RequestPayload(mode, paths) \in Payloads /\ ~RequestPayload(mode, paths).frozen
      BY RequestPayloadType DEF RequestPayload, NoPayload
    <3>3. jobs[j].payload.frozen
      BY <1>t, <3>1, <3>2, MergedManifest DEF Absorbs, FrozenIsForce
    <3> QED BY <2>3, <3>1, <3>2, <3>3 DEF Absorbs
  <2>5. CASE \E m \in Jobs : TakesOver(j, m)
    BY <1>t, <2>3, <2>5, RowFacts DEF TakesOver
  <2> QED BY <2>1, <2>2, <2>4, <2>5
          DEF Effect, Stays, Appears, MergedAway, Returns, Starts, Ends, Cancels, Records, KeepsWork,
              Queued, Working
<1> QED BY <1>3, <1>4, <1>5, <1>6

\* Row k has the manifest of row j, or a deletion in its place.
KeepsManifest(k, j) ==
  /\ Active(k)' /\ jobs'[k].repo = jobs[j].repo
  /\ \/ /\ jobs'[k].payload.targets = jobs[j].payload.targets
        /\ jobs[j].payload.acked \subseteq jobs'[k].payload.acked
     \/ jobs'[k].mode = "drop_index"

\* The manifest of an attempt stays with its row or goes with its work.
LEMMA ManifestStep ==
  IInv /\ FrozenIsForce /\ RetriesStandAlone /\ [Next]_vars =>
    \A j \in Jobs : Active(j) /\ jobs[j].payload.frozen =>
       \/ jobs'[j].status \in {"completed", "failed"}
       \/ jobs[j].status \in {"queued", "cancelling"} /\ jobs'[j].status = "cancelled"
       \/ Queued(j) /\ \E paths \in SUBSET Paths : EnqueueMerge(jobs[j].repo, "force_full", paths)
       \/ \E k \in Jobs :
            /\ Active(k)' /\ jobs'[k].repo = jobs[j].repo
            /\ \/ /\ jobs'[k].payload.targets = jobs[j].payload.targets
                  /\ jobs[j].payload.acked \subseteq jobs'[k].payload.acked
               \/ jobs'[k].mode = "drop_index"
<1> SUFFICES ASSUME IInv, FrozenIsForce, RetriesStandAlone, [Next]_vars, NEW j \in Jobs, Active(j),
                    jobs[j].payload.frozen
             PROVE  \/ jobs'[j].status \in {"completed", "failed"}
                    \/ jobs[j].status \in {"queued", "cancelling"} /\ jobs'[j].status = "cancelled"
                    \/ Queued(j) /\ \E paths \in SUBSET Paths :
                                      EnqueueMerge(jobs[j].repo, "force_full", paths)
                    \/ \E k \in Jobs : KeepsManifest(k, j)
  BY DEF KeepsManifest
<1>t. TypeOK /\ jobs[j] \in Rows
  BY RowFacts DEF IInv
<1>w. jobs[j].status \in {"queued", "running", "cancelling"}
  BY DEF Active, ActiveStatuses
<1>1. CASE Stays(j) \/ Returns(j) \/ Cancels(j) \/ Records(j) \/ Starts(j)
  <2>1. /\ jobs'[j].repo = jobs[j].repo
        /\ jobs'[j].payload.targets = jobs[j].payload.targets
        /\ jobs[j].payload.acked \subseteq jobs'[j].payload.acked
    BY <1>1 DEF Stays, Returns, Cancels, Records, Starts, KeepsWork
  <2>2. \/ jobs'[j].status = "failed" \/ Active(j)'
        \/ jobs[j].status = "queued" /\ jobs'[j].status = "cancelled"
    BY <1>w, <1>1 DEF Stays, Returns, Cancels, Records, Starts, Active, ActiveStatuses, Queued
  <2> QED BY <2>1, <2>2 DEF KeepsManifest
<1>2. CASE Ends(j)
  BY <1>2 DEF Ends
<1>3. CASE MergedAway(j)
  <2>1. PICK k \in Jobs : TakesOver(k, j)
    BY <1>3 DEF MergedAway
  <2>2. /\ jobs[k] \in Rows /\ jobs[j].mode = "force_full" /\ jobs[j].payload \in Payloads
        /\ jobs[j].mode \in Modes
        /\ jobs[k].payload.frozen => jobs[k].mode = "force_full"
        /\ Queued(k) /\ jobs[k].repo = jobs[j].repo
        /\ jobs'[k] = MergeInto(jobs[k], jobs[j].mode, jobs[j].payload)
    BY <1>t, <2>1, RowFacts DEF TakesOver, Absorbs, FrozenIsForce
  <2>3. jobs'[k].status = "queued" /\ jobs'[k].repo = jobs[j].repo
    BY <2>2, MergeIntoFacts DEF Queued
  <2>4. \/ jobs'[k].mode = "drop_index"
        \/ /\ jobs'[k].payload.targets = jobs[j].payload.targets
           /\ jobs'[k].payload.acked = jobs[j].payload.acked
    BY <2>2, MergedManifest
  <2> QED BY <2>3, <2>4 DEF KeepsManifest, Active, ActiveStatuses
<1>4. CASE TakesRequest(j)
  <2>1. PICK mode \in Modes, paths \in SUBSET Paths :
          /\ Absorbs(j, mode, RequestPayload(mode, paths))
          /\ EnqueueMerge(jobs[j].repo, mode, paths)
    BY <1>4 DEF TakesRequest
  <2>2. CASE mode = "force_full"
    BY <2>1, <2>2 DEF Absorbs
  <2>3. CASE mode # "force_full"
    <3>1. RequestPayload(mode, paths) \in Payloads /\ ~RequestPayload(mode, paths).frozen
      BY RequestPayloadType DEF RequestPayload, NoPayload
    <3>2. jobs[j].mode = "force_full" /\ Queued(j)
          /\ jobs'[j] = MergeInto(jobs[j], mode, RequestPayload(mode, paths))
      BY <2>1 DEF Absorbs, FrozenIsForce
    <3>3. \/ jobs'[j].mode = "drop_index"
          \/ /\ jobs'[j].payload.targets = jobs[j].payload.targets
             /\ jobs'[j].payload.acked = jobs[j].payload.acked
      BY <1>t, <2>3, <3>1, <3>2, MergedManifest
    <3>4. jobs'[j].status = "queued" /\ jobs'[j].repo = jobs[j].repo
      BY <1>t, <3>1, <3>2, MergeIntoFacts DEF Queued
    <3> QED BY <3>3, <3>4 DEF KeepsManifest, Active, ActiveStatuses
  <2> QED BY <2>2, <2>3
<1>5. ~(\E k \in Jobs : TakesOver(j, k))
  BY DEF TakesOver, Absorbs, RetriesStandAlone
<1>6. ~Appears(j)
  BY <1>w DEF Appears
<1> QED BY <1>1, <1>2, <1>3, <1>4, <1>5, <1>6, Effects DEF Effect

\* The manifest of a force attempt outlives failures, deaths, merges and the requests that
\* find its retry in the queue, but a cancellation, a deletion and a new force request.
THEOREM ManifestsSurvive == Spec => ManifestIsFrozen
<1>1. Init => FrozenIsForce /\ RetriesStandAlone
  BY DEF Init, FrozenIsForce, RetriesStandAlone, Absent, NoPayload, Queued
<1>2. IInv /\ FrozenIsForce /\ RetriesStandAlone /\ [Next]_vars =>
        [\A j \in Jobs : Active(j) /\ jobs[j].payload.frozen =>
           \/ jobs'[j].status \in {"completed", "failed"}
           \/ jobs[j].status \in {"queued", "cancelling"} /\ jobs'[j].status = "cancelled"
           \/ Queued(j) /\ \E paths \in SUBSET Paths : EnqueueMerge(jobs[j].repo, "force_full", paths)
           \/ \E k \in Jobs :
                /\ Active(k)' /\ jobs'[k].repo = jobs[j].repo
                /\ \/ /\ jobs'[k].payload.targets = jobs[j].payload.targets
                      /\ jobs[j].payload.acked \subseteq jobs'[k].payload.acked
                   \/ jobs'[k].mode = "drop_index"]_vars
  BY ManifestStep
<1> QED BY <1>1, <1>2, FrozenStep, StandAloneStep, InvCorrect, PTL DEF Spec, ManifestIsFrozen
-----------------------------------------------------------------------------
(***************************************************************************)
(* The queue implements RepositoryWork                                     *)
(***************************************************************************)
\* _mode_rank orders the modes as RepositoryWork weighs them.
LEMMA Weights ==
  ASSUME NEW a \in Modes, NEW b \in Modes
  PROVE  /\ Work!Weight[b] > Work!Weight[a] <=> Rank[b] > Rank[a]
         /\ Work!Weight[a] > Work!Weight["none"]
         /\ a # "none" /\ a \in DOMAIN Work!Weight
  BY DEF Modes, Rank, Work!Weight

\* _merge_payload joins the work of the row and that of the request.
LEMMA MergeJoins ==
  ASSUME NEW row \in Rows, NEW mode \in Modes, NEW payload \in Payloads, NEW owner \in Nat,
         WholeRow(row, owner), mode # "files" => payload.paths = {}
  PROVE  /\ WholeRow(MergeInto(row, mode, payload), owner)
         /\ AsWork(MergeInto(row, mode, payload)) =
              Work!Join(AsWork(row), [mode |-> mode, paths |-> payload.paths])
<1> DEFINE winner == MergedMode(row.mode, mode)
           merged == MergedPayload(row.mode, row.payload, mode, payload)
<1>1. row.mode \in Modes /\ row.payload \in Payloads /\ winner \in Modes
  BY MergedModeType DEF Rows
<1>2. merged.paths = IF winner = "files" THEN row.payload.paths \cup payload.paths ELSE {}
  <2>1. CASE winner = "files"
    BY <2>1 DEF MergedPayload, NoPayload
  <2>2. CASE winner = "force_full" /\ mode = "force_full"
    BY <2>2 DEF MergedPayload, Payloads, Manifest
  <2>3. CASE winner = "force_full" /\ mode # "force_full"
    BY <1>1, <2>3 DEF MergedPayload, Payloads, Manifest
  <2>4. CASE winner \notin {"files", "force_full"}
    BY <2>4 DEF MergedPayload, NoPayload
  <2> QED BY <2>1, <2>2, <2>3, <2>4
<1>3. winner = IF Work!Weight[mode] > Work!Weight[row.mode] THEN mode ELSE row.mode
  BY <1>1, Weights DEF MergedMode
<1>4. /\ MergeInto(row, mode, payload).mode = winner
      /\ MergeInto(row, mode, payload).payload = merged
      /\ MergeInto(row, mode, payload).owner = row.owner
      /\ MergeInto(row, mode, payload).status = row.status
      /\ MergeInto(row, mode, payload).attempts = row.attempts
  BY DEF MergeInto, Rows
<1> HIDE DEF winner, merged
<1>5. AsWork(MergeInto(row, mode, payload)) =
        [mode |-> winner,
         paths |-> IF winner = "files" THEN row.payload.paths \cup payload.paths ELSE {}]
  BY <1>2, <1>4 DEF AsWork
<1> QED BY <1>2, <1>3, <1>4, <1>5 DEF AsWork, Work!Join, WholeRow

\* The work of a row is work, and joining nothing to work changes nothing.
LEMMA RowsAreWork ==
  ASSUME NEW row \in Rows, NEW owner \in Nat, WholeRow(row, owner)
  PROVE  /\ AsWork(row) \in Work!Works /\ AsWork(row) # Work!Nothing
         /\ Work!Join(Work!Nothing, AsWork(row)) = AsWork(row)
         /\ Work!Join(AsWork(row), Work!Nothing) = AsWork(row)
<1>1. row.mode \in Modes /\ row.payload.paths \subseteq Paths
  BY DEF Rows, Payloads
<1>2. /\ Work!Weight[row.mode] > Work!Weight["none"] /\ row.mode # "none"
      /\ row.mode \in DOMAIN Work!Weight /\ ~(Work!Weight["none"] > Work!Weight[row.mode])
  BY <1>1 DEF Modes, Work!Weight
<1>3. row.mode # "files" => row.payload.paths = {}
  BY DEF WholeRow
<1> QED BY <1>1, <1>2, <1>3 DEF AsWork, Work!Works, Work!Nothing, Work!Join

\* Nothing and nothing is nothing.
LEMMA NothingJoins == Work!Join(Work!Nothing, Work!Nothing) = Work!Nothing
  BY DEF Work!Join, Work!Nothing, Work!Weight

\* The payload of a request has paths only for files.
LEMMA RequestPaths ==
  ASSUME NEW mode \in Modes, NEW paths \in SUBSET Paths
  PROVE  mode # "files" => RequestPayload(mode, paths).paths = {}
  BY DEF RequestPayload, NoPayload

\* A row that is settled or given back is whole, if an attempt is left when it waits.
LEMMA SettledIsWhole ==
  ASSUME NEW row \in Rows, NEW owner \in Nat, WholeRow(row, owner),
         NEW status \in Statuses, NEW attempts \in Nat
  PROVE  /\ status \notin ActiveStatuses => WholeRow(Settled(row, status), owner)
         /\ status \notin ActiveStatuses =>
              WholeRow([Settled(row, status) EXCEPT !.attempts = attempts], owner)
         /\ WholeRow(Retried(row, attempts), owner)
<1>1. ASSUME NEW status1
      PROVE  LET row1 == Settled(row, status1)
                 row2 == [row1 EXCEPT !.attempts = attempts]
             IN  /\ row1.owner = 0 /\ row1.status = status1 /\ row1.mode = row.mode
                 /\ row1.payload = row.payload
                 /\ row2.owner = 0 /\ row2.status = status1 /\ row2.mode = row.mode
                 /\ row2.payload = row.payload /\ row2.attempts = attempts
  BY DEF Settled, Rows
<1>2. /\ status \notin ActiveStatuses => WholeRow(Settled(row, status), owner)
      /\ status \notin ActiveStatuses =>
           WholeRow([Settled(row, status) EXCEPT !.attempts = attempts], owner)
  BY <1>1 DEF WholeRow
<1>3. WholeRow(Retried(row, attempts), owner)
  <2>1. MaxAttempts \in Nat
    BY BoundsAssumption
  <2>2. CASE attempts >= MaxAttempts
    BY <1>1, <2>2 DEF Retried, WholeRow, ActiveStatuses
  <2>3. CASE ~(attempts >= MaxAttempts)
    BY <1>1, <2>1, <2>3 DEF Retried, WholeRow, ActiveStatuses
  <2> QED BY <2>2, <2>3
<1> QED BY <1>2, <1>3

\* Recovery leaves whole rows, and merges what it merges as work.
LEMMA ReclaimedIsWhole ==
  ASSUME TypeOK, NEW o \in Nat, NEW j \in Jobs, \A k \in Jobs : WholeRow(jobs[k], o)
  PROVE  WholeRow(Reclaimed(o)[j], o)
<1> DEFINE k0 == CHOOSE k \in Jobs : Stale(k, o) /\ jobs[k].repo = jobs[j].repo
           attempts == IF jobs[j].owner # o THEN jobs[j].attempts ELSE jobs[j].attempts + 1
<1>0. /\ jobs[j] \in Rows /\ attempts \in Nat /\ WholeRow(jobs[j], o)
      /\ ~(Stale(j, o) /\ Queued(j)) /\ "cancelled" \in Statuses \ ActiveStatuses
  BY RowFacts DEF Stale, Working, Queued, Statuses, ActiveStatuses
<1>1. CASE Stale(j, o) /\ QueuedFor(jobs[j].repo) # {}
  <2>1. Reclaimed(o)[j] = Settled(jobs[j], "cancelled")
    BY <1>0, <1>1 DEF Reclaimed
  <2> HIDE DEF attempts
  <2> QED BY <1>0, <2>1, SettledIsWhole
<1>2. CASE Stale(j, o) /\ QueuedFor(jobs[j].repo) = {}
  <2>1. Reclaimed(o)[j] = Retried(jobs[j], attempts)
    BY <1>0, <1>2 DEF Reclaimed
  <2> HIDE DEF attempts
  <2> QED BY <1>0, <2>1, SettledIsWhole
<1>3. CASE Queued(j) /\ \E k \in Jobs : Stale(k, o) /\ jobs[k].repo = jobs[j].repo
  <2>1. k0 \in Jobs
    BY <1>3
  <2>2. Reclaimed(o)[j] = MergeInto(jobs[j], jobs[k0].mode, jobs[k0].payload)
    BY <1>0, <1>3 DEF Reclaimed
  <2> HIDE DEF k0, attempts
  <2>3. /\ jobs[k0].mode \in Modes /\ jobs[k0].payload \in Payloads
        /\ jobs[k0].mode # "files" => jobs[k0].payload.paths = {}
    BY <2>1, RowFacts DEF WholeRow
  <2> QED BY <1>0, <2>2, <2>3, MergeJoins
<1>4. CASE /\ ~Stale(j, o)
           /\ ~(Queued(j) /\ \E k \in Jobs : Stale(k, o) /\ jobs[k].repo = jobs[j].repo)
  <2>1. Reclaimed(o)[j] = jobs[j]
    BY <1>4 DEF Reclaimed
  <2> QED BY <1>0, <2>1
<1> QED BY <1>1, <1>2, <1>3, <1>4

\* A heartbeat, the clock, a manifest and its acknowledgements change nothing else.
Recording(j) ==
  \/ Heartbeat(j) \/ LeaseExpires(j)
  \/ \E targets \in SUBSET Paths : InstallForceFullSnapshot(j, targets)
  \/ \E paths \in SUBSET Paths : AcknowledgeForceFullSnapshotFiles(j, paths)

LEMMA RecordingKeeps ==
  ASSUME TypeOK, NEW j \in Jobs, Recording(j)
  PROVE  \E row : /\ jobs' = [jobs EXCEPT ![j] = row] /\ boot' = boot /\ alive' = alive
                  /\ row.repo = jobs[j].repo /\ row.status = jobs[j].status
                  /\ row.mode = jobs[j].mode /\ row.payload.paths = jobs[j].payload.paths
                  /\ row.attempts = jobs[j].attempts /\ row.owner \in {boot, jobs[j].owner}
<1>j. jobs[j] \in Rows /\ jobs[j].payload \in Payloads
  BY RowFacts
<1>1. CASE Heartbeat(j)
  <2> DEFINE row == [jobs[j] EXCEPT !.owner = boot, !.expired = FALSE]
  <2>1. jobs' = [jobs EXCEPT ![j] = row] /\ boot' = boot /\ alive' = alive
    BY <1>1 DEF Heartbeat
  <2>2. /\ row.repo = jobs[j].repo /\ row.status = jobs[j].status /\ row.mode = jobs[j].mode
        /\ row.payload = jobs[j].payload /\ row.attempts = jobs[j].attempts
        /\ row.owner = boot
    BY <1>j DEF Rows
  <2> HIDE DEF row
  <2> QED BY <2>1, <2>2
<1>2. CASE LeaseExpires(j)
  <2> DEFINE row == [jobs[j] EXCEPT !.expired = TRUE]
  <2>1. jobs' = [jobs EXCEPT ![j] = row] /\ boot' = boot /\ alive' = alive
    BY <1>2 DEF LeaseExpires
  <2>2. /\ row.repo = jobs[j].repo /\ row.status = jobs[j].status /\ row.mode = jobs[j].mode
        /\ row.payload = jobs[j].payload /\ row.attempts = jobs[j].attempts
        /\ row.owner = jobs[j].owner
    BY <1>j DEF Rows
  <2> HIDE DEF row
  <2> QED BY <2>1, <2>2
<1>3. ASSUME NEW targets \in SUBSET Paths, InstallForceFullSnapshot(j, targets)
      PROVE  \E payload : /\ jobs' = [jobs EXCEPT ![j] = [jobs[j] EXCEPT !.payload = payload]]
                          /\ boot' = boot /\ alive' = alive
                          /\ payload.paths = jobs[j].payload.paths
  <2> DEFINE manifest == [jobs[j].payload EXCEPT !.frozen = TRUE, !.targets = targets,
                                                 !.acked = {}]
  <2>1. /\ jobs' = [jobs EXCEPT ![j] = [jobs[j] EXCEPT !.payload = manifest]]
        /\ boot' = boot /\ alive' = alive
    BY <1>3 DEF InstallForceFullSnapshot
  <2>2. manifest.paths = jobs[j].payload.paths
    BY <1>j DEF Payloads
  <2> HIDE DEF manifest
  <2> QED BY <2>1, <2>2
<1>4. ASSUME NEW paths \in SUBSET Paths, AcknowledgeForceFullSnapshotFiles(j, paths)
      PROVE  \E payload : /\ jobs' = [jobs EXCEPT ![j] = [jobs[j] EXCEPT !.payload = payload]]
                          /\ boot' = boot /\ alive' = alive
                          /\ payload.paths = jobs[j].payload.paths
  <2> DEFINE manifest == [jobs[j].payload EXCEPT !.acked = @ \cup paths]
  <2>1. /\ jobs' = [jobs EXCEPT ![j] = [jobs[j] EXCEPT !.payload = manifest]]
        /\ boot' = boot /\ alive' = alive
    BY <1>4 DEF AcknowledgeForceFullSnapshotFiles
  <2>2. manifest.paths = jobs[j].payload.paths
    BY <1>j DEF Payloads
  <2> HIDE DEF manifest
  <2> QED BY <2>1, <2>2
<1>5. ASSUME NEW payload, boot' = boot, alive' = alive,
             jobs' = [jobs EXCEPT ![j] = [jobs[j] EXCEPT !.payload = payload]],
             payload.paths = jobs[j].payload.paths
      PROVE  \E row : /\ jobs' = [jobs EXCEPT ![j] = row] /\ boot' = boot /\ alive' = alive
                      /\ row.repo = jobs[j].repo /\ row.status = jobs[j].status
                      /\ row.mode = jobs[j].mode /\ row.payload.paths = jobs[j].payload.paths
                      /\ row.attempts = jobs[j].attempts /\ row.owner \in {boot, jobs[j].owner}
  <2> DEFINE row == [jobs[j] EXCEPT !.payload = payload]
  <2>1. jobs' = [jobs EXCEPT ![j] = row]
    BY <1>5
  <2>2. /\ row.repo = jobs[j].repo /\ row.status = jobs[j].status /\ row.mode = jobs[j].mode
        /\ row.payload.paths = jobs[j].payload.paths /\ row.attempts = jobs[j].attempts
        /\ row.owner = jobs[j].owner
    BY <1>j, <1>5 DEF Rows
  <2> HIDE DEF row
  <2> QED BY <1>5, <2>1, <2>2
<1> QED BY <1>1, <1>2, <1>3, <1>4, <1>5 DEF Recording

\* No step leaves a row that is leased to the future, exhausted or oddly filled.
LEMMA WholeStep == IInv /\ RowsAreWhole /\ [Next]_vars => RowsAreWhole'
<1> SUFFICES ASSUME IInv, RowsAreWhole, [Next]_vars PROVE RowsAreWhole'
  OBVIOUS
<1>t. TypeOK /\ boot \in Nat /\ MaxAttempts \in Nat \ {0}
  BY BoundsAssumption DEF IInv, TypeOK
<1>j. \A j \in Jobs : /\ jobs[j] \in Rows /\ WholeRow(jobs[j], boot)
                      /\ jobs[j].mode \in Modes /\ jobs[j].payload \in Payloads
                      /\ jobs[j].attempts \in Nat /\ jobs[j].attempts + 1 \in Nat
  BY <1>t, RowFacts DEF RowsAreWhole
<1>k. ASSUME NEW j \in Jobs, NEW row, jobs' = [jobs EXCEPT ![j] = row], boot' = boot,
             WholeRow(row, boot)
      PROVE  RowsAreWhole'
  BY <1>t, <1>j, <1>k DEF RowsAreWhole, TypeOK
<1>1. ASSUME NEW r \in Repos, NEW mode \in Modes, NEW paths \in SUBSET Paths,
             EnqueueMerge(r, mode, paths)
      PROVE  RowsAreWhole'
  <2>1. PICK q \in Jobs :
          jobs' = [jobs EXCEPT ![q] = MergeInto(jobs[q], mode, RequestPayload(mode, paths))]
    BY <1>1 DEF EnqueueMerge, QueuedFor
  <2>2. WholeRow(MergeInto(jobs[q], mode, RequestPayload(mode, paths)), boot)
    BY <1>t, <1>j, RequestPaths, RequestPayloadType, MergeJoins
  <2> QED BY <1>1, <1>k, <2>1, <2>2 DEF EnqueueMerge
<1>2. ASSUME NEW r \in Repos, NEW g \in Generations, NEW mode \in Modes,
             NEW paths \in SUBSET Paths, EnqueueInsert(r, g, mode, paths)
      PROVE  RowsAreWhole'
  <2> DEFINE row == [repo |-> r, generation |-> g, mode |-> mode,
                     payload |-> RequestPayload(mode, paths), status |-> "queued",
                     attempts |-> 0, owner |-> 0, expired |-> FALSE]
  <2>1. WholeRow(row, boot)
    BY <1>t, RequestPaths DEF WholeRow
  <2>2. jobs' = [jobs EXCEPT ![nextId] = row] /\ nextId \in Jobs /\ boot' = boot
    BY <1>2 DEF EnqueueInsert
  <2> HIDE DEF row
  <2> QED BY <1>k, <2>1, <2>2
<1>3. ASSUME NEW j \in Jobs, ClaimNext(j) PROVE RowsAreWhole'
  <2> DEFINE row == [jobs[j] EXCEPT !.status = "running", !.owner = boot, !.expired = FALSE]
  <2>1. jobs' = [jobs EXCEPT ![j] = row] /\ boot' = boot /\ Queued(j)
    BY <1>3 DEF ClaimNext, Claimable
  <2>2. /\ row.mode = jobs[j].mode /\ row.payload = jobs[j].payload
        /\ row.attempts = jobs[j].attempts /\ row.owner = boot
    BY <1>j DEF Rows
  <2> HIDE DEF row
  <2>3. WholeRow(row, boot)
    BY <1>t, <1>j, <2>1, <2>2 DEF WholeRow, Queued, ActiveStatuses
  <2> QED BY <1>k, <2>1, <2>3
<1>4. ASSUME NEW j \in Jobs, Recording(j) PROVE RowsAreWhole'
  <2>1. PICK row : /\ jobs' = [jobs EXCEPT ![j] = row] /\ boot' = boot
                   /\ row.status = jobs[j].status /\ row.mode = jobs[j].mode
                   /\ row.payload.paths = jobs[j].payload.paths
                   /\ row.attempts = jobs[j].attempts /\ row.owner \in {boot, jobs[j].owner}
    BY <1>t, <1>4, RecordingKeeps
  <2>2. WholeRow(row, boot)
    BY <1>t, <1>j, <2>1 DEF WholeRow
  <2> QED BY <1>k, <2>1, <2>2
<1>5. ASSUME NEW j \in Jobs, Complete(j) \/ MarkCancelled(j) PROVE RowsAreWhole'
  <2>1. PICK status \in {"cancelled", "completed"} :
          jobs' = [jobs EXCEPT ![j] = Settled(jobs[j], status)]
    BY <1>5 DEF Complete, MarkCancelled
  <2>2. status \in Statuses \ ActiveStatuses /\ boot' = boot
    BY <1>5 DEF Statuses, ActiveStatuses, Complete, MarkCancelled
  <2>3. WholeRow(Settled(jobs[j], status), boot)
    BY <1>t, <1>j, <2>2, SettledIsWhole
  <2> QED BY <1>k, <2>1, <2>2, <2>3
<1>6. ASSUME NEW j \in Jobs, FailOrRetry(j) PROVE RowsAreWhole'
  <2> DEFINE attempts == jobs[j].attempts + 1
  <2>0. attempts \in Nat /\ boot' = boot /\ "cancelled" \in Statuses \ ActiveStatuses
    BY <1>j, <1>6 DEF FailOrRetry, Statuses, ActiveStatuses
  <2>1. WholeRow(Retried(jobs[j], attempts), boot)
    BY <1>t, <1>j, <2>0, SettledIsWhole
  <2>2. CASE jobs' = [jobs EXCEPT ![j] = Retried(@, attempts)]
    <3> HIDE DEF attempts
    <3> QED BY <1>k, <2>0, <2>1, <2>2
  <2>3. ASSUME NEW q \in QueuedFor(jobs[j].repo) \ {j},
               jobs' = [jobs EXCEPT
                 ![q] = MergeInto(@, jobs[j].mode, jobs[j].payload),
                 ![j] = [Settled(@, "cancelled") EXCEPT !.attempts = attempts]]
        PROVE  RowsAreWhole'
    <3> HIDE DEF attempts
    <3>1. q \in Jobs /\ q # j
      BY DEF QueuedFor
    <3>2. WholeRow(MergeInto(jobs[q], jobs[j].mode, jobs[j].payload), boot)
      BY <1>t, <1>j, <3>1, MergeJoins DEF WholeRow
    <3>3. WholeRow([Settled(jobs[j], "cancelled") EXCEPT !.attempts = attempts], boot)
      BY <1>t, <1>j, <2>0, SettledIsWhole
    <3>4. \A i \in Jobs : jobs'[i] =
            IF i = j THEN [Settled(jobs[j], "cancelled") EXCEPT !.attempts = attempts]
            ELSE IF i = q THEN MergeInto(jobs[q], jobs[j].mode, jobs[j].payload) ELSE jobs[i]
      BY <1>t, <2>3, <3>1 DEF TypeOK
    <3> QED BY <1>j, <2>0, <3>2, <3>3, <3>4 DEF RowsAreWhole
  <2> QED BY <1>6, <2>2, <2>3 DEF FailOrRetry
<1>7. ASSUME NEW j \in Jobs PROVE WholeRow(CancelRequested(jobs[j]), boot)
  <2>1. CASE jobs[j].status = "queued"
    BY <1>t, <1>j, <2>1, SettledIsWhole DEF CancelRequested, Statuses, ActiveStatuses
  <2>2. CASE jobs[j].status = "running"
    <3> DEFINE row == [jobs[j] EXCEPT !.status = "cancelling"]
    <3>1. CancelRequested(jobs[j]) = row
      BY <2>2 DEF CancelRequested
    <3>2. /\ row.mode = jobs[j].mode /\ row.payload = jobs[j].payload
          /\ row.owner = jobs[j].owner /\ row.attempts = jobs[j].attempts
      BY <1>j DEF Rows
    <3> HIDE DEF row
    <3> QED BY <1>j, <2>2, <3>1, <3>2 DEF WholeRow, ActiveStatuses
  <2>3. CASE jobs[j].status \notin {"queued", "running"}
    BY <1>j, <2>3 DEF CancelRequested
  <2> QED BY <2>1, <2>2, <2>3
<1>8. ASSUME NEW j \in Jobs, RequestCancel(j) PROVE RowsAreWhole'
  BY <1>k, <1>7, <1>8 DEF RequestCancel
<1>9. CASE RequestCancelAll
  BY <1>j, <1>7, <1>9 DEF RequestCancelAll, RowsAreWhole
<1>10. CASE StartRunner
  <2>1. \A j \in Jobs : WholeRow(jobs[j], boot + 1)
    <3> SUFFICES ASSUME NEW j \in Jobs PROVE WholeRow(jobs[j], boot + 1)
      OBVIOUS
    <3>1. jobs[j].owner \in Int /\ jobs[j].owner <= boot
      BY <1>t, <1>j, RowFacts DEF WholeRow
    <3> QED BY <1>t, <1>j, <3>1 DEF WholeRow
  <2>2. \A j \in Jobs : WholeRow(Reclaimed(boot + 1)[j], boot + 1)
    BY <1>t, <2>1, ReclaimedIsWhole
  <2> QED BY <1>10, <2>2 DEF StartRunner, RowsAreWhole
<1>11. CASE Crash \/ UNCHANGED vars
  BY <1>j, <1>11 DEF Crash, vars, RowsAreWhole
<1>12. ASSUME NEW j \in Jobs, RowStep(j) PROVE RowsAreWhole'
  BY <1>3, <1>4, <1>5, <1>6, <1>8, <1>12 DEF RowStep, Recording, Finish
<1> QED BY <1>1, <1>2, <1>9, <1>10, <1>11, <1>12 DEF Next, Enqueue

\* Leases, attempts and paths are as the code writes them in every reachable state.
LEMMA WholeCorrect == Spec => []RowsAreWhole
<1>1. Init => RowsAreWhole
  BY BoundsAssumption DEF Init, RowsAreWhole, WholeRow, Absent, NoPayload, ActiveStatuses
<1> QED BY <1>1, WholeStep, InvCorrect, PTL DEF Spec

\* The row that waits, or is worked on, is the work of its repository.
LEMMA TheRowIsTheWork ==
  ASSUME IInv, NEW r \in Repos, NEW j \in Jobs, jobs[j].repo = r
  PROVE  /\ Queued(j) => WaitingWork[r] = AsWork(jobs[j])
         /\ Working(j) => RunningWork[r] = AsWork(jobs[j])
<1>1. CASE Queued(j)
  <2>1. QueuedFor(r) = {j}
    BY <1>1 DEF IInv, OneQueuedPerRepo, QueuedFor
  <2> QED BY <2>1, <1>1 DEF WaitingWork, WorkIn, Working, Queued
<1>2. CASE Working(j)
  <2>1. WorkingFor(r) = {j}
    BY <1>2 DEF IInv, OneWorkerPerStore, WorkingFor
  <2> QED BY <2>1, <1>2 DEF RunningWork, WorkIn, Working, Queued
<1> QED BY <1>1, <1>2

\* The same after a step.
LEMMA TheRowWillBeTheWork ==
  ASSUME IInv', NEW r \in Repos, NEW j \in Jobs, jobs'[j].repo = r
  PROVE  /\ jobs'[j].status = "queued" => WaitingWork'[r] = AsWork(jobs'[j])
         /\ jobs'[j].status \in {"running", "cancelling"} =>
              RunningWork'[r] = AsWork(jobs'[j])
<1>1. CASE jobs'[j].status = "queued"
  <2>1. QueuedFor(r)' = {j}
    BY <1>1 DEF IInv, OneQueuedPerRepo, QueuedFor, Queued
  <2> QED BY <2>1, <1>1 DEF WaitingWork, WorkIn, AsWork
<1>2. CASE jobs'[j].status \in {"running", "cancelling"}
  <2>1. WorkingFor(r)' = {j}
    BY <1>2 DEF IInv, OneWorkerPerStore, WorkingFor, Working
  <2> QED BY <2>1, <1>2 DEF RunningWork, WorkIn, AsWork
<1> QED BY <1>1, <1>2

\* A repository without rows has no work.
LEMMA NoRowNoWork ==
  ASSUME NEW r \in Repos
  PROVE  /\ QueuedFor(r) = {} => WaitingWork[r] = Work!Nothing
         /\ WorkingFor(r) = {} => RunningWork[r] = Work!Nothing
         /\ QueuedFor(r)' = {} => WaitingWork'[r] = Work!Nothing
         /\ WorkingFor(r)' = {} => RunningWork'[r] = Work!Nothing
  BY DEF WaitingWork, RunningWork, WorkIn, Work!Nothing

\* Work is what some row holds, or nothing.
LEMMA WorkIsARow ==
  ASSUME IInv, RowsAreWhole, NEW r \in Repos
  PROVE  /\ WaitingWork[r] # Work!Nothing <=> QueuedFor(r) # {}
         /\ RunningWork[r] # Work!Nothing <=> WorkingFor(r) # {}
<1>t. TypeOK /\ boot \in Nat
  BY BoundsAssumption DEF IInv, TypeOK
<1>1. ASSUME NEW j \in Jobs PROVE AsWork(jobs[j]) # Work!Nothing
  BY <1>t, RowFacts, RowsAreWork DEF RowsAreWhole
<1>2. ASSUME QueuedFor(r) # {} PROVE WaitingWork[r] # Work!Nothing
  BY <1>1, <1>2, TheRowIsTheWork DEF QueuedFor
<1>3. ASSUME WorkingFor(r) # {} PROVE RunningWork[r] # Work!Nothing
  BY <1>1, <1>3, TheRowIsTheWork DEF WorkingFor
<1> QED BY <1>2, <1>3, NoRowNoWork

\* Repositories whose rows keep their status and work keep their work.
LEMMA WaitingKept ==
  ASSUME NEW r \in Repos,
         \A j \in Jobs : (Queued(j) /\ jobs[j].repo = r) \/ (Queued(j)' /\ jobs'[j].repo = r) =>
           /\ Queued(j) /\ Queued(j)' /\ jobs'[j].repo = jobs[j].repo
           /\ AsWork(jobs'[j]) = AsWork(jobs[j])
  PROVE  WaitingWork'[r] = WaitingWork[r]
<1>1. QueuedFor(r)' = QueuedFor(r)
  BY DEF QueuedFor
<1>2. CASE QueuedFor(r) = {}
  BY <1>1, <1>2, NoRowNoWork
<1>3. CASE QueuedFor(r) # {}
  <2> DEFINE j == CHOOSE j \in QueuedFor(r) : TRUE
  <2>1. j \in QueuedFor(r)
    BY <1>3
  <2>2. WaitingWork[r] = AsWork(jobs[j])
    BY <1>3 DEF WaitingWork, WorkIn
  <2>3. WaitingWork'[r] = AsWork(jobs'[j])
    BY <1>1, <1>3 DEF WaitingWork, WorkIn, AsWork
  <2> HIDE DEF j
  <2> QED BY <2>1, <2>2, <2>3 DEF QueuedFor
<1> QED BY <1>2, <1>3

LEMMA RunningKept ==
  ASSUME NEW r \in Repos,
         \A j \in Jobs : (Working(j) /\ jobs[j].repo = r) \/ (Working(j)' /\ jobs'[j].repo = r) =>
           /\ Working(j) /\ Working(j)' /\ jobs'[j].repo = jobs[j].repo
           /\ AsWork(jobs'[j]) = AsWork(jobs[j])
  PROVE  RunningWork'[r] = RunningWork[r]
<1>1. WorkingFor(r)' = WorkingFor(r)
  BY DEF WorkingFor
<1>2. CASE WorkingFor(r) = {}
  BY <1>1, <1>2, NoRowNoWork
<1>3. CASE WorkingFor(r) # {}
  <2> DEFINE j == CHOOSE j \in WorkingFor(r) : TRUE
  <2>1. j \in WorkingFor(r)
    BY <1>3
  <2>2. RunningWork[r] = AsWork(jobs[j])
    BY <1>3 DEF RunningWork, WorkIn
  <2>3. RunningWork'[r] = AsWork(jobs'[j])
    BY <1>1, <1>3 DEF RunningWork, WorkIn, AsWork
  <2> HIDE DEF j
  <2> QED BY <2>1, <2>2, <2>3 DEF WorkingFor
<1> QED BY <1>2, <1>3

\* A step that changes rows of one repository leaves the work of the others.
LEMMA WorkElsewhere ==
  ASSUME NEW r \in Repos,
         \A j \in Jobs : \/ jobs'[j] = jobs[j]
                         \/ /\ jobs'[j].repo = r
                            /\ jobs[j].repo = r \/ jobs[j].status = "absent"
  PROVE  \A s \in Repos \ {r} : /\ WaitingWork'[s] = WaitingWork[s]
                                /\ RunningWork'[s] = RunningWork[s]
<1> SUFFICES ASSUME NEW s \in Repos \ {r}
             PROVE  WaitingWork'[s] = WaitingWork[s] /\ RunningWork'[s] = RunningWork[s]
  OBVIOUS
<1>1. \A j \in Jobs : (Queued(j) /\ jobs[j].repo = s) \/ (Queued(j)' /\ jobs'[j].repo = s) =>
           /\ Queued(j) /\ Queued(j)' /\ jobs'[j].repo = jobs[j].repo
           /\ AsWork(jobs'[j]) = AsWork(jobs[j])
  BY DEF Queued, AsWork
<1>2. \A j \in Jobs : (Working(j) /\ jobs[j].repo = s) \/ (Working(j)' /\ jobs'[j].repo = s) =>
           /\ Working(j) /\ Working(j)' /\ jobs'[j].repo = jobs[j].repo
           /\ AsWork(jobs'[j]) = AsWork(jobs[j])
  BY DEF Working, AsWork
<1> QED BY <1>1, <1>2, WaitingKept, RunningKept

\* Work is a function on the repositories: it is what it is at each of them.
LEMMA WorkPointwise ==
  ASSUME NEW r \in Repos
  PROVE  /\ (\A s \in Repos \ {r} : WaitingWork'[s] = WaitingWork[s]) =>
              WaitingWork' = [WaitingWork EXCEPT ![r] = WaitingWork'[r]]
         /\ (\A s \in Repos \ {r} : RunningWork'[s] = RunningWork[s]) =>
              RunningWork' = [RunningWork EXCEPT ![r] = RunningWork'[r]]
         /\ (\A s \in Repos : WaitingWork'[s] = WaitingWork[s]) => WaitingWork' = WaitingWork
         /\ (\A s \in Repos : RunningWork'[s] = RunningWork[s]) => RunningWork' = RunningWork
  BY DEF WaitingWork, RunningWork

\* A step that keeps every row's repository, mode, paths and place keeps all work.
LEMMA NothingMoves ==
  ASSUME \A j \in Jobs : /\ jobs'[j].repo = jobs[j].repo
                         /\ Queued(j)' <=> Queued(j)
                         /\ Working(j)' <=> Working(j)
                         /\ AsWork(jobs'[j]) = AsWork(jobs[j])
  PROVE  WaitingWork' = WaitingWork /\ RunningWork' = RunningWork
<1>1. \A r \in Repos : WaitingWork'[r] = WaitingWork[r] /\ RunningWork'[r] = RunningWork[r]
  BY WaitingKept, RunningKept
<1> QED BY <1>1, NonEmptyAssumption, WorkPointwise

\* enqueue joins the request to what waits.
LEMMA EnqueueAsks ==
  ASSUME IInv, IInv', RowsAreWhole, NEW r \in Repos, NEW mode \in Modes,
         NEW paths \in SUBSET Paths, NEW g \in Generations,
         EnqueueMerge(r, mode, paths) \/ EnqueueInsert(r, g, mode, paths)
  PROVE  \E w \in Work!Works : Work!Ask(r, w)
<1> DEFINE payload == RequestPayload(mode, paths)
           w == [mode |-> mode, paths |-> payload.paths]
<1>t. TypeOK /\ boot \in Nat
  BY BoundsAssumption DEF IInv, TypeOK
<1>j. \A j \in Jobs : jobs[j] \in Rows /\ WholeRow(jobs[j], boot)
  BY <1>t, RowFacts DEF RowsAreWhole
<1>p. /\ payload \in Payloads /\ payload.paths \subseteq Paths
      /\ mode # "files" => payload.paths = {}
  BY RequestPayloadType, RequestPaths DEF Payloads
<1>w. w \in Work!Works /\ Work!Join(Work!Nothing, w) = w
  BY <1>p, Weights DEF Modes, Work!Works, Work!Join, Work!Nothing, Work!Weight
<1> HIDE DEF payload
<1>d. ~Work!Deletes(WaitingWork[r]) /\ ~Work!Deletes(RunningWork[r]) /\ alive
  <2>1. DeletionFor(r) = {} /\ alive
    BY DEF EnqueueMerge, EnqueueInsert
  <2>2. \A j \in Jobs : (Queued(j) \/ Working(j)) /\ jobs[j].repo = r =>
           AsWork(jobs[j]).mode # "drop_index"
    BY <2>1 DEF DeletionFor, Deleting, Active, ActiveStatuses, Queued, Working, AsWork
  <2>3. ~Work!Deletes(WaitingWork[r])
    <3>1. CASE QueuedFor(r) = {}
      BY <3>1, NoRowNoWork DEF Work!Deletes, Work!Nothing
    <3>2. CASE QueuedFor(r) # {}
      BY <2>2, <3>2, TheRowIsTheWork DEF QueuedFor, Work!Deletes
    <3> QED BY <3>1, <3>2
  <2>4. ~Work!Deletes(RunningWork[r])
    <3>1. CASE WorkingFor(r) = {}
      BY <3>1, NoRowNoWork DEF Work!Deletes, Work!Nothing
    <3>2. CASE WorkingFor(r) # {}
      BY <2>2, <3>2, TheRowIsTheWork DEF WorkingFor, Work!Deletes
    <3> QED BY <3>1, <3>2
  <2> QED BY <2>1, <2>3, <2>4
<1>1. CASE EnqueueMerge(r, mode, paths)
  <2>1. PICK q \in Jobs : /\ Queued(q) /\ jobs[q].repo = r
                          /\ jobs' = [jobs EXCEPT ![q] = MergeInto(jobs[q], mode, payload)]
    BY <1>1 DEF EnqueueMerge, QueuedFor, payload
  <2> DEFINE row == MergeInto(jobs[q], mode, payload)
  <2>2. row.repo = r /\ row.status = "queued"
    BY <1>j, <1>p, <2>1, MergeIntoFacts DEF Queued
  <2>3. AsWork(row) = Work!Join(AsWork(jobs[q]), w)
    BY <1>t, <1>j, <1>p, MergeJoins
  <2>4. jobs'[q] = row /\ \A j \in Jobs \ {q} : jobs'[j] = jobs[j]
    BY <1>t, <2>1 DEF TypeOK
  <2> HIDE DEF row, w
  <2>5. WaitingWork[r] = AsWork(jobs[q]) /\ WaitingWork'[r] = AsWork(row)
    BY <2>1, <2>2, <2>4, TheRowIsTheWork, TheRowWillBeTheWork
  <2>6. \A s \in Repos \ {r} : /\ WaitingWork'[s] = WaitingWork[s]
                               /\ RunningWork'[s] = RunningWork[s]
    BY <2>1, <2>2, <2>4, WorkElsewhere
  <2>7. RunningWork'[r] = RunningWork[r]
    BY <2>1, <2>2, <2>4, RunningKept DEF Queued, Working
  <2>8. RunningWork' = RunningWork
    BY <2>6, <2>7, WorkPointwise
  <2>9. WaitingWork' = [WaitingWork EXCEPT ![r] = Work!Join(@, w)]
    BY <2>3, <2>5, <2>6, WorkPointwise
  <2> QED BY <1>1, <1>d, <1>w, <2>8, <2>9 DEF EnqueueMerge, Work!Ask
<1>2. CASE EnqueueInsert(r, g, mode, paths)
  <2> DEFINE row == [repo |-> r, generation |-> g, mode |-> mode,
                     payload |-> payload, status |-> "queued",
                     attempts |-> 0, owner |-> 0, expired |-> FALSE]
  <2>1. /\ jobs' = [jobs EXCEPT ![nextId] = row] /\ nextId \in Jobs /\ QueuedFor(r) = {}
        /\ jobs[nextId].status = "absent"
    BY <1>2 DEF EnqueueInsert, payload, IInv, Fresh, Jobs
  <2>2. row.repo = r /\ row.status = "queued" /\ AsWork(row) = w
    BY DEF AsWork
  <2>4. jobs'[nextId] = row /\ \A j \in Jobs \ {nextId} : jobs'[j] = jobs[j]
    BY <1>t, <2>1 DEF TypeOK
  <2> HIDE DEF row, w
  <2>5. WaitingWork[r] = Work!Nothing /\ WaitingWork'[r] = w
    BY <2>1, <2>2, <2>4, NoRowNoWork, TheRowWillBeTheWork
  <2>6. \A s \in Repos \ {r} : /\ WaitingWork'[s] = WaitingWork[s]
                               /\ RunningWork'[s] = RunningWork[s]
    BY <2>1, <2>2, <2>4, WorkElsewhere
  <2>7. RunningWork'[r] = RunningWork[r]
    BY <2>1, <2>2, <2>4, RunningKept DEF Working
  <2>8. RunningWork' = RunningWork
    BY <2>6, <2>7, WorkPointwise
  <2>9. WaitingWork' = [WaitingWork EXCEPT ![r] = Work!Join(@, w)]
    BY <1>w, <2>5, <2>6, WorkPointwise
  <2> QED BY <1>2, <1>d, <1>w, <2>8, <2>9 DEF EnqueueInsert, Work!Ask
<1> QED BY <1>1, <1>2

\* claim_next starts what waits, in a store where nothing is done.
LEMMA ClaimStarts ==
  ASSUME IInv, IInv', RowsAreWhole, NEW j \in Jobs, ClaimNext(j)
  PROVE  Work!Start(jobs[j].repo)
<1> DEFINE r == jobs[j].repo
           row == [jobs[j] EXCEPT !.status = "running", !.owner = boot, !.expired = FALSE]
<1>t. TypeOK /\ r \in Repos /\ jobs[j] \in Rows
  BY RowFacts DEF IInv
<1>1. /\ jobs' = [jobs EXCEPT ![j] = row] /\ Queued(j) /\ alive /\ alive' = alive
      /\ Claimable(j) /\ \A k \in Jobs : Claimable(k) => Before(j, k)
  BY DEF ClaimNext, Claimable
<1>2. row.repo = r /\ row.status = "running" /\ AsWork(row) = AsWork(jobs[j])
  BY <1>t DEF AsWork, Rows
<1>3. jobs'[j] = row /\ \A k \in Jobs \ {j} : jobs'[k] = jobs[k]
  BY <1>t, <1>1 DEF TypeOK
<1> HIDE DEF row
<1>4. /\ WaitingWork[r] = AsWork(jobs[j]) /\ RunningWork'[r] = AsWork(jobs[j])
      /\ WaitingWork[r] # Work!Nothing /\ WaitingWork'[r] = Work!Nothing
  <2>1. QueuedFor(r)' = {}
    BY <1>1, <1>2, <1>3 DEF QueuedFor, Queued, IInv, OneQueuedPerRepo
  <2>2. QueuedFor(r) # {}
    BY <1>1 DEF QueuedFor
  <2> QED BY <1>t, <1>1, <1>2, <1>3, <2>1, <2>2, NoRowNoWork, TheRowIsTheWork, TheRowWillBeTheWork,
             WorkIsARow
<1>5. \A s \in Repos \ {r} : WaitingWork'[s] = WaitingWork[s] /\ RunningWork'[s] = RunningWork[s]
  BY <1>t, <1>2, <1>3, WorkElsewhere
<1>6. \A s \in Repos : RunningWork[s] # Work!Nothing =>
        \E k \in Jobs : Working(k) /\ jobs[k].repo = s
  BY WorkIsARow DEF WorkingFor
<1>7. Work!Startable(r)
  BY <1>1, <1>4, <1>6 DEF Work!Startable, Claimable
<1>8. ASSUME WaitingWork[r].mode = "cleanup", NEW s \in Repos, Work!Startable(s)
      PROVE  WaitingWork[s].mode = "cleanup"
  <2>1. PICK k \in Jobs : Queued(k) /\ jobs[k].repo = s
    BY <1>8, WorkIsARow DEF Work!Startable, QueuedFor
  <2>2. Claimable(k)
    <3> SUFFICES ASSUME NEW i \in Jobs, Working(i)
                 PROVE  StoreOf[jobs[i].repo] # StoreOf[jobs[k].repo]
      BY <2>1 DEF Claimable
    <3>1. jobs[i].repo \in Repos /\ WorkingFor(jobs[i].repo) # {}
      BY <1>t, RowFacts DEF WorkingFor
    <3> QED BY <1>8, <2>1, <3>1, WorkIsARow DEF Work!Startable
  <2>3. jobs[j].mode = "cleanup"
    BY <1>4, <1>8 DEF AsWork
  <2>4. jobs[k].mode = "cleanup"
    BY <1>1, <2>2, <2>3 DEF Before
  <2>5. WaitingWork[s] = AsWork(jobs[k])
    BY <2>1, TheRowIsTheWork
  <2> QED BY <2>4, <2>5 DEF AsWork
<1>9. WaitingWork' = [WaitingWork EXCEPT ![r] = Work!Nothing]
  BY <1>t, <1>4, <1>5, WorkPointwise
<1>10. RunningWork' = [RunningWork EXCEPT ![r] = WaitingWork[r]]
  BY <1>t, <1>4, <1>5, WorkPointwise
<1> HIDE DEF r
<1>11. Work!Start(r)
  BY <1>1, <1>7, <1>8, <1>9, <1>10 DEF Work!Start
<1> QED BY <1>11 DEF r

\* When a worker gives a row back its repository has no work in progress.
LEMMA GivenBack ==
  ASSUME IInv, IInv', NEW j \in Jobs, Working(j),
         \A k \in Jobs : jobs'[k].repo = jobs[k].repo,
         \A k \in Jobs \ {j} : Working(k)' => Working(k), ~Working(j)'
  PROVE  RunningWork'[jobs[j].repo] = Work!Nothing
<1>1. jobs[j].repo \in Repos
  BY RowFacts DEF IInv
<1>2. WorkingFor(jobs[j].repo)' = {}
  BY DEF WorkingFor, IInv, OneWorkerPerStore
<1> QED BY <1>1, <1>2, NoRowNoWork

\* complete, mark_cancelled and a last failure end the work.
LEMMA SettlingEnds ==
  ASSUME IInv, IInv', RowsAreWhole, NEW j \in Jobs, Working(j), NEW row,
         jobs' = [jobs EXCEPT ![j] = row], alive, alive' = alive,
         row.repo = jobs[j].repo, row.status \notin ActiveStatuses
  PROVE  Work!End(jobs[j].repo)
<1> DEFINE r == jobs[j].repo
<1>t. TypeOK /\ r \in Repos
  BY RowFacts DEF IInv
<1>1. jobs'[j] = row /\ \A k \in Jobs \ {j} : jobs'[k] = jobs[k]
  BY <1>t DEF TypeOK
<1>2. RunningWork'[r] = Work!Nothing
  BY <1>1, GivenBack DEF Working, ActiveStatuses
<1>3. RunningWork[r] # Work!Nothing
  BY <1>t, WorkIsARow DEF WorkingFor
<1>4. WaitingWork'[r] = WaitingWork[r]
  BY <1>t, <1>1, WaitingKept DEF Queued, Working, ActiveStatuses
<1>5. \A s \in Repos \ {r} : WaitingWork'[s] = WaitingWork[s] /\ RunningWork'[s] = RunningWork[s]
  BY <1>t, <1>1, WorkElsewhere
<1>6. WaitingWork' = WaitingWork
  BY <1>t, <1>4, <1>5, WorkPointwise
<1>7. RunningWork' = [RunningWork EXCEPT ![r] = Work!Nothing]
  BY <1>t, <1>2, <1>5, WorkPointwise
<1> HIDE DEF r
<1>8. Work!End(r)
  BY <1>3, <1>6, <1>7 DEF Work!End
<1> QED BY <1>8 DEF r

\* fail_or_retry ends the work, or joins it to what waits.
LEMMA FailureEndsOrReturns ==
  ASSUME IInv, IInv', RowsAreWhole, NEW j \in Jobs, FailOrRetry(j)
  PROVE  Work!End(jobs[j].repo) \/ Work!Return(jobs[j].repo)
<1> DEFINE attempts == jobs[j].attempts + 1
           r == jobs[j].repo
           others == QueuedFor(r) \ {j}
<1>t. TypeOK /\ boot \in Nat
  BY BoundsAssumption DEF IInv, TypeOK
<1>j. /\ r \in Repos /\ attempts \in Nat /\ Working(j) /\ ~Queued(j) /\ alive /\ alive' = alive
      /\ \A k \in Jobs : jobs[k] \in Rows /\ WholeRow(jobs[k], boot)
  BY <1>t, RowFacts DEF FailOrRetry, IInv, HeldRowsStayLeased, RowsAreWhole, Working, Queued
<1>w. RunningWork[r] = AsWork(jobs[j]) /\ RunningWork[r] # Work!Nothing
  BY <1>j, TheRowIsTheWork, WorkIsARow DEF WorkingFor
<1>1. ASSUME jobs' = [jobs EXCEPT ![j] = Retried(jobs[j], attempts)],
             attempts >= MaxAttempts \/ others = {}
      PROVE  Work!End(r) \/ Work!Return(r)
  <2> DEFINE row == Retried(jobs[j], attempts)
  <2>1. /\ row.repo = r /\ row.mode = jobs[j].mode /\ row.payload = jobs[j].payload
        /\ row.status \in {"failed", "queued"}
        /\ attempts >= MaxAttempts => row.status = "failed"
    <3> HIDE DEF attempts
    <3> QED BY <1>j, RetriedKeepsWork, RetriedFacts
  <2>2. jobs'[j] = row /\ \A k \in Jobs \ {j} : jobs'[k] = jobs[k]
    BY <1>t, <1>1 DEF TypeOK
  <2> HIDE DEF row, attempts
  <2>3. CASE row.status = "failed"
    <3>1. jobs' = [jobs EXCEPT ![j] = row]
      BY <1>1 DEF row
    <3> QED BY <1>j, <2>1, <2>3, <3>1, SettlingEnds DEF ActiveStatuses
  <2>4. CASE row.status = "queued"
    <3>1. QueuedFor(r) = {}
      BY <1>1, <1>j, <2>1, <2>4 DEF QueuedFor
    <3>2. WaitingWork[r] = Work!Nothing /\ WaitingWork'[r] = AsWork(jobs[j])
      BY <1>j, <2>1, <2>2, <2>4, <3>1, NoRowNoWork, TheRowWillBeTheWork DEF AsWork
    <3>3. Work!Join(Work!Nothing, AsWork(jobs[j])) = AsWork(jobs[j])
      BY <1>t, <1>j, RowsAreWork
    <3>4. RunningWork'[r] = Work!Nothing
      BY <1>j, <2>1, <2>2, <2>4, GivenBack DEF Working
    <3>5. \A s \in Repos \ {r} : /\ WaitingWork'[s] = WaitingWork[s]
                                 /\ RunningWork'[s] = RunningWork[s]
      BY <1>j, <2>1, <2>2, WorkElsewhere
    <3>6. WaitingWork' = [WaitingWork EXCEPT ![r] = Work!Join(@, RunningWork[r])]
      BY <1>j, <1>w, <3>2, <3>3, <3>5, WorkPointwise
    <3>7. RunningWork' = [RunningWork EXCEPT ![r] = Work!Nothing]
      BY <1>j, <3>4, <3>5, WorkPointwise
    <3> HIDE DEF r
    <3> QED BY <1>j, <1>w, <3>6, <3>7 DEF Work!Return
  <2> QED BY <2>1, <2>3, <2>4
<1>2. ASSUME NEW q \in others,
             jobs' = [jobs EXCEPT
               ![q] = MergeInto(@, jobs[j].mode, jobs[j].payload),
               ![j] = [Settled(@, "cancelled") EXCEPT !.attempts = attempts]]
      PROVE  Work!Return(r)
  <2> DEFINE row == MergeInto(jobs[q], jobs[j].mode, jobs[j].payload)
             old == [Settled(jobs[j], "cancelled") EXCEPT !.attempts = attempts]
  <2>1. q \in Jobs /\ Queued(q) /\ jobs[q].repo = r /\ q # j
    BY DEF QueuedFor
  <2>2. jobs'[j] = old /\ jobs'[q] = row /\ \A k \in Jobs \ {j, q} : jobs'[k] = jobs[k]
    BY <1>t, <1>2, <2>1 DEF TypeOK
  <2>3. row.repo = r /\ row.status = "queued" /\ old.repo = r /\ old.status = "cancelled"
    BY <1>t, <1>j, <2>1, RowFacts, MergeIntoFacts, SettledKeepsWork DEF Queued
  <2>4. AsWork(row) = Work!Join(AsWork(jobs[q]), AsWork(jobs[j]))
    <3>1. AsWork(jobs[j]) = [mode |-> jobs[j].mode, paths |-> jobs[j].payload.paths]
      BY DEF AsWork
    <3>2. /\ jobs[j].mode \in Modes /\ jobs[j].payload \in Payloads
          /\ jobs[j].mode # "files" => jobs[j].payload.paths = {}
      BY <1>t, <1>j, RowFacts DEF WholeRow
    <3> QED BY <1>t, <1>j, <2>1, <3>1, <3>2, MergeJoins
  <2> HIDE DEF row, old
  <2>5. WaitingWork[r] = AsWork(jobs[q]) /\ WaitingWork'[r] = AsWork(row)
    BY <1>j, <2>1, <2>2, <2>3, TheRowIsTheWork, TheRowWillBeTheWork
  <2>6. RunningWork'[r] = Work!Nothing
    BY <1>j, <2>1, <2>2, <2>3, GivenBack DEF Working
  <2>7. \A s \in Repos \ {r} : WaitingWork'[s] = WaitingWork[s] /\ RunningWork'[s] = RunningWork[s]
    BY <1>j, <2>1, <2>2, <2>3, WorkElsewhere
  <2>8. WaitingWork' = [WaitingWork EXCEPT ![r] = Work!Join(@, RunningWork[r])]
    BY <1>j, <1>w, <2>4, <2>5, <2>7, WorkPointwise
  <2>9. RunningWork' = [RunningWork EXCEPT ![r] = Work!Nothing]
    BY <1>j, <2>6, <2>7, WorkPointwise
  <2> HIDE DEF r
  <2> QED BY <1>j, <1>w, <2>8, <2>9 DEF Work!Return
<1> QED BY <1>1, <1>2 DEF FailOrRetry

\* What a cancellation request leaves of a row.
LEMMA CancelRequestedWork ==
  ASSUME NEW row \in Rows
  PROVE  /\ AsWork(CancelRequested(row)) = AsWork(row)
         /\ CancelRequested(row).repo = row.repo
         /\ CancelRequested(row).status # "queued"
         /\ CancelRequested(row).status \in {"running", "cancelling"} <=>
              row.status \in {"running", "cancelling"}
<1>1. CASE row.status = "queued"
  BY <1>1, SettledKeepsWork DEF CancelRequested, AsWork
<1>2. CASE row.status = "running"
  <2>1. CancelRequested(row) = [row EXCEPT !.status = "cancelling"]
    BY <1>2 DEF CancelRequested
  <2> QED BY <1>2, <2>1 DEF Rows, AsWork
<1>3. CASE row.status \notin {"queued", "running"}
  BY <1>3 DEF CancelRequested
<1> QED BY <1>1, <1>2, <1>3

\* request_cancel withdraws what waits; what runs goes on until its worker stops it.
LEMMA CancelWithdraws ==
  ASSUME IInv, IInv', NEW j \in Jobs, RequestCancel(j)
  PROVE  Work!Withdraw(jobs[j].repo) \/ UNCHANGED <<WaitingWork, RunningWork, alive>>
<1> SUFFICES ASSUME NEW r \in Repos, jobs[j].repo = r
             PROVE  Work!Withdraw(r) \/ UNCHANGED <<WaitingWork, RunningWork, alive>>
  BY RowFacts DEF IInv
<1> DEFINE row == CancelRequested(jobs[j])
<1>t. TypeOK /\ jobs[j] \in Rows
  BY RowFacts DEF IInv
<1>1. jobs'[j] = row /\ (\A k \in Jobs \ {j} : jobs'[k] = jobs[k]) /\ alive /\ alive' = alive
  BY <1>t DEF TypeOK, RequestCancel
<1>2. /\ AsWork(row) = AsWork(jobs[j]) /\ row.repo = r /\ row.status # "queued"
      /\ row.status \in {"running", "cancelling"} <=> Working(j)
  BY <1>t, CancelRequestedWork DEF Working
<1> HIDE DEF row
<1>3. CASE Queued(j)
  <2>1. QueuedFor(r)' = {}
    BY <1>1, <1>2, <1>3 DEF QueuedFor, Queued, IInv, OneQueuedPerRepo
  <2>2. WaitingWork'[r] = Work!Nothing
    BY <1>t, <2>1, NoRowNoWork
  <2>3. RunningWork'[r] = RunningWork[r]
    BY <1>t, <1>1, <1>2, <1>3, RunningKept DEF Queued, Working
  <2>4. \A s \in Repos \ {r} : /\ WaitingWork'[s] = WaitingWork[s]
                               /\ RunningWork'[s] = RunningWork[s]
    BY <1>t, <1>1, <1>2, WorkElsewhere
  <2>5. WaitingWork' = [WaitingWork EXCEPT ![r] = Work!Nothing]
    BY <1>t, <2>2, <2>4, WorkPointwise
  <2>6. RunningWork' = RunningWork
    BY <1>t, <2>3, <2>4, WorkPointwise
  <2> QED BY <1>1, <2>5, <2>6 DEF Work!Withdraw
<1>4. CASE ~Queued(j)
  <2>1. \A k \in Jobs : /\ jobs'[k].repo = jobs[k].repo
                        /\ Queued(k)' <=> Queued(k)
                        /\ Working(k)' <=> Working(k)
                        /\ AsWork(jobs'[k]) = AsWork(jobs[k])
    BY <1>1, <1>2, <1>4 DEF Queued, Working
  <2> QED BY <1>1, <2>1, NothingMoves
<1> QED BY <1>3, <1>4

\* request_cancel_all withdraws all that waits but the deletions.
LEMMA CancelAllWithdraws ==
  ASSUME IInv, IInv', RequestCancelAll
  PROVE  Work!WithdrawAll
<1>t. TypeOK
  BY DEF IInv
<1>1. /\ alive /\ alive' = alive
      /\ \A j \in Jobs : jobs'[j] = IF jobs[j].mode = "drop_index" THEN jobs[j]
                                    ELSE CancelRequested(jobs[j])
  BY DEF RequestCancelAll
<1>2. ASSUME NEW j \in Jobs
      PROVE  /\ AsWork(jobs'[j]) = AsWork(jobs[j]) /\ jobs'[j].repo = jobs[j].repo
             /\ Working(j)' <=> Working(j)
             /\ Queued(j)' <=> Queued(j) /\ jobs[j].mode = "drop_index"
  <2>1. jobs[j] \in Rows
    BY <1>t, RowFacts
  <2> QED BY <1>1, <2>1, CancelRequestedWork DEF Queued, Working
<1>3. ASSUME NEW r \in Repos
      PROVE  /\ RunningWork'[r] = RunningWork[r]
             /\ WaitingWork'[r] = IF Work!Deletes(WaitingWork[r]) THEN WaitingWork[r]
                                  ELSE Work!Nothing
  <2>1. RunningWork'[r] = RunningWork[r]
    BY <1>2, RunningKept
  <2>2. CASE QueuedFor(r) = {}
    <3>1. QueuedFor(r)' = {}
      BY <1>2, <2>2 DEF QueuedFor
    <3> QED BY <2>1, <2>2, <3>1, NoRowNoWork
  <2>3. ASSUME NEW j \in Jobs, Queued(j), jobs[j].repo = r
        PROVE  WaitingWork'[r] = IF Work!Deletes(WaitingWork[r]) THEN WaitingWork[r]
                                 ELSE Work!Nothing
    <3>1. WaitingWork[r] = AsWork(jobs[j])
      BY <2>3, TheRowIsTheWork
    <3>2. Work!Deletes(WaitingWork[r]) <=> jobs[j].mode = "drop_index"
      BY <3>1 DEF Work!Deletes, AsWork
    <3>3. CASE jobs[j].mode = "drop_index"
      <4>1. jobs'[j] = jobs[j]
        BY <1>1, <3>3
      <4>2. WaitingWork'[r] = AsWork(jobs'[j])
        BY <2>3, <4>1, TheRowWillBeTheWork DEF Queued
      <4> QED BY <3>1, <3>2, <3>3, <4>1, <4>2
    <3>4. CASE jobs[j].mode # "drop_index"
      <4>1. QueuedFor(r)' = {}
        BY <1>2, <2>3, <3>4 DEF QueuedFor, IInv, OneQueuedPerRepo
      <4> QED BY <3>2, <3>4, <4>1, NoRowNoWork
    <3> QED BY <3>3, <3>4
  <2> QED BY <2>1, <2>2, <2>3 DEF QueuedFor
<1>4. RunningWork' = RunningWork
  BY <1>3, NonEmptyAssumption, WorkPointwise
<1>5. WaitingWork' = [r \in Repos |-> IF Work!Deletes(WaitingWork[r]) THEN WaitingWork[r]
                                      ELSE Work!Nothing]
  BY <1>3 DEF WaitingWork
<1> QED BY <1>1, <1>4, <1>5 DEF Work!WithdrawAll

\* The start of a runner joins all interrupted work to what waits.
LEMMA RecoveryRestarts ==
  ASSUME IInv, IInv', RowsAreWhole, StartRunner
  PROVE  Work!Restart
<1> DEFINE o == boot + 1
<1>t. TypeOK /\ boot \in Nat
  BY BoundsAssumption DEF IInv, TypeOK
<1>j. \A j \in Jobs : /\ jobs[j] \in Rows /\ WholeRow(jobs[j], boot)
                      /\ jobs[j].attempts \in Nat /\ jobs[j].attempts + 1 \in Nat
                      /\ jobs[j].mode \in Modes /\ jobs[j].payload \in Payloads
  BY <1>t, RowFacts DEF RowsAreWhole
<1>1. ~alive /\ alive' = TRUE /\ \A j \in Jobs : jobs'[j] = Reclaimed(o)[j]
  BY DEF StartRunner
<1>2. ASSUME NEW j \in Jobs PROVE Stale(j, o) <=> Working(j)
  <2>1. jobs[j].owner \in Int /\ jobs[j].owner <= boot
    BY <1>t, <1>j, RowFacts DEF WholeRow
  <2> QED BY <1>t, <2>1 DEF Stale
<1>3. ASSUME NEW j \in Jobs
      PROVE  /\ jobs'[j].repo = jobs[j].repo /\ ~Working(j)'
             /\ ~Working(j) /\ ~Queued(j) => jobs'[j] = jobs[j]
  BY <1>t, <1>1, <1>2, ReclaimedFacts DEF Working
<1>4. ASSUME NEW r \in Repos PROVE RunningWork'[r] = Work!Nothing
  <2>1. WorkingFor(r)' = {}
    BY <1>3 DEF WorkingFor
  <2> QED BY <2>1, NoRowNoWork
<1>5. ASSUME NEW r \in Repos
      PROVE  WaitingWork'[r] = Work!Join(WaitingWork[r], RunningWork[r])
  <2>1. CASE QueuedFor(r) = {} /\ WorkingFor(r) = {}
    <3>1. QueuedFor(r)' = {}
      BY <1>3, <2>1 DEF QueuedFor, WorkingFor, Queued
    <3> QED BY <2>1, <3>1, NoRowNoWork, NothingJoins
  <2>2. ASSUME QueuedFor(r) = {}, NEW j \in Jobs, Working(j), jobs[j].repo = r
        PROVE  WaitingWork'[r] = Work!Join(WaitingWork[r], RunningWork[r])
    <3>1. Stale(j, o) /\ jobs[j].owner # o
      <4>1. jobs[j].owner \in Int /\ jobs[j].owner <= boot
        BY <1>t, <1>j, RowFacts DEF WholeRow
      <4> QED BY <1>t, <1>2, <2>2, <4>1
    <3>2. jobs'[j] = Retried(jobs[j], jobs[j].attempts)
      BY <1>1, <2>2, <3>1 DEF Reclaimed, Queued, Working
    <3>3. jobs[j].attempts < MaxAttempts
      BY <1>j, <2>2 DEF WholeRow, Working, ActiveStatuses
    <3>4. jobs'[j].status = "queued" /\ AsWork(jobs'[j]) = AsWork(jobs[j])
      BY <1>j, <3>2, <3>3, RetriedFacts, RetriedKeepsWork DEF AsWork
    <3>5. WaitingWork[r] = Work!Nothing /\ RunningWork[r] = AsWork(jobs[j])
      BY <2>2, NoRowNoWork, TheRowIsTheWork
    <3>6. WaitingWork'[r] = AsWork(jobs'[j])
      BY <1>3, <2>2, <3>4, TheRowWillBeTheWork
    <3> QED BY <1>t, <1>j, <3>4, <3>5, <3>6, RowsAreWork
  <2>3. ASSUME NEW q \in Jobs, Queued(q), jobs[q].repo = r, WorkingFor(r) = {}
        PROVE  WaitingWork'[r] = Work!Join(WaitingWork[r], RunningWork[r])
    <3>1. \A k \in Jobs : Stale(k, o) => jobs[k].repo # jobs[q].repo
      BY <1>2, <2>3 DEF WorkingFor
    <3>2. jobs'[q] = jobs[q]
      BY <1>1, <2>3, <3>1 DEF Reclaimed
    <3>3. WaitingWork[r] = AsWork(jobs[q]) /\ RunningWork[r] = Work!Nothing
      BY <2>3, NoRowNoWork, TheRowIsTheWork
    <3>4. WaitingWork'[r] = AsWork(jobs'[q])
      BY <2>3, <3>2, TheRowWillBeTheWork DEF Queued
    <3> QED BY <1>t, <1>j, <3>2, <3>3, <3>4, RowsAreWork
  <2>4. ASSUME NEW q \in Jobs, Queued(q), jobs[q].repo = r,
               NEW j \in Jobs, Working(j), jobs[j].repo = r
        PROVE  WaitingWork'[r] = Work!Join(WaitingWork[r], RunningWork[r])
    <3> DEFINE k0 == CHOOSE k \in Jobs : Stale(k, o) /\ jobs[k].repo = jobs[q].repo
    <3>1. k0 \in Jobs /\ Stale(k0, o) /\ jobs[k0].repo = r
      BY <1>2, <2>4
    <3>2. ~Stale(q, o)
      BY <1>2, <2>4 DEF Working, Queued
    <3>3. jobs'[q] = MergeInto(jobs[q], jobs[k0].mode, jobs[k0].payload)
      BY <1>1, <1>2, <2>4, <3>2 DEF Reclaimed
    <3> HIDE DEF k0
    <3>4. k0 = j
      BY <1>2, <2>4, <3>1 DEF IInv, OneWorkerPerStore
    <3>5. /\ AsWork(jobs'[q]) = Work!Join(AsWork(jobs[q]), AsWork(jobs[j]))
          /\ jobs'[q].status = "queued"
      <4>1. AsWork(jobs[j]) = [mode |-> jobs[j].mode, paths |-> jobs[j].payload.paths]
        BY DEF AsWork
      <4>2. jobs[j].mode # "files" => jobs[j].payload.paths = {}
        BY <1>j DEF WholeRow
      <4> QED BY <1>t, <1>j, <2>4, <3>3, <3>4, <4>1, <4>2, MergeJoins, MergeIntoFacts DEF Queued
    <3>6. WaitingWork[r] = AsWork(jobs[q]) /\ RunningWork[r] = AsWork(jobs[j])
      BY <2>4, TheRowIsTheWork
    <3>7. WaitingWork'[r] = AsWork(jobs'[q])
      BY <1>3, <2>4, <3>5, TheRowWillBeTheWork
    <3> QED BY <3>5, <3>6, <3>7
  <2> QED BY <2>1, <2>2, <2>3, <2>4 DEF QueuedFor, WorkingFor
<1>6. WaitingWork' = [r \in Repos |-> Work!Join(WaitingWork[r], RunningWork[r])]
  BY <1>5 DEF WaitingWork
<1>7. RunningWork' = [r \in Repos |-> Work!Nothing]
  BY <1>4 DEF RunningWork
<1> QED BY <1>1, <1>6, <1>7 DEF Work!Restart

\* Leases, manifests and acknowledgements are no work.
LEMMA RecordsMoveNothing ==
  ASSUME IInv, NEW j \in Jobs, Recording(j)
  PROVE  UNCHANGED <<WaitingWork, RunningWork, alive>>
<1>t. TypeOK
  BY DEF IInv
<1>1. PICK row : /\ jobs' = [jobs EXCEPT ![j] = row] /\ alive' = alive
                 /\ row.repo = jobs[j].repo /\ row.status = jobs[j].status
                 /\ row.mode = jobs[j].mode /\ row.payload.paths = jobs[j].payload.paths
  BY <1>t, RecordingKeeps
<1>2. jobs'[j] = row /\ \A k \in Jobs \ {j} : jobs'[k] = jobs[k]
  BY <1>t, <1>1 DEF TypeOK
<1>3. \A k \in Jobs : /\ jobs'[k].repo = jobs[k].repo
                      /\ Queued(k)' <=> Queued(k)
                      /\ Working(k)' <=> Working(k)
                      /\ AsWork(jobs'[k]) = AsWork(jobs[k])
  BY <1>1, <1>2 DEF Queued, Working, AsWork
<1> QED BY <1>1, <1>3, NothingMoves

\* Every step of the queue is one that RepositoryWork allows, or changes no work.
LEMMA WorkStep ==
  IInv /\ IInv' /\ RowsAreWhole /\ [Next]_vars => [Work!Next]_(Work!vars)
<1> SUFFICES ASSUME IInv, IInv', RowsAreWhole, [Next]_vars
             PROVE  Work!Next \/ UNCHANGED <<WaitingWork, RunningWork, alive>>
  BY DEF Work!vars
<1>t. \A j \in Jobs : jobs[j].repo \in Repos
  BY RowFacts DEF IInv
<1>1. ASSUME NEW r \in Repos, NEW mode \in Modes, NEW paths \in SUBSET Paths,
             EnqueueMerge(r, mode, paths) \/ \E g \in Generations : EnqueueInsert(r, g, mode, paths)
      PROVE  Work!Next
  BY <1>1, NonEmptyAssumption, EnqueueAsks DEF Work!Next
<1>2. ASSUME NEW j \in Jobs, ClaimNext(j) PROVE Work!Next
  BY <1>t, <1>2, ClaimStarts DEF Work!Next
<1>3. ASSUME NEW j \in Jobs, Complete(j) \/ MarkCancelled(j) PROVE Work!Next
  <2>1. PICK status \in {"cancelled", "completed"} :
          jobs' = [jobs EXCEPT ![j] = Settled(jobs[j], status)]
    BY <1>3 DEF Complete, MarkCancelled
  <2>2. Working(j) /\ alive /\ alive' = alive
    BY <1>3 DEF Complete, MarkCancelled, IInv, HeldRowsStayLeased
  <2>3. Settled(jobs[j], status).repo = jobs[j].repo
        /\ Settled(jobs[j], status).status \notin ActiveStatuses
    BY <2>1, RowFacts, SettledKeepsWork DEF IInv, ActiveStatuses
  <2>4. Work!End(jobs[j].repo)
    BY <2>1, <2>2, <2>3, SettlingEnds
  <2> QED BY <1>t, <2>4 DEF Work!Next
<1>4. ASSUME NEW j \in Jobs, FailOrRetry(j) PROVE Work!Next
  BY <1>t, <1>4, FailureEndsOrReturns DEF Work!Next
<1>5. ASSUME NEW j \in Jobs, RequestCancel(j)
      PROVE  Work!Next \/ UNCHANGED <<WaitingWork, RunningWork, alive>>
  BY <1>t, <1>5, CancelWithdraws DEF Work!Next
<1>6. ASSUME NEW j \in Jobs, RowStep(j)
      PROVE  Work!Next \/ UNCHANGED <<WaitingWork, RunningWork, alive>>
  BY <1>2, <1>3, <1>4, <1>5, <1>6, RecordsMoveNothing DEF RowStep, Recording, Finish
<1>7. CASE RequestCancelAll
  BY <1>7, CancelAllWithdraws DEF Work!Next
<1>8. CASE StartRunner
  BY <1>8, RecoveryRestarts DEF Work!Next
<1>9. ASSUME jobs' = jobs PROVE WaitingWork' = WaitingWork /\ RunningWork' = RunningWork
  BY <1>9, NothingMoves DEF Queued, Working
<1>10. CASE Crash
  BY <1>9, <1>10 DEF Crash, Work!Stop, Work!Next
<1>11. CASE UNCHANGED vars
  BY <1>9, <1>11 DEF vars
<1> QED BY <1>1, <1>6, <1>7, <1>8, <1>10, <1>11 DEF Next, Enqueue

\* The queue is a RepositoryWork: the work of each repository only grows, starts
\* alone in its store, comes back when it is interrupted, and goes by an end
\* of the worker's own or a cancellation (jobs.py).
THEOREM QueueImplementsWork == Spec => ImplementsWork
<1>1. Init => Work!Init
  <2> SUFFICES ASSUME Init PROVE Work!Init
    OBVIOUS
  <2>1. \A r \in Repos : QueuedFor(r) = {} /\ WorkingFor(r) = {}
    BY DEF Init, Absent, QueuedFor, WorkingFor, Queued, Working
  <2>2. \A r \in Repos : WaitingWork[r] = Work!Nothing /\ RunningWork[r] = Work!Nothing
    BY <2>1, NoRowNoWork
  <2> QED BY <2>2 DEF Init, WaitingWork, RunningWork, Work!Init
<1>2. Spec => [][Work!Next]_(Work!vars)
  BY WorkStep, InvCorrect, WholeCorrect, PTL DEF Spec
<1> QED BY <1>1, <1>2, PTL DEF Spec, ImplementsWork, Work!Spec
=============================================================================
