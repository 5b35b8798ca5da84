---------------------------- MODULE WatcherProofs ----------------------------
(***************************************************************************)
(* Theorems about the watcher of one root, whatever happens to its tree.   *)
(***************************************************************************)
EXTENDS Watcher, TLAPS

\* The version a fingerprint testifies to: the one it saw dirty, or HEAD's.
Evidence(r) == IF r.dirty THEN r.stamp ELSE r.head

\* The present version has been, or is going to be, handed to the runner.
InHand ==
  \/ pending \/ sending \/ queued \/ lost
  \/ running = "claimed"
  \/ running = "discovered" /\ found = work
  \/ covered = work

\* What was seen of the tree, and what the index has of it, was made before.
NothingFromTheFuture ==
  /\ work \in 1 .. newest
  /\ {head, found, covered, reading.head, reading.stamp,
      baseline.head, baseline.stamp} \subseteq 0 .. newest

\* What a job has found is the present content, unless since its discovery
\* there is a newer one, which no index has, or one has come back.
FoundIsPresent ==
  running = "discovered" /\ ~lost =>
    found = work \/ (work = newest /\ found < work /\ covered < work)

\* A first observation that is about to become the baseline shows the present
\* content only as long as the tree has not changed, or a return is known.
FirstLookIsCovered ==
  at = "compare" /\ ~baseline.known /\ Evidence(reading) = work /\ touched => InHand

\* A baseline that shows the present content came with a report of it, or is
\* the first one of a tree that has not changed since.
BaselineWasReported ==
  baseline.known /\ Evidence(baseline) = work /\ touched => InHand

\* Without a baseline there is none to compare with, and no base.
NoBaseline ==
  /\ ~baseline.known => baseline = None
  /\ at = "down" => ~baseline.known
  /\ at = "compare" => reading.known

\* TypeOK in two parts.
Flags ==
  /\ pending \in BOOLEAN /\ timer \in BOOLEAN /\ sending \in BOOLEAN
  /\ queued \in BOOLEAN /\ cancelling \in BOOLEAN
  /\ touched \in BOOLEAN /\ lost \in BOOLEAN

Values ==
  /\ work \in Nat /\ head \in Nat /\ newest \in Nat
  /\ found \in Nat /\ covered \in Nat
  /\ spent \in 0 .. MaxAttempts - 1 /\ attempts \in 0 .. MaxAttempts - 1
  /\ at \in {"down", "reconcile", "asleep", "head", "status", "metadata", "compare"}
  /\ reading \in Fingerprints /\ baseline \in Fingerprints
  /\ interval \in ActiveInterval .. IdleInterval
  /\ running \in {"none", "claimed", "discovered"}
  /\ faults \in Nat

\* The two parts are the whole.
LEMMA TypesAreBoth == TypeOK <=> Flags /\ Values
  BY DEF TypeOK, Flags, Values

\* A change that waits has a debounce task that will report it.
PendingIsTimed == pending => timer

WatchInv ==
  /\ Flags
  /\ Values
  /\ NothingFromTheFuture
  /\ PendingIsTimed
  /\ FoundIsPresent
  /\ FirstLookIsCovered
  /\ BaselineWasReported
  /\ NoBaseline

\* A fingerprint taken of the present tree testifies to the present version.
LEMMA FingerprintIsEvidence ==
  ASSUME WatchInv, baseline = Fingerprint
  PROVE  baseline.known /\ Evidence(baseline) = work
<1>1. CASE Dirty
  BY <1>1 DEF Fingerprint, Evidence, Stamp
<1>2. CASE ~Dirty
  BY <1>2 DEF Fingerprint, Evidence, Stamp, Dirty
<1> QED BY <1>1, <1>2
-----------------------------------------------------------------------------
(***************************************************************************)
(* Every step keeps the invariant.                                         *)
(***************************************************************************)
\* Nothing is known of a root that nobody has watched yet.
LEMMA InitInv == Init => WatchInv
<1> SUFFICES ASSUME Init PROVE WatchInv
  OBVIOUS
<1>1. Flags
  BY DEF Init, Flags
<1>2. Values
  BY WatcherAssumption DEF Init, Values, None, Fingerprints
<1>3. NothingFromTheFuture
  BY DEF Init, NothingFromTheFuture, None
<1>4. /\ PendingIsTimed /\ FoundIsPresent /\ FirstLookIsCovered
      /\ BaselineWasReported /\ NoBaseline
  BY DEF Init, PendingIsTimed, FoundIsPresent, FirstLookIsCovered,
     BaselineWasReported, NoBaseline, None
<1> QED BY <1>1, <1>2, <1>3, <1>4 DEF WatchInv

\* Each step leaves the flags Boolean.
LEMMA FlagsStep ==
  ASSUME WatchInv, [Next]_vars
  PROVE  Flags'
<1> USE DEF WatchInv, Flags
<1>1. CASE Edit
  BY <1>1 DEF Edit, git, watching, debounce, queue, job
<1>2. CASE Restore
  BY <1>2 DEF Restore, git, watching, debounce, queue, job
<1>3. ASSUME NEW v \in Versions, Checkout(v) PROVE Flags'
  BY <1>3 DEF Checkout, git, watching, debounce, queue, job
<1>4. CASE Commit
  BY <1>4 DEF Commit, git, watching, debounce, queue, job
<1>5. CASE Request
  BY <1>5 DEF Request, EnqueueRow, git, watching, debounce, queue, job
<1>6. CASE CancelAll
  BY <1>6 DEF CancelAll, git, watching, debounce, queue, job
<1>7. CASE Start
  BY <1>7 DEF Start, git, watching, debounce, queue, job
<1>8. CASE Reconcile
  BY <1>8 DEF Reconcile, EnqueueRow, git, watching, debounce, queue, job
<1>9. CASE Stop
  BY <1>9 DEF Stop, JobEnds, git, watching, debounce, queue, job
<1>10. CASE Poll
  BY <1>10 DEF Poll, git, watching, debounce, queue, job
<1>11. CASE ReadHead
  BY <1>11 DEF ReadHead, git, watching, debounce, queue, job
<1>12. CASE ReadStatus
  BY <1>12 DEF ReadStatus, git, watching, debounce, queue, job
<1>13. CASE ReadMetadata
  BY <1>13 DEF ReadMetadata, git, watching, debounce, queue, job
<1>14. CASE GitFails
  BY <1>14 DEF GitFails, git, watching, debounce, queue, job
<1>15. CASE FirstBaseline
  BY <1>15 DEF FirstBaseline, git, watching, debounce, queue, job
<1>16. CASE Unchanged
  BY <1>16 DEF Unchanged, git, watching, debounce, queue, job
<1>17. CASE Changed
  BY <1>17 DEF Changed, git, watching, debounce, queue, job
<1>18. CASE Flush
  BY <1>18 DEF Flush, git, watching, debounce, queue, job
<1>19. CASE Enqueue
  BY <1>19 DEF Enqueue, EnqueueRow, git, watching, debounce, queue, job
<1>20. CASE EnqueueFails
  BY <1>20 DEF EnqueueFails, git, watching, debounce, queue, job
<1>21. CASE Claim
  BY <1>21 DEF Claim, git, watching, debounce, queue, job
<1>22. CASE Discover
  BY <1>22 DEF Discover, git, watching, debounce, queue, job
<1>23. CASE Complete
  BY <1>23 DEF Complete, JobEnds, git, watching, debounce, queue, job
<1>24. CASE Cancelled
  BY <1>24 DEF Cancelled, JobEnds, git, watching, debounce, queue, job
<1>25. CASE Retry
  BY <1>25 DEF Retry, JobEnds, git, watching, debounce, queue, job
<1>26. CASE FailForGood
  BY <1>26 DEF FailForGood, JobEnds, git, watching, debounce, queue, job
<1>27. CASE UNCHANGED vars
  BY <1>27 DEF vars, git, watching, debounce, queue, job
<1> HIDE DEF WatchInv, Flags
<1> QED BY <1>1, <1>2, <1>3, <1>4, <1>5, <1>6, <1>7, <1>8, <1>9, <1>10, <1>11, <1>12, <1>13, <1>14, <1>15, <1>16, <1>17, <1>18, <1>19, <1>20, <1>21, <1>22, <1>23, <1>24, <1>25, <1>26, <1>27
  DEF Next, Observe, Run

\* Only a new report or a stop ends a debounce task, and a flush takes the change.
LEMMA TimedStep ==
  ASSUME WatchInv, [Next]_vars
  PROVE  PendingIsTimed'
<1> USE DEF WatchInv, Flags, PendingIsTimed
<1>1. CASE Edit
  BY <1>1 DEF Edit, git, watching, debounce, queue, job
<1>2. CASE Restore
  BY <1>2 DEF Restore, git, watching, debounce, queue, job
<1>3. ASSUME NEW v \in Versions, Checkout(v) PROVE PendingIsTimed'
  BY <1>3 DEF Checkout, git, watching, debounce, queue, job
<1>4. CASE Commit
  BY <1>4 DEF Commit, git, watching, debounce, queue, job
<1>5. CASE Request
  BY <1>5 DEF Request, EnqueueRow, git, watching, debounce, queue, job
<1>6. CASE CancelAll
  BY <1>6 DEF CancelAll, git, watching, debounce, queue, job
<1>7. CASE Start
  BY <1>7 DEF Start, git, watching, debounce, queue, job
<1>8. CASE Reconcile
  BY <1>8 DEF Reconcile, EnqueueRow, git, watching, debounce, queue, job
<1>9. CASE Stop
  BY <1>9 DEF Stop, JobEnds, git, watching, debounce, queue, job
<1>10. CASE Poll
  BY <1>10 DEF Poll, git, watching, debounce, queue, job
<1>11. CASE ReadHead
  BY <1>11 DEF ReadHead, git, watching, debounce, queue, job
<1>12. CASE ReadStatus
  BY <1>12 DEF ReadStatus, git, watching, debounce, queue, job
<1>13. CASE ReadMetadata
  BY <1>13 DEF ReadMetadata, git, watching, debounce, queue, job
<1>14. CASE GitFails
  BY <1>14 DEF GitFails, git, watching, debounce, queue, job
<1>15. CASE FirstBaseline
  BY <1>15 DEF FirstBaseline, git, watching, debounce, queue, job
<1>16. CASE Unchanged
  BY <1>16 DEF Unchanged, git, watching, debounce, queue, job
<1>17. CASE Changed
  BY <1>17 DEF Changed, git, watching, debounce, queue, job
<1>18. CASE Flush
  BY <1>18 DEF Flush, git, watching, debounce, queue, job
<1>19. CASE Enqueue
  BY <1>19 DEF Enqueue, EnqueueRow, git, watching, debounce, queue, job
<1>20. CASE EnqueueFails
  BY <1>20 DEF EnqueueFails, git, watching, debounce, queue, job
<1>21. CASE Claim
  BY <1>21 DEF Claim, git, watching, debounce, queue, job
<1>22. CASE Discover
  BY <1>22 DEF Discover, git, watching, debounce, queue, job
<1>23. CASE Complete
  BY <1>23 DEF Complete, JobEnds, git, watching, debounce, queue, job
<1>24. CASE Cancelled
  BY <1>24 DEF Cancelled, JobEnds, git, watching, debounce, queue, job
<1>25. CASE Retry
  BY <1>25 DEF Retry, JobEnds, git, watching, debounce, queue, job
<1>26. CASE FailForGood
  BY <1>26 DEF FailForGood, JobEnds, git, watching, debounce, queue, job
<1>27. CASE UNCHANGED vars
  BY <1>27 DEF vars, git, watching, debounce, queue, job
<1> HIDE DEF WatchInv, Flags, PendingIsTimed
<1> QED BY <1>1, <1>2, <1>3, <1>4, <1>5, <1>6, <1>7, <1>8, <1>9, <1>10, <1>11, <1>12, <1>13, <1>14, <1>15, <1>16, <1>17, <1>18, <1>19, <1>20, <1>21, <1>22, <1>23, <1>24, <1>25, <1>26, <1>27
  DEF Next, Observe, Run

\* The other variables keep their types, the polling interval its limits.
LEMMA ValuesStep ==
  ASSUME WatchInv, [Next]_vars
  PROVE  Values'
<1> USE DEF WatchInv, Values, Fingerprints, None, Dirty, Stamp, BackOff, Fault
<1>1. CASE Edit
  BY <1>1, WatcherAssumption DEF Edit, git, watching, debounce, queue, job
<1>2. CASE Restore
  BY <1>2, WatcherAssumption DEF Restore, git, watching, debounce, queue, job
<1>3. ASSUME NEW v \in Versions, Checkout(v) PROVE Values'
  BY <1>3, WatcherAssumption DEF Checkout, git, watching, debounce, queue, job
<1>4. CASE Commit
  BY <1>4, WatcherAssumption DEF Commit, git, watching, debounce, queue, job
<1>5. CASE Request
  BY <1>5, WatcherAssumption DEF Request, EnqueueRow, git, watching, debounce, queue, job
<1>6. CASE CancelAll
  BY <1>6, WatcherAssumption DEF CancelAll, git, watching, debounce, queue, job
<1>7. CASE Start
  BY <1>7, WatcherAssumption DEF Start, git, watching, debounce, queue, job
<1>8. CASE Reconcile
  BY <1>8, WatcherAssumption DEF Reconcile, EnqueueRow, git, watching, debounce, queue, job
<1>9. CASE Stop
  BY <1>9, WatcherAssumption DEF Stop, JobEnds, git, watching, debounce, queue, job
<1>10. CASE Poll
  BY <1>10, WatcherAssumption DEF Poll, git, watching, debounce, queue, job
<1>11. CASE ReadHead
  <2>1. reading' \in Fingerprints
    <3>1. CASE reading' = [None EXCEPT !.head = head]
      BY <3>1
    <3>2. CASE reading' = None
      BY <3>2
    <3> QED BY <1>11, <3>1, <3>2 DEF ReadHead
  <2>2. faults' \in Nat
    BY <1>11, WatcherAssumption DEF ReadHead
  <2> QED BY <1>11, <2>1, <2>2 DEF ReadHead, git, watching, debounce, queue, job
<1>12. CASE ReadStatus
  BY <1>12, WatcherAssumption DEF ReadStatus, git, watching, debounce, queue, job
<1>13. CASE ReadMetadata
  BY <1>13, WatcherAssumption DEF ReadMetadata, git, watching, debounce, queue, job
<1>14. CASE GitFails
  BY <1>14, WatcherAssumption DEF GitFails, git, watching, debounce, queue, job
<1>15. CASE FirstBaseline
  BY <1>15, WatcherAssumption DEF FirstBaseline, git, watching, debounce, queue, job
<1>16. CASE Unchanged
  BY <1>16, WatcherAssumption DEF Unchanged, git, watching, debounce, queue, job
<1>17. CASE Changed
  BY <1>17, WatcherAssumption DEF Changed, git, watching, debounce, queue, job
<1>18. CASE Flush
  BY <1>18, WatcherAssumption DEF Flush, git, watching, debounce, queue, job
<1>19. CASE Enqueue
  BY <1>19, WatcherAssumption DEF Enqueue, EnqueueRow, git, watching, debounce, queue, job
<1>20. CASE EnqueueFails
  BY <1>20, WatcherAssumption DEF EnqueueFails, git, watching, debounce, queue, job
<1>21. CASE Claim
  BY <1>21, WatcherAssumption DEF Claim, git, watching, debounce, queue, job
<1>22. CASE Discover
  BY <1>22, WatcherAssumption DEF Discover, git, watching, debounce, queue, job
<1>23. CASE Complete
  BY <1>23, WatcherAssumption DEF Complete, JobEnds, git, watching, debounce, queue, job
<1>24. CASE Cancelled
  BY <1>24, WatcherAssumption DEF Cancelled, JobEnds, git, watching, debounce, queue, job
<1>25. CASE Retry
  BY <1>25, WatcherAssumption DEF Retry, JobEnds, git, watching, debounce, queue, job
<1>26. CASE FailForGood
  BY <1>26, WatcherAssumption DEF FailForGood, JobEnds, git, watching, debounce, queue, job
<1>27. CASE UNCHANGED vars
  BY <1>27 DEF vars, git, watching, debounce, queue, job
<1> HIDE DEF WatchInv, Values, Fingerprints, None, Dirty, Stamp, BackOff, Fault
<1> QED BY <1>1, <1>2, <1>3, <1>4, <1>5, <1>6, <1>7, <1>8, <1>9, <1>10, <1>11, <1>12, <1>13, <1>14, <1>15, <1>16, <1>17, <1>18, <1>19, <1>20, <1>21, <1>22, <1>23, <1>24, <1>25, <1>26, <1>27
  DEF Next, Observe, Run

\* Edits only add versions, and nothing is read ahead of them.
LEMMA FutureStep ==
  ASSUME WatchInv, [Next]_vars
  PROVE  NothingFromTheFuture'
<1> USE DEF WatchInv, Values, NothingFromTheFuture, NoBaseline, Dirty, Fingerprints, None, Stamp, BackOff, Fault
<1>1. CASE Edit
  BY <1>1 DEF Edit, git, watching, debounce, queue, job
<1>2. CASE Restore
  BY <1>2 DEF Restore, git, watching, debounce, queue, job
<1>3. ASSUME NEW v \in Versions, Checkout(v) PROVE NothingFromTheFuture'
  BY <1>3 DEF Checkout, git, watching, debounce, queue, job
<1>4. CASE Commit
  BY <1>4 DEF Commit, git, watching, debounce, queue, job
<1>5. CASE Request
  BY <1>5 DEF Request, EnqueueRow, git, watching, debounce, queue, job
<1>6. CASE CancelAll
  BY <1>6 DEF CancelAll, git, watching, debounce, queue, job
<1>7. CASE Start
  BY <1>7 DEF Start, git, watching, debounce, queue, job
<1>8. CASE Reconcile
  BY <1>8 DEF Reconcile, EnqueueRow, git, watching, debounce, queue, job
<1>9. CASE Stop
  BY <1>9 DEF Stop, JobEnds, git, watching, debounce, queue, job
<1>10. CASE Poll
  BY <1>10 DEF Poll, git, watching, debounce, queue, job
<1>11. CASE ReadHead
  BY <1>11 DEF ReadHead, git, watching, debounce, queue, job
<1>12. CASE ReadStatus
  BY <1>12 DEF ReadStatus, git, watching, debounce, queue, job
<1>13. CASE ReadMetadata
  BY <1>13 DEF ReadMetadata, git, watching, debounce, queue, job
<1>14. CASE GitFails
  BY <1>14 DEF GitFails, git, watching, debounce, queue, job
<1>15. CASE FirstBaseline
  BY <1>15 DEF FirstBaseline, git, watching, debounce, queue, job
<1>16. CASE Unchanged
  BY <1>16 DEF Unchanged, git, watching, debounce, queue, job
<1>17. CASE Changed
  BY <1>17 DEF Changed, git, watching, debounce, queue, job
<1>18. CASE Flush
  BY <1>18 DEF Flush, git, watching, debounce, queue, job
<1>19. CASE Enqueue
  BY <1>19 DEF Enqueue, EnqueueRow, git, watching, debounce, queue, job
<1>20. CASE EnqueueFails
  BY <1>20 DEF EnqueueFails, git, watching, debounce, queue, job
<1>21. CASE Claim
  BY <1>21 DEF Claim, git, watching, debounce, queue, job
<1>22. CASE Discover
  BY <1>22 DEF Discover, git, watching, debounce, queue, job
<1>23. CASE Complete
  BY <1>23 DEF Complete, JobEnds, git, watching, debounce, queue, job
<1>24. CASE Cancelled
  BY <1>24 DEF Cancelled, JobEnds, git, watching, debounce, queue, job
<1>25. CASE Retry
  BY <1>25 DEF Retry, JobEnds, git, watching, debounce, queue, job
<1>26. CASE FailForGood
  BY <1>26 DEF FailForGood, JobEnds, git, watching, debounce, queue, job
<1>27. CASE UNCHANGED vars
  BY <1>27 DEF vars, git, watching, debounce, queue, job
<1> HIDE DEF WatchInv, Values, NothingFromTheFuture, NoBaseline, Dirty, Fingerprints, None, Stamp, BackOff, Fault
<1> QED BY <1>1, <1>2, <1>3, <1>4, <1>5, <1>6, <1>7, <1>8, <1>9, <1>10, <1>11, <1>12, <1>13, <1>14, <1>15, <1>16, <1>17, <1>18, <1>19, <1>20, <1>21, <1>22, <1>23, <1>24, <1>25, <1>26, <1>27
  DEF Next, Observe, Run

\* A discovery finds the present content; only an edit or a return moves on.
LEMMA FoundStep ==
  ASSUME WatchInv, [Next]_vars
  PROVE  FoundIsPresent'
<1> USE DEF WatchInv, Flags, Values, NothingFromTheFuture, FoundIsPresent, Fault
<1>1. CASE Edit
  BY <1>1 DEF Edit, git, watching, debounce, queue, job
<1>2. CASE Restore
  BY <1>2 DEF Restore, git, watching, debounce, queue, job
<1>3. ASSUME NEW v \in Versions, Checkout(v) PROVE FoundIsPresent'
  BY <1>3 DEF Checkout, git, watching, debounce, queue, job
<1>4. CASE Commit
  BY <1>4 DEF Commit, git, watching, debounce, queue, job
<1>5. CASE Request
  BY <1>5 DEF Request, EnqueueRow, git, watching, debounce, queue, job
<1>6. CASE CancelAll
  BY <1>6 DEF CancelAll, git, watching, debounce, queue, job
<1>7. CASE Start
  BY <1>7 DEF Start, git, watching, debounce, queue, job
<1>8. CASE Reconcile
  BY <1>8 DEF Reconcile, EnqueueRow, git, watching, debounce, queue, job
<1>9. CASE Stop
  BY <1>9 DEF Stop, JobEnds, git, watching, debounce, queue, job
<1>10. CASE Poll
  BY <1>10 DEF Poll, git, watching, debounce, queue, job
<1>11. CASE ReadHead
  BY <1>11 DEF ReadHead, git, watching, debounce, queue, job
<1>12. CASE ReadStatus
  BY <1>12 DEF ReadStatus, git, watching, debounce, queue, job
<1>13. CASE ReadMetadata
  BY <1>13 DEF ReadMetadata, git, watching, debounce, queue, job
<1>14. CASE GitFails
  BY <1>14 DEF GitFails, git, watching, debounce, queue, job
<1>15. CASE FirstBaseline
  BY <1>15 DEF FirstBaseline, git, watching, debounce, queue, job
<1>16. CASE Unchanged
  BY <1>16 DEF Unchanged, git, watching, debounce, queue, job
<1>17. CASE Changed
  BY <1>17 DEF Changed, git, watching, debounce, queue, job
<1>18. CASE Flush
  BY <1>18 DEF Flush, git, watching, debounce, queue, job
<1>19. CASE Enqueue
  BY <1>19 DEF Enqueue, EnqueueRow, git, watching, debounce, queue, job
<1>20. CASE EnqueueFails
  BY <1>20 DEF EnqueueFails, git, watching, debounce, queue, job
<1>21. CASE Claim
  BY <1>21 DEF Claim, git, watching, debounce, queue, job
<1>22. CASE Discover
  BY <1>22 DEF Discover, git, watching, debounce, queue, job
<1>23. CASE Complete
  BY <1>23 DEF Complete, JobEnds, git, watching, debounce, queue, job
<1>24. CASE Cancelled
  BY <1>24 DEF Cancelled, JobEnds, git, watching, debounce, queue, job
<1>25. CASE Retry
  BY <1>25 DEF Retry, JobEnds, git, watching, debounce, queue, job
<1>26. CASE FailForGood
  BY <1>26 DEF FailForGood, JobEnds, git, watching, debounce, queue, job
<1>27. CASE UNCHANGED vars
  BY <1>27 DEF vars, git, watching, debounce, queue, job
<1> HIDE DEF WatchInv, Flags, Values, NothingFromTheFuture, FoundIsPresent, Fault
<1> QED BY <1>1, <1>2, <1>3, <1>4, <1>5, <1>6, <1>7, <1>8, <1>9, <1>10, <1>11, <1>12, <1>13, <1>14, <1>15, <1>16, <1>17, <1>18, <1>19, <1>20, <1>21, <1>22, <1>23, <1>24, <1>25, <1>26, <1>27
  DEF Next, Observe, Run

\* What the first observation has seen can only come back as a return.
LEMMA FirstLookStep ==
  ASSUME WatchInv, [Next]_vars
  PROVE  FirstLookIsCovered'
<1> USE DEF WatchInv, Flags, Values, PendingIsTimed, NothingFromTheFuture, NoBaseline, FoundIsPresent, FirstLookIsCovered, InHand, Evidence, Fingerprints, None, Dirty, Stamp, BackOff, Fault
<1>1. CASE Edit
  BY <1>1 DEF Edit, git, watching, debounce, queue, job
<1>2. CASE Restore
  BY <1>2 DEF Restore, git, watching, debounce, queue, job
<1>3. ASSUME NEW v \in Versions, Checkout(v) PROVE FirstLookIsCovered'
  BY <1>3 DEF Checkout, git, watching, debounce, queue, job
<1>4. CASE Commit
  BY <1>4 DEF Commit, git, watching, debounce, queue, job
<1>5. CASE Request
  BY <1>5 DEF Request, EnqueueRow, git, watching, debounce, queue, job
<1>6. CASE CancelAll
  BY <1>6 DEF CancelAll, git, watching, debounce, queue, job
<1>7. CASE Start
  BY <1>7 DEF Start, git, watching, debounce, queue, job
<1>8. CASE Reconcile
  BY <1>8 DEF Reconcile, EnqueueRow, git, watching, debounce, queue, job
<1>9. CASE Stop
  BY <1>9 DEF Stop, JobEnds, git, watching, debounce, queue, job
<1>10. CASE Poll
  BY <1>10 DEF Poll, git, watching, debounce, queue, job
<1>11. CASE ReadHead
  BY <1>11 DEF ReadHead, git, watching, debounce, queue, job
<1>12. CASE ReadStatus
  BY <1>12 DEF ReadStatus, git, watching, debounce, queue, job
<1>13. CASE ReadMetadata
  BY <1>13 DEF ReadMetadata, git, watching, debounce, queue, job
<1>14. CASE GitFails
  BY <1>14 DEF GitFails, git, watching, debounce, queue, job
<1>15. CASE FirstBaseline
  BY <1>15 DEF FirstBaseline, git, watching, debounce, queue, job
<1>16. CASE Unchanged
  BY <1>16 DEF Unchanged, git, watching, debounce, queue, job
<1>17. CASE Changed
  BY <1>17 DEF Changed, git, watching, debounce, queue, job
<1>18. CASE Flush
  BY <1>18 DEF Flush, git, watching, debounce, queue, job
<1>19. CASE Enqueue
  BY <1>19 DEF Enqueue, EnqueueRow, git, watching, debounce, queue, job
<1>20. CASE EnqueueFails
  BY <1>20 DEF EnqueueFails, git, watching, debounce, queue, job
<1>21. CASE Claim
  BY <1>21 DEF Claim, git, watching, debounce, queue, job
<1>22. CASE Discover
  BY <1>22 DEF Discover, git, watching, debounce, queue, job
<1>23. CASE Complete
  BY <1>23 DEF Complete, JobEnds, git, watching, debounce, queue, job
<1>24. CASE Cancelled
  BY <1>24 DEF Cancelled, JobEnds, git, watching, debounce, queue, job
<1>25. CASE Retry
  BY <1>25 DEF Retry, JobEnds, git, watching, debounce, queue, job
<1>26. CASE FailForGood
  BY <1>26 DEF FailForGood, JobEnds, git, watching, debounce, queue, job
<1>27. CASE UNCHANGED vars
  BY <1>27 DEF vars, git, watching, debounce, queue, job
<1> HIDE DEF WatchInv, Flags, Values, PendingIsTimed, NothingFromTheFuture, NoBaseline, FoundIsPresent, FirstLookIsCovered, InHand, Evidence, Fingerprints, None, Dirty, Stamp, BackOff, Fault
<1> QED BY <1>1, <1>2, <1>3, <1>4, <1>5, <1>6, <1>7, <1>8, <1>9, <1>10, <1>11, <1>12, <1>13, <1>14, <1>15, <1>16, <1>17, <1>18, <1>19, <1>20, <1>21, <1>22, <1>23, <1>24, <1>25, <1>26, <1>27
  DEF Next, Observe, Run

\* A new baseline comes with a pending report, which becomes a row, a discovery
\* of the present tree and an index of it; a newer version ends the claim.
LEMMA ReportStep ==
  ASSUME WatchInv, [Next]_vars
  PROVE  BaselineWasReported'
<1> USE DEF WatchInv, Flags, Values, PendingIsTimed, NothingFromTheFuture, NoBaseline, FoundIsPresent, FirstLookIsCovered, BaselineWasReported, InHand, Evidence, Fingerprints, None, Dirty, Stamp, BackOff, Fault
<1>1. CASE Edit
  BY <1>1 DEF Edit, git, watching, debounce, queue, job
<1>2. CASE Restore
  BY <1>2 DEF Restore, git, watching, debounce, queue, job
<1>3. ASSUME NEW v \in Versions, Checkout(v) PROVE BaselineWasReported'
  BY <1>3 DEF Checkout, git, watching, debounce, queue, job
<1>4. CASE Commit
  BY <1>4 DEF Commit, git, watching, debounce, queue, job
<1>5. CASE Request
  BY <1>5 DEF Request, EnqueueRow, git, watching, debounce, queue, job
<1>6. CASE CancelAll
  BY <1>6 DEF CancelAll, git, watching, debounce, queue, job
<1>7. CASE Start
  BY <1>7 DEF Start, git, watching, debounce, queue, job
<1>8. CASE Reconcile
  BY <1>8 DEF Reconcile, EnqueueRow, git, watching, debounce, queue, job
<1>9. CASE Stop
  BY <1>9 DEF Stop, JobEnds, git, watching, debounce, queue, job
<1>10. CASE Poll
  BY <1>10 DEF Poll, git, watching, debounce, queue, job
<1>11. CASE ReadHead
  BY <1>11 DEF ReadHead, git, watching, debounce, queue, job
<1>12. CASE ReadStatus
  BY <1>12 DEF ReadStatus, git, watching, debounce, queue, job
<1>13. CASE ReadMetadata
  BY <1>13 DEF ReadMetadata, git, watching, debounce, queue, job
<1>14. CASE GitFails
  BY <1>14 DEF GitFails, git, watching, debounce, queue, job
<1>15. CASE FirstBaseline
  BY <1>15 DEF FirstBaseline, git, watching, debounce, queue, job
<1>16. CASE Unchanged
  BY <1>16 DEF Unchanged, git, watching, debounce, queue, job
<1>17. CASE Changed
  BY <1>17 DEF Changed, git, watching, debounce, queue, job
<1>18. CASE Flush
  BY <1>18 DEF Flush, git, watching, debounce, queue, job
<1>19. CASE Enqueue
  BY <1>19 DEF Enqueue, EnqueueRow, git, watching, debounce, queue, job
<1>20. CASE EnqueueFails
  BY <1>20 DEF EnqueueFails, git, watching, debounce, queue, job
<1>21. CASE Claim
  BY <1>21 DEF Claim, git, watching, debounce, queue, job
<1>22. CASE Discover
  BY <1>22 DEF Discover, git, watching, debounce, queue, job
<1>23. CASE Complete
  BY <1>23 DEF Complete, JobEnds, git, watching, debounce, queue, job
<1>24. CASE Cancelled
  BY <1>24 DEF Cancelled, JobEnds, git, watching, debounce, queue, job
<1>25. CASE Retry
  BY <1>25 DEF Retry, JobEnds, git, watching, debounce, queue, job
<1>26. CASE FailForGood
  BY <1>26 DEF FailForGood, JobEnds, git, watching, debounce, queue, job
<1>27. CASE UNCHANGED vars
  BY <1>27 DEF vars, git, watching, debounce, queue, job
<1> HIDE DEF WatchInv, Flags, Values, PendingIsTimed, NothingFromTheFuture, NoBaseline, FoundIsPresent, FirstLookIsCovered, BaselineWasReported, InHand, Evidence, Fingerprints, None, Dirty, Stamp, BackOff, Fault
<1> QED BY <1>1, <1>2, <1>3, <1>4, <1>5, <1>6, <1>7, <1>8, <1>9, <1>10, <1>11, <1>12, <1>13, <1>14, <1>15, <1>16, <1>17, <1>18, <1>19, <1>20, <1>21, <1>22, <1>23, <1>24, <1>25, <1>26, <1>27
  DEF Next, Observe, Run

\* A stop forgets the baseline; only a complete observation makes one.
LEMMA NoBaselineStep ==
  ASSUME WatchInv, [Next]_vars
  PROVE  NoBaseline'
<1> USE DEF WatchInv, Flags, Values, NoBaseline, Fingerprints, None, Dirty, Stamp, BackOff, Fault
<1>1. CASE Edit
  BY <1>1 DEF Edit, git, watching, debounce, queue, job
<1>2. CASE Restore
  BY <1>2 DEF Restore, git, watching, debounce, queue, job
<1>3. ASSUME NEW v \in Versions, Checkout(v) PROVE NoBaseline'
  BY <1>3 DEF Checkout, git, watching, debounce, queue, job
<1>4. CASE Commit
  BY <1>4 DEF Commit, git, watching, debounce, queue, job
<1>5. CASE Request
  BY <1>5 DEF Request, EnqueueRow, git, watching, debounce, queue, job
<1>6. CASE CancelAll
  BY <1>6 DEF CancelAll, git, watching, debounce, queue, job
<1>7. CASE Start
  BY <1>7 DEF Start, git, watching, debounce, queue, job
<1>8. CASE Reconcile
  BY <1>8 DEF Reconcile, EnqueueRow, git, watching, debounce, queue, job
<1>9. CASE Stop
  BY <1>9 DEF Stop, JobEnds, git, watching, debounce, queue, job
<1>10. CASE Poll
  BY <1>10 DEF Poll, git, watching, debounce, queue, job
<1>11. CASE ReadHead
  BY <1>11 DEF ReadHead, git, watching, debounce, queue, job
<1>12. CASE ReadStatus
  BY <1>12 DEF ReadStatus, git, watching, debounce, queue, job
<1>13. CASE ReadMetadata
  BY <1>13 DEF ReadMetadata, git, watching, debounce, queue, job
<1>14. CASE GitFails
  BY <1>14 DEF GitFails, git, watching, debounce, queue, job
<1>15. CASE FirstBaseline
  BY <1>15 DEF FirstBaseline, git, watching, debounce, queue, job
<1>16. CASE Unchanged
  BY <1>16 DEF Unchanged, git, watching, debounce, queue, job
<1>17. CASE Changed
  BY <1>17 DEF Changed, git, watching, debounce, queue, job
<1>18. CASE Flush
  BY <1>18 DEF Flush, git, watching, debounce, queue, job
<1>19. CASE Enqueue
  BY <1>19 DEF Enqueue, EnqueueRow, git, watching, debounce, queue, job
<1>20. CASE EnqueueFails
  BY <1>20 DEF EnqueueFails, git, watching, debounce, queue, job
<1>21. CASE Claim
  BY <1>21 DEF Claim, git, watching, debounce, queue, job
<1>22. CASE Discover
  BY <1>22 DEF Discover, git, watching, debounce, queue, job
<1>23. CASE Complete
  BY <1>23 DEF Complete, JobEnds, git, watching, debounce, queue, job
<1>24. CASE Cancelled
  BY <1>24 DEF Cancelled, JobEnds, git, watching, debounce, queue, job
<1>25. CASE Retry
  BY <1>25 DEF Retry, JobEnds, git, watching, debounce, queue, job
<1>26. CASE FailForGood
  BY <1>26 DEF FailForGood, JobEnds, git, watching, debounce, queue, job
<1>27. CASE UNCHANGED vars
  BY <1>27 DEF vars, git, watching, debounce, queue, job
<1> HIDE DEF WatchInv, Flags, Values, NoBaseline, Fingerprints, None, Dirty, Stamp, BackOff, Fault
<1> QED BY <1>1, <1>2, <1>3, <1>4, <1>5, <1>6, <1>7, <1>8, <1>9, <1>10, <1>11, <1>12, <1>13, <1>14, <1>15, <1>16, <1>17, <1>18, <1>19, <1>20, <1>21, <1>22, <1>23, <1>24, <1>25, <1>26, <1>27
  DEF Next, Observe, Run

\* The invariant holds of every history of the tree.
THEOREM WatchInvariant == Spec => []WatchInv
<1>1. WatchInv /\ [Next]_vars => WatchInv'
  BY FlagsStep, TimedStep, ValuesStep, FutureStep, FoundStep, FirstLookStep,
     ReportStep, NoBaselineStep
     DEF WatchInv
<1> QED BY InitInv, <1>1, PTL DEF Spec

\* Nothing observed and not yet indexed is ever out of everybody's hands, unless
\* a content has come back or a report or its job was lost for good
\* (observe_once, _flush_later, flush_pending, and the row a report becomes).
THEOREM NothingIsForgotten == Spec => []QuietMeansIndexed
<1>1. WatchInv => QuietMeansIndexed
  <2> SUFFICES ASSUME WatchInv, baseline = Fingerprint, touched,
                      ~pending, ~sending, ~queued, running = "none", ~lost
               PROVE  covered = work
    BY DEF QuietMeansIndexed
  <2>1. baseline.known /\ Evidence(baseline) = work
    BY FingerprintIsEvidence
  <2> QED BY <2>1 DEF WatchInv, BaselineWasReported, InHand
<1> QED BY <1>1, WatchInvariant, PTL
==============================================================================
