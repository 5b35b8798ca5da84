------------------------------- MODULE Watcher -------------------------------
(***************************************************************************)
(* RepositoryWatcher and git_fingerprint (indexing/watcher.py): one root   *)
(* polled through Git, with the durable queue and the runner reduced to    *)
(* what a full job sees of the sources and when.                           *)
(*                                                                         *)
(* The content of the working tree is a version number.  A fingerprint is  *)
(* read by git rev-parse, git status and lstat at three instants, and the  *)
(* user edits and commits between any two of them.                         *)
(***************************************************************************)
EXTENDS Naturals

CONSTANTS
  ActiveInterval, IdleInterval,  \* polling intervals, in some unit
  MaxAttempts,  \* max_attempts of a row
  MaxEdits,     \* bound: versions of the working tree
  MaxFaults     \* bound: failed git calls, enqueues and jobs, restarts,
                \* cancellations and returns to earlier contents, together

ASSUME WatcherAssumption ==
  /\ ActiveInterval \in Nat \ {0} /\ IdleInterval \in Nat
  /\ ActiveInterval <= IdleInterval
  /\ MaxAttempts \in Nat \ {0}
  /\ MaxEdits \in Nat /\ MaxFaults \in Nat

VARIABLES
  work,      \* version of the working tree
  head,      \* version that HEAD has committed
  newest,    \* newest version made so far
  at,        \* the watcher: down, starting, or where a poll has got to
  reading,   \* the fingerprint being read
  baseline,  \* _baseline: the last successful observation, or None
  interval,  \* _current_interval
  pending,   \* _pending
  timer,     \* is the debounce task asleep?
  sending,   \* is an enqueue of a change under way in a thread?
  queued,    \* the queue has a queued row for this root
  spent,     \* the attempts that row has had
  running,   \* the job in progress: none, claimed, or discovered
  attempts,  \* the attempts it has had before
  cancelling,  \* whether it is to be cancelled
  found,     \* the version its discovery has read
  covered,   \* the version the index describes
  touched,   \* history: the tree has changed since the last look of the
             \* observation that became the first baseline
  lost,      \* history: since the last discovery a content has come back, or
             \* an enqueue has failed, a job failed for good or been cancelled
  faults

git == <<work, head, newest>>
job == <<running, attempts, cancelling, found>>
queue == <<queued, spent, job, covered>>
debounce == <<pending, timer, sending>>
vars == <<git, at, reading, baseline, interval, debounce, queue, touched, lost, faults>>

Versions == 1 .. MaxEdits
Fingerprints == [head : Nat, dirty : BOOLEAN, stamp : Nat, known : BOOLEAN]
None == [head |-> 0, dirty |-> FALSE, stamp |-> 0, known |-> FALSE]

\* Porcelain status and lstat: a clean tree has no metadata in its digest.
Dirty == work # head
Stamp(dirty) == IF dirty THEN work ELSE 0
Fingerprint == [head |-> head, dirty |-> Dirty, stamp |-> Stamp(Dirty), known |-> TRUE]

\* _back_off
BackOff == interval' = IF interval * 2 < IdleInterval THEN interval * 2 ELSE IdleInterval

Fault == faults < MaxFaults /\ faults' = faults + 1

Init ==
  /\ work = 1 /\ head = 0 /\ newest = 1
  /\ at = "down"
  /\ reading = None /\ baseline = None
  /\ interval = ActiveInterval
  /\ pending = FALSE /\ timer = FALSE /\ sending = FALSE
  /\ queued = FALSE /\ spent = 0
  /\ running = "none" /\ attempts = 0 /\ cancelling = FALSE /\ found = 0
  /\ covered = 0
  /\ touched = FALSE /\ lost = FALSE /\ faults = 0

\* The queued row: a new one, or the one that was there.
EnqueueRow ==
  /\ queued' = TRUE
  /\ UNCHANGED <<spent, job, covered>>

(***************************************************************************)
(* The user: an edit makes new content (a stamp never comes back); what    *)
(* HEAD has is restored, or another commit checked out; a commit changes   *)
(* HEAD and not the files.                                                 *)
(***************************************************************************)
watching == <<at, reading, baseline, interval, debounce>>

Edit ==
  /\ newest < MaxEdits
  /\ work' = newest + 1 /\ newest' = newest + 1
  /\ touched' = TRUE
  /\ UNCHANGED <<head, watching, queue, lost, faults>>

Restore ==
  /\ Dirty /\ head # 0
  /\ Fault
  /\ work' = head
  /\ touched' = TRUE /\ lost' = TRUE
  /\ UNCHANGED <<head, newest, watching, queue>>

Checkout(v) ==
  /\ v \in 1 .. newest /\ v # work
  /\ Fault
  /\ work' = v /\ head' = v
  /\ touched' = TRUE /\ lost' = TRUE
  /\ UNCHANGED <<newest, watching, queue>>

Commit ==
  /\ Dirty
  /\ head' = work
  /\ UNCHANGED <<work, newest, watching, queue, touched, lost, faults>>

JobEnds == running' = "none" /\ attempts' = 0 /\ cancelling' = FALSE /\ found' = 0

\* A client asks for an index of its own.
Request ==
  /\ ~queued
  /\ EnqueueRow
  /\ UNCHANGED <<git, watching, touched, lost, faults>>

\* system.shutdown with cancel_active, before the watcher is stopped: the queued
\* row at once, the job in progress when it looks again, if it does.
CancelAll ==
  /\ at # "down"
  /\ queued \/ running # "none"
  /\ Fault
  /\ lost' = TRUE
  /\ queued' = FALSE /\ spent' = 0
  /\ cancelling' = (running # "none")
  /\ UNCHANGED <<git, watching, running, attempts, found, covered, touched>>

(***************************************************************************)
(* start: reconcile_startup, then the first observation, then the poller.  *)
(***************************************************************************)
Start ==
  /\ at = "down"
  /\ at' = "reconcile"
  /\ UNCHANGED <<git, reading, baseline, interval, debounce, queue, touched, lost, faults>>

\* Variant: the startup reconciliation is left out.
ReconcileNothing ==
  /\ at = "reconcile"
  /\ at' = "head"
  /\ UNCHANGED <<git, reading, baseline, interval, debounce, queue, touched, lost, faults>>

Reconcile ==
  /\ at = "reconcile"
  /\ EnqueueRow
  /\ at' = "head"
  /\ UNCHANGED <<git, reading, baseline, interval, debounce, touched, lost, faults>>

\* stop, or the death of the daemon; recovery requeues a running row.  A thread
\* that is already enqueuing is not stopped by the cancellation of its task; a
\* task that has not come so far is lost.
Stop ==
  /\ at # "down"
  /\ Fault
  /\ at' = "down"
  /\ pending' = FALSE /\ timer' = FALSE
  /\ sending' \in {FALSE, sending}
  /\ reading' = None /\ baseline' = None /\ interval' = ActiveInterval /\ touched' = FALSE
  /\ JobEnds
  /\ queued' = (queued \/ running # "none")
  /\ spent' = IF queued THEN spent ELSE attempts
  /\ UNCHANGED <<git, covered, lost>>

(***************************************************************************)
(* observe_once                                                            *)
(***************************************************************************)
\* The interval has passed.
Poll ==
  /\ at = "asleep"
  /\ at' = "head"
  /\ UNCHANGED <<git, reading, baseline, interval, debounce, queue, touched, lost, faults>>

\* A rev-parse that exits with an error counts as an unborn HEAD.
ReadHead ==
  /\ at = "head"
  /\ \/ reading' = [None EXCEPT !.head = head] /\ UNCHANGED faults
     \/ reading' = None /\ Fault
  /\ at' = "status"
  /\ UNCHANGED <<git, baseline, interval, debounce, queue, touched, lost>>

ReadStatus ==
  /\ at = "status"
  /\ reading' = [reading EXCEPT !.dirty = Dirty]
  /\ at' = "metadata"
  /\ UNCHANGED <<git, baseline, interval, debounce, queue, touched, lost, faults>>

\* Variant: the metadata of dirty paths is left out of the digest.
ReadMetadataNever ==
  /\ at = "metadata"
  /\ reading' = [reading EXCEPT !.known = TRUE]
  /\ touched' = (baseline.known /\ touched)
  /\ at' = "compare"
  /\ UNCHANGED <<git, baseline, interval, debounce, queue, lost, faults>>

\* The metadata of the paths that status has listed.
ReadMetadata ==
  /\ at = "metadata"
  /\ reading' = [reading EXCEPT !.stamp = Stamp(reading.dirty), !.known = TRUE]
  /\ touched' = (baseline.known /\ touched)
  /\ at' = "compare"
  /\ UNCHANGED <<git, baseline, interval, debounce, queue, lost, faults>>

\* A failed command backs off and leaves the baseline alone.
GitFails ==
  /\ at \in {"head", "status", "metadata"}
  /\ Fault
  /\ BackOff
  /\ reading' = None
  /\ at' = "asleep"
  /\ UNCHANGED <<git, baseline, debounce, queue, touched, lost>>

FirstBaseline ==
  /\ at = "compare" /\ ~baseline.known
  /\ baseline' = reading
  /\ reading' = None
  /\ at' = "asleep"
  /\ UNCHANGED <<git, interval, debounce, queue, touched, lost, faults>>

Unchanged ==
  /\ at = "compare" /\ baseline = reading
  /\ BackOff
  /\ reading' = None
  /\ at' = "asleep"
  /\ UNCHANGED <<git, baseline, debounce, queue, touched, lost, faults>>

\* The debounce starts anew; the previous task is cancelled, with the effect
\* on its thread that Stop has.
Changed ==
  /\ at = "compare" /\ baseline.known /\ baseline # reading
  /\ baseline' = reading
  /\ interval' = ActiveInterval
  /\ pending' = TRUE
  /\ timer' = TRUE
  /\ sending' \in {FALSE, sending}
  /\ reading' = None
  /\ at' = "asleep"
  /\ UNCHANGED <<git, queue, touched, lost, faults>>

(***************************************************************************)
(* _flush_later and flush_pending                                          *)
(***************************************************************************)
\* Variant: the pending flag is cleared before it is looked at.
FlushClearsFirst ==
  /\ timer
  /\ timer' = FALSE
  /\ pending' = FALSE
  /\ UNCHANGED <<git, at, reading, baseline, interval, sending, queue, touched, lost, faults>>

Flush ==
  /\ timer
  /\ timer' = FALSE
  /\ pending' = FALSE
  /\ sending' = (pending \/ sending)
  /\ UNCHANGED <<git, at, reading, baseline, interval, queue, touched, lost, faults>>

\* The row, or the merge into the queued one.
Enqueue ==
  /\ sending
  /\ sending' = FALSE
  /\ EnqueueRow
  /\ UNCHANGED <<git, at, reading, baseline, interval, pending, timer, touched, lost, faults>>

\* The exception ends the debounce task; the baseline has already moved.
EnqueueFails ==
  /\ sending
  /\ Fault
  /\ sending' = FALSE
  /\ lost' = TRUE
  /\ UNCHANGED <<git, at, reading, baseline, interval, pending, timer, queue, touched>>

(***************************************************************************)
(* The runner: it claims the row, discovers the sources and indexes them.  *)
(***************************************************************************)
Claim ==
  /\ at # "down" /\ queued /\ running = "none"
  /\ queued' = FALSE /\ spent' = 0
  /\ running' = "claimed" /\ attempts' = spent
  /\ UNCHANGED <<git, watching, cancelling, found, covered, touched, lost, faults>>

Discover ==
  /\ running = "claimed"
  /\ running' = "discovered"
  /\ found' = work
  /\ lost' = FALSE
  /\ UNCHANGED <<git, watching, queued, spent, attempts, cancelling, covered, touched, faults>>

Complete ==
  /\ running = "discovered"
  /\ JobEnds
  /\ covered' = found
  /\ UNCHANGED <<git, watching, queued, spent, touched, lost, faults>>

\* It looks, and ends cancelled; what it has written stays.
Cancelled ==
  /\ cancelling
  /\ JobEnds
  /\ lost' = TRUE
  /\ UNCHANGED <<git, watching, queued, spent, covered, touched, faults>>

\* fail_or_retry: the attempt joins the queued row, or its own row is queued
\* again, or it was the last and the row has failed for good.
Retry ==
  /\ running # "none" /\ attempts + 1 < MaxAttempts
  /\ Fault
  /\ JobEnds
  /\ queued' = TRUE
  /\ spent' = IF queued THEN spent ELSE attempts + 1
  /\ UNCHANGED <<git, watching, covered, touched, lost>>

FailForGood ==
  /\ running # "none" /\ attempts + 1 >= MaxAttempts
  /\ Fault
  /\ JobEnds
  /\ lost' = TRUE
  /\ UNCHANGED <<git, watching, queued, spent, covered, touched>>

Observe == ReadHead \/ ReadStatus \/ ReadMetadata \/ FirstBaseline \/ Unchanged \/ Changed
Run == Claim \/ Discover \/ Complete

Next ==
  \/ Edit \/ Restore \/ (\E v \in Versions : Checkout(v)) \/ Commit
  \/ Request \/ CancelAll \/ Start \/ Reconcile \/ Stop
  \/ Poll \/ Observe \/ GitFails \/ Flush \/ Enqueue \/ EnqueueFails
  \/ Run \/ Cancelled \/ Retry \/ FailForGood

Spec == Init /\ [][Next]_vars

\* The event loop polls and debounces, its threads and the runner go on.
FairSpec ==
  /\ Spec
  /\ WF_vars(Reconcile) /\ WF_vars(Poll \/ Observe) /\ WF_vars(Flush) /\ WF_vars(Enqueue)
  /\ WF_vars(Run)

(***************************************************************************)
(* Properties                                                              *)
(***************************************************************************)
\* Values of their types; the cadence stays between its two settings.
TypeOK ==
  /\ work \in Nat /\ head \in Nat /\ newest \in Nat
  /\ found \in Nat /\ covered \in Nat /\ touched \in BOOLEAN
  /\ at \in {"down", "reconcile", "asleep", "head", "status", "metadata", "compare"}
  /\ reading \in Fingerprints /\ baseline \in Fingerprints
  /\ interval \in ActiveInterval .. IdleInterval
  /\ pending \in BOOLEAN /\ timer \in BOOLEAN /\ sending \in BOOLEAN
  /\ queued \in BOOLEAN /\ cancelling \in BOOLEAN /\ lost \in BOOLEAN
  /\ spent \in 0 .. MaxAttempts - 1 /\ attempts \in 0 .. MaxAttempts - 1
  /\ running \in {"none", "claimed", "discovered"}
  /\ faults \in Nat

\* Nothing observed and not yet in the index is ever out of everybody's hands:
\* while the poller is at rest on the present state of a tree that has changed
\* since the first baseline, that state was indexed.  Excepted are, until the
\* next discovery, a content that has come back, a report whose enqueue has
\* raised, and a job that has failed for good or was cancelled (`lost').
QuietMeansIndexed ==
  /\ at = "asleep" /\ baseline = Fingerprint /\ touched
  /\ ~pending /\ ~timer /\ ~sending /\ ~queued /\ running = "none" /\ ~lost
  => covered = work

\* Automatic convergence: once the tree has changed since the first baseline, its
\* content gets into the index, or a newer one does, through torn observations,
\* failed polls, coalesced reports and retried jobs, unless the watcher stops or
\* the report is lost.
ChangesAreIndexed ==
  \A v \in Versions :
    at \notin {"down", "reconcile"} /\ baseline.known /\ work = v /\ touched
      ~> covered >= v \/ lost \/ at = "down"

\* Startup recovery: what the tree was when the watcher started, with all that
\* changed while nobody watched, gets into the index under the same exceptions.
DowntimeIsRecovered ==
  \A v \in Versions :
    at = "reconcile" /\ work = v ~> covered >= v \/ lost \/ at = "down"

\* specs/2026-08-31-git-aware-automatic-reindexing.md:9 says "Users need every
\* enrolled project to converge automatically after commits, branch switches":
\* a watcher at rest would have everything indexed.  It does not hold: a content
\* that comes back between a discovery and the next poll shows no change, and a
\* job that fails for good reports to nobody (README, divergences).
Converges ==
  /\ at = "asleep" /\ baseline = Fingerprint /\ touched
  /\ ~pending /\ ~timer /\ ~sending /\ ~queued /\ running = "none"
  => covered = work
==============================================================================
