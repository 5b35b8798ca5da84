---------------------------- MODULE DaemonLifecycle ----------------------------
(***************************************************************************)
(* One SCS daemon per storage root: SCSDaemon.start and stop (main.py),    *)
(* the locks they and the controllers take (service.py, daemon.py,         *)
(* uninstall.py), the control socket (wire/server.py), the ownership       *)
(* record (identity.py) and the lease of an MCP bridge (mcp/stdio.py).     *)
(*                                                                         *)
(* A daemon is one process and one generation.  A step of it ends where    *)
(* the coroutine awaits or where another process can see the file it       *)
(* changed.  A controller is a process of the command line or a bridge.    *)
(***************************************************************************)
EXTENDS Naturals, FiniteSets

CONSTANTS
  Daemons,      \* daemon processes, each its own generation
  Controllers,  \* processes that start, use, stop and remove the daemon
  May,          \* controller: the operations it is used for
  NoOne,        \* no process
  MaxFaults     \* bound: deaths, failed steps, lost workers, calls and
                \* deadlines that expire

ASSUME LifecycleAssumption ==
  /\ Daemons \cap Controllers = {}
  /\ NoOne \notin Daemons \cup Controllers
  /\ Controllers \cap {"none", "idle", "asked", "failed"} = {}
  /\ May \in [Controllers -> SUBSET {"ensure", "stop", "uninstall"}]
  /\ MaxFaults \in Nat

VARIABLES
  writer,     \* who holds home/.daemon.lock
  bootstrap,  \* who holds runtime/.bootstrap.lock
  socket,     \* the daemon whose inode is at runtime/scs.sock, dead or alive
  identity,   \* the generation named by runtime/daemon-service.json
  pc,         \* daemon: where start, serve or stop has got to
  why,        \* daemon: what made it stop
  attached,   \* daemon: the connections counted as client leases
  ever,       \* daemon: _ever_attached
  timer,      \* daemon: _shutdown_task
  unready,    \* daemon: its decision worker is being recovered
  active,     \* the job table has queued or running work
  installed,  \* the package is there
  ctl,        \* controller: its operation, its place in it, whom it saw
  faults

locks == <<writer, bootstrap>>
files == <<socket, identity, active, installed>>
leases == <<attached, ever, timer>>
vars == <<locks, files, pc, why, leases, unready, ctl, faults>>

Working == {"opening", "publishing", "serving", "stopping", "closing"}
Released == {"releasing", "unlinking", "gone"}
Reasons == {"none", "idle", "asked", "failed"}
Ops == {"ensure", "stop", "uninstall"}

\* Places in which a controller holds a lock.
HoldsWriter == {"vacant", "confirmed", "removing", "purging"}
HoldsBootstrap == {"booting", "polling"}

Places ==
  {"idle", "waiting", "connecting", "attaching", "attached", "asking", "unverified",
   "shutdown", "awaiting", "locking"} \cup HoldsWriter \cup HoldsBootstrap
Visits == [op : Ops, at : Places, saw : Daemons \cup {NoOne}]

NoTimer == [at |-> "off", unattached |-> FALSE]
Asleep(unattached) == [at |-> "asleep", unattached |-> unattached]
AtRest == [op |-> "ensure", at |-> "idle", saw |-> NoOne]

\* Connections a daemon has with bridges, counted as leases or about to be.
Connected(d) == {c \in Controllers :
                   ctl[c].saw = d /\ ctl[c].at \in {"attaching", "attached"}}

\* Values of their types.
TypeOK ==
  /\ writer \in Daemons \cup Controllers \cup {NoOne}
  /\ bootstrap \in Controllers \cup {NoOne}
  /\ socket \in Daemons \cup {NoOne}
  /\ identity \in Daemons \cup {NoOne}
  /\ pc \in [Daemons -> {"unborn", "starting"} \cup Working \cup Released]
  /\ why \in [Daemons -> Reasons \cup Controllers]
  /\ attached \in [Daemons -> SUBSET Controllers]
  /\ ever \in [Daemons -> BOOLEAN]
  /\ timer \in [Daemons -> [at : {"off", "asleep", "busy", "quiet", "raised"},
                            unattached : BOOLEAN]]
  /\ unready \in [Daemons -> BOOLEAN]
  /\ active \in BOOLEAN /\ installed \in BOOLEAN
  /\ ctl \in [Controllers -> Visits]
  /\ faults \in Nat

Init ==
  /\ writer = NoOne /\ bootstrap = NoOne
  /\ socket = NoOne /\ identity = NoOne
  /\ pc = [d \in Daemons |-> "unborn"]
  /\ why = [d \in Daemons |-> "none"]
  /\ attached = [d \in Daemons |-> {}]
  /\ ever = [d \in Daemons |-> FALSE]
  /\ timer = [d \in Daemons |-> NoTimer]
  /\ unready = [d \in Daemons |-> FALSE]
  /\ active \in BOOLEAN /\ installed = TRUE
  /\ ctl = [c \in Controllers |-> AtRest]
  /\ faults = 0

Listens(d) == d # NoOne /\ pc[d] \in {"publishing", "serving", "stopping"}
Goto(d, place) == pc' = [pc EXCEPT ![d] = place]
Fault == faults < MaxFaults /\ faults' = faults + 1

\* A connection is lost with the server that holds it, and a bridge then
\* ends; what the process remembers of its clients no longer matters.
HangUp(d) ==
  /\ ctl' = [c \in Controllers |-> IF c \in Connected(d) THEN AtRest ELSE ctl[c]]
  /\ attached' = [attached EXCEPT ![d] = {}]
  /\ timer' = [timer EXCEPT ![d] = NoTimer]
  /\ ever' = [ever EXCEPT ![d] = FALSE]
  /\ unready' = [unready EXCEPT ![d] = FALSE]
  /\ why' = [why EXCEPT ![d] = "none"]

(***************************************************************************)
(* SCSDaemon.start                                                         *)
(***************************************************************************)
\* "scs serve" typed by hand, beside what controllers spawn.
Serve(d) ==
  /\ pc[d] = "unborn" /\ installed
  /\ Goto(d, "starting")
  /\ UNCHANGED <<locks, files, why, leases, unready, ctl, faults>>

\* Non-blocking: whoever finds the lock held gives up, and the process ends.
AcquireLock(d) ==
  /\ pc[d] = "starting"
  /\ IF writer = NoOne
     THEN writer' = d /\ Goto(d, "opening")
     ELSE Goto(d, "gone") /\ UNCHANGED writer
  /\ UNCHANGED <<bootstrap, files, why, leases, unready, ctl, faults>>

\* Variant: the server is started before the lock is taken.
BindUnlocked(d) ==
  /\ pc[d] = "starting"
  /\ socket' = d
  /\ Goto(d, "publishing")
  /\ UNCHANGED <<locks, identity, active, installed, why, leases, unready, ctl, faults>>

\* Stores, runner and watchers are up; a socket nobody answers is replaced.
Bind(d) ==
  /\ pc[d] = "opening"
  /\ ~Listens(socket)
  /\ socket' = d
  /\ Goto(d, "publishing")
  /\ UNCHANGED <<locks, identity, active, installed, why, leases, unready, ctl, faults>>

\* publish, _started and arm_startup_grace, without an await in between.
Publish(d) ==
  /\ pc[d] = "publishing"
  /\ identity' = d
  /\ Goto(d, "serving")
  /\ timer' = [timer EXCEPT ![d] = Asleep(TRUE)]
  /\ UNCHANGED <<locks, socket, active, installed, why, attached, ever, unready, ctl, faults>>

\* Any step of start may raise; what it had made is taken down again.
FailStart(d) ==
  /\ pc[d] \in {"opening", "publishing"}
  /\ Fault
  /\ why' = [why EXCEPT ![d] = "failed"]
  /\ identity' = IF identity = d THEN NoOne ELSE identity
  /\ socket' = IF socket = d THEN NoOne ELSE socket
  /\ Goto(d, "closing")
  /\ UNCHANGED <<locks, active, installed, leases, unready, ctl>>

(***************************************************************************)
(* The reasons to stop                                                     *)
(***************************************************************************)
RequestShutdown(d, reason) ==
  /\ pc[d] = "serving"
  /\ why' = [why EXCEPT ![d] = reason]
  /\ Goto(d, "stopping")

\* SIGINT or SIGTERM.
Signal(d) ==
  /\ RequestShutdown(d, "asked")
  /\ UNCHANGED <<locks, files, leases, unready, ctl, faults>>

\* The decision worker stops answering; it comes back, or recovery gives up
\* and on_unavailable asks for shutdown.
LoseWorker(d) ==
  /\ pc[d] = "serving" /\ ~unready[d]
  /\ Fault
  /\ unready' = [unready EXCEPT ![d] = TRUE]
  /\ UNCHANGED <<locks, files, pc, why, leases, ctl>>

RecoverWorker(d) ==
  /\ unready[d]
  /\ \/ /\ pc[d] \in {"serving", "stopping"}
        /\ unready' = [unready EXCEPT ![d] = FALSE]
        /\ UNCHANGED <<pc, why>>
     \/ RequestShutdown(d, "asked") /\ UNCHANGED unready
  /\ UNCHANGED <<locks, files, leases, ctl, faults>>

\* _shutdown_after: the delay is over and a thread reads has_active.  When that
\* raises, the task is over and nobody arms another.
TimerReads(d) ==
  /\ timer[d].at = "asleep"
  /\ \E found \in {IF active THEN "busy" ELSE "quiet", "raised"} :
       /\ timer' = [timer EXCEPT ![d] = [at |-> found, unattached |-> timer[d].unattached]]
       /\ IF found = "raised" THEN Fault ELSE UNCHANGED faults
  /\ UNCHANGED <<locks, files, pc, why, attached, ever, unready, ctl>>

\* Variant: the timer that finds work running is not armed again.
TimerDecidesOnce(d) ==
  /\ timer[d].at \in {"busy", "quiet"}
  /\ timer' = [timer EXCEPT ![d] = NoTimer]
  /\ IF timer[d].at = "quiet" /\ (timer[d].unattached => ~ever[d]) /\ pc[d] = "serving"
     THEN RequestShutdown(d, "idle")
     ELSE UNCHANGED <<pc, why>>
  /\ UNCHANGED <<locks, files, attached, ever, unready, ctl, faults>>

\* Back in the event loop: wait again for the work to drain, or stop.
TimerDecides(d) ==
  /\ \/ /\ timer[d].at = "busy"
        /\ timer' = [timer EXCEPT ![d] = Asleep(timer[d].unattached)]
        /\ UNCHANGED <<pc, why>>
     \/ /\ timer[d].at = "quiet"
        /\ timer' = [timer EXCEPT ![d] = NoTimer]
        /\ IF (timer[d].unattached => ~ever[d]) /\ pc[d] = "serving"
           THEN RequestShutdown(d, "idle")
           ELSE UNCHANGED <<pc, why>>
  /\ UNCHANGED <<locks, files, attached, ever, unready, ctl, faults>>

(***************************************************************************)
(* SCSDaemon.stop                                                          *)
(***************************************************************************)
\* Variant: the lock is released before the runner has drained.
CloseServerAndRelease(d) ==
  /\ pc[d] = "stopping"
  /\ Goto(d, "closing")
  /\ HangUp(d)
  /\ writer' = NoOne
  /\ socket' = IF socket = d THEN NoOne ELSE socket
  /\ UNCHANGED <<bootstrap, identity, active, installed, faults>>

\* The timer is cancelled, the server closed, its own socket removed.
CloseServer(d) ==
  /\ pc[d] = "stopping"
  /\ Goto(d, "closing")
  /\ HangUp(d)
  /\ socket' = IF socket = d THEN NoOne ELSE socket
  /\ UNCHANGED <<locks, identity, active, installed, faults>>

\* Watchers and runner have drained and the stores are flushed.  After a
\* failed start the record is already gone and nothing is left to do.
ReleaseLock(d) ==
  /\ pc[d] = "closing"
  /\ writer' = IF writer = d THEN NoOne ELSE writer
  /\ Goto(d, IF why[d] = "failed" THEN "gone" ELSE "releasing")
  /\ UNCHANGED <<bootstrap, files, why, leases, unready, ctl, faults>>

\* remove_owned reads the record, and unlinks the path when it is its own.
ReadIdentity(d) ==
  /\ pc[d] = "releasing"
  /\ Goto(d, IF identity = d THEN "unlinking" ELSE "gone")
  /\ UNCHANGED <<locks, files, why, leases, unready, ctl, faults>>

UnlinkIdentity(d) ==
  /\ pc[d] = "unlinking"
  /\ identity' = NoOne
  /\ Goto(d, "gone")
  /\ UNCHANGED <<locks, socket, active, installed, why, leases, unready, ctl, faults>>

\* The kernel drops the lock of a dead process; its files stay.
Crash(d) ==
  /\ pc[d] \notin {"unborn", "gone"}
  /\ Fault
  /\ Goto(d, "gone")
  /\ writer' = IF writer = d THEN NoOne ELSE writer
  /\ HangUp(d)
  /\ UNCHANGED <<bootstrap, files>>

(***************************************************************************)
(* Work                                                                    *)
(***************************************************************************)
AcceptJob(d) ==
  /\ pc[d] \in {"serving", "stopping"} /\ ~active
  /\ active' = TRUE
  /\ UNCHANGED <<locks, socket, identity, installed, pc, why, leases, unready, ctl, faults>>

FinishJobs(d) ==
  /\ pc[d] \in Working /\ active
  /\ active' = FALSE
  /\ UNCHANGED <<locks, socket, identity, installed, pc, why, leases, unready, ctl, faults>>

(***************************************************************************)
(* DaemonController.ensure_started and the bridge                          *)
(***************************************************************************)
\* What system.health finds at the socket.
Health == IF socket # NoOne /\ pc[socket] \in {"serving", "stopping"}
          THEN socket ELSE NoOne
Ready(d) == d # NoOne /\ ~unready[d]

\* status(): the daemon that answered, none when the call failed or timed out.
Status(d) ==
  \/ d = Health /\ UNCHANGED faults
  \/ d = NoOne /\ d # Health /\ Fault

Visit(c, op, place, d) == ctl' = [ctl EXCEPT ![c] = [op |-> op, at |-> place, saw |-> d]]
Move(c, place) == Visit(c, ctl[c].op, place, ctl[c].saw)
Meet(c, place, d) == Visit(c, ctl[c].op, place, d)
Return(c) == ctl' = [ctl EXCEPT ![c] = AtRest]
FreeBootstrap(c) == bootstrap' = IF bootstrap = c THEN NoOne ELSE bootstrap

EnsureStarted(c) ==
  /\ ctl[c].at = "idle" /\ "ensure" \in May[c]
  /\ \E d \in Daemons \cup {NoOne} :
       /\ Status(d)
       /\ Visit(c, "ensure", IF Ready(d) THEN "connecting" ELSE "waiting", NoOne)
  /\ UNCHANGED <<locks, files, pc, why, leases, unready>>

\* The bootstrap lock, or meanwhile the daemon that its holder has started.
TakeBootstrap(c) ==
  /\ ctl[c].at = "waiting"
  /\ IF bootstrap = NoOne
     THEN bootstrap' = c /\ Move(c, "booting")
     ELSE Ready(Health) /\ Move(c, "connecting") /\ UNCHANGED bootstrap
  /\ UNCHANGED <<writer, files, pc, why, leases, unready, faults>>

\* Under the lock: nothing answers, so spawn one contender.
Spawn(c, d) ==
  /\ ctl[c].at = "booting"
  /\ Status(NoOne)
  /\ installed /\ pc[d] = "unborn"
  /\ Goto(d, "starting")
  /\ Meet(c, "polling", d)
  /\ UNCHANGED <<locks, files, why, leases, unready>>

\* Nothing answers and the executable is gone (or the bound on processes met).
SpawnFails(c) ==
  /\ ctl[c].at = "booting"
  /\ Status(NoOne)
  /\ ~installed \/ \A d \in Daemons : pc[d] # "unborn"
  /\ FreeBootstrap(c)
  /\ Return(c)
  /\ UNCHANGED <<writer, files, pc, why, leases, unready>>

\* A daemon that is up but not ready is waited for, not doubled.
AwaitReady(c) ==
  /\ ctl[c].at = "booting"
  /\ Health # NoOne /\ ~Ready(Health)
  /\ Meet(c, "polling", NoOne)
  /\ UNCHANGED <<locks, files, pc, why, leases, unready, faults>>

Started(c) ==
  /\ ctl[c].at \in {"booting", "polling"}
  /\ Ready(Health)
  /\ FreeBootstrap(c)
  /\ Meet(c, "connecting", NoOne)
  /\ UNCHANGED <<writer, files, pc, why, leases, unready, faults>>

\* "SCS daemon exited before readiness"
ContenderExited(c) ==
  /\ ctl[c].at = "polling"
  /\ ctl[c].saw # NoOne /\ pc[ctl[c].saw] = "gone"
  /\ \E d \in Daemons \cup {NoOne} : Status(d) /\ ~Ready(d)
  /\ FreeBootstrap(c)
  /\ Return(c)
  /\ UNCHANGED <<writer, files, pc, why, leases, unready>>

\* The deadlines of ensure_started and stop.
Deadline(c) ==
  /\ ctl[c].at \in {"waiting", "polling", "awaiting"}
  /\ Fault
  /\ FreeBootstrap(c)
  /\ Return(c)
  /\ UNCHANGED <<writer, files, pc, why, leases, unready>>

\* Connect and attach: the daemon at the socket now, whichever was awaited.
Connect(c) ==
  /\ ctl[c].at = "connecting"
  /\ IF Health = NoOne THEN Return(c) ELSE Meet(c, "attaching", Health)
  /\ UNCHANGED <<locks, files, pc, why, leases, unready, faults>>

\* Variant: a client that attaches leaves the pending timer running.
ClientCountedTimerRuns(c) ==
  /\ ctl[c].at = "attaching"
  /\ LET d == ctl[c].saw IN
       /\ attached' = [attached EXCEPT ![d] = @ \cup {c}]
       /\ ever' = [ever EXCEPT ![d] = TRUE]
  /\ Move(c, "attached")
  /\ UNCHANGED <<locks, files, pc, why, timer, unready, faults>>

\* The reply is written; only then is the lease counted.
ClientCounted(c) ==
  /\ ctl[c].at = "attaching"
  /\ LET d == ctl[c].saw IN
       /\ attached' = [attached EXCEPT ![d] = @ \cup {c}]
       /\ ever' = [ever EXCEPT ![d] = TRUE]
       /\ timer' = [timer EXCEPT ![d] = NoTimer]
  /\ Move(c, "attached")
  /\ UNCHANGED <<locks, files, pc, why, unready, faults>>

\* The bridge's peer exits: the last lease arms the handoff timer.
Detach(c) ==
  /\ ctl[c].at = "attached"
  /\ LET d == ctl[c].saw
         left == attached[d] \ {c} IN
       /\ attached' = [attached EXCEPT ![d] = left]
       /\ timer' = [timer EXCEPT ![d] = IF left = {} THEN Asleep(FALSE) ELSE NoTimer]
  /\ Return(c)
  /\ UNCHANGED <<locks, files, pc, why, ever, unready, faults>>

(***************************************************************************)
(* DaemonController.stop and uninstall                                     *)
(***************************************************************************)
\* uninstall keeps ensure_started out for its whole duration.
Stop(c, op) ==
  /\ ctl[c].at = "idle"
  /\ op \in May[c] \cap {"stop", "uninstall"}
  /\ IF op = "uninstall"
     THEN installed /\ bootstrap = NoOne /\ bootstrap' = c
     ELSE UNCHANGED bootstrap
  /\ Visit(c, op, "asking", NoOne)
  /\ UNCHANGED <<writer, files, pc, why, leases, unready, faults>>

AskGeneration(c) ==
  /\ ctl[c].at = "asking"
  /\ \E d \in Daemons \cup {NoOne} :
       Status(d) /\ Meet(c, IF d = NoOne THEN "unverified" ELSE "shutdown", d)
  /\ UNCHANGED <<locks, files, pc, why, leases, unready>>

\* Variant: system.shutdown without the comparison of generations.
SendShutdownToAny(c) ==
  /\ ctl[c].at = "shutdown"
  /\ IF Health # NoOne
     THEN /\ Move(c, "awaiting")
          /\ UNCHANGED bootstrap
          /\ IF pc[Health] = "serving" THEN RequestShutdown(Health, c)
                                       ELSE UNCHANGED <<pc, why>>
          /\ UNCHANGED active
     ELSE Return(c) /\ FreeBootstrap(c) /\ UNCHANGED <<pc, why, active>>
  /\ UNCHANGED <<writer, socket, identity, installed, leases, unready, faults>>

\* system.shutdown names the generation that was seen; another one refuses.
SendShutdown(c) ==
  /\ ctl[c].at = "shutdown"
  /\ IF Health # NoOne /\ Health = ctl[c].saw
     THEN /\ Move(c, "awaiting")
          /\ UNCHANGED bootstrap
          /\ IF pc[Health] = "serving" THEN RequestShutdown(Health, c)
                                       ELSE UNCHANGED <<pc, why>>
          /\ active' \in IF ctl[c].op = "uninstall" THEN {active, FALSE} ELSE {active}
     ELSE Return(c) /\ FreeBootstrap(c) /\ UNCHANGED <<pc, why, active>>
  /\ UNCHANGED <<writer, socket, identity, installed, leases, unready, faults>>

\* Variant: stop() returns as soon as the socket is gone.
ProbeSocket(c) ==
  /\ ctl[c].at \in {"unverified", "awaiting"}
  /\ Health = NoOne
  /\ writer' = c
  /\ Move(c, IF ctl[c].at = "awaiting" THEN "confirmed" ELSE "vacant")
  /\ UNCHANGED <<bootstrap, files, pc, why, leases, unready, faults>>

\* _writer_lock_available takes the lock for a moment to see that it can.
Probe(c) ==
  /\ ctl[c].at \in {"unverified", "awaiting"}
  /\ \/ /\ writer = NoOne
        /\ writer' = c
        /\ Move(c, IF ctl[c].at = "awaiting" THEN "confirmed" ELSE "vacant")
        /\ UNCHANGED bootstrap
     \/ /\ writer # NoOne /\ ctl[c].at = "unverified"
        /\ Return(c) /\ FreeBootstrap(c) /\ UNCHANGED writer
  /\ UNCHANGED <<files, pc, why, leases, unready, faults>>

EndProbe(c) ==
  /\ ctl[c].at \in {"vacant", "confirmed"}
  /\ writer' = NoOne
  /\ IF ctl[c].op = "uninstall" THEN Move(c, "locking") ELSE Return(c)
  /\ UNCHANGED <<bootstrap, files, pc, why, leases, unready, faults>>

LockForRemoval(c) ==
  /\ ctl[c].at = "locking"
  /\ IF writer = NoOne
     THEN writer' = c /\ Move(c, "removing") /\ UNCHANGED bootstrap
     ELSE Return(c) /\ FreeBootstrap(c) /\ UNCHANGED writer
  /\ UNCHANGED <<files, pc, why, leases, unready, faults>>

RemovePackage(c) ==
  /\ ctl[c].at = "removing"
  /\ \/ installed' = FALSE /\ Move(c, "purging") /\ UNCHANGED <<locks, faults>>
     \/ Fault /\ writer' = NoOne /\ FreeBootstrap(c) /\ Return(c) /\ UNCHANGED installed
  /\ UNCHANGED <<socket, identity, active, pc, why, leases, unready>>

\* Everything but the two lock inodes, or nothing without --purge.
Purge(c) ==
  /\ ctl[c].at = "purging"
  /\ \/ socket' = NoOne /\ identity' = NoOne /\ active' = FALSE
     \/ UNCHANGED <<socket, identity, active>>
  /\ writer' = NoOne
  /\ FreeBootstrap(c)
  /\ Return(c)
  /\ UNCHANGED <<installed, pc, why, leases, unready, faults>>

\* A controller is killed: the kernel frees its locks, what it spawned lives.
ControllerDies(c) ==
  /\ ctl[c].at \notin {"idle", "attached", "attaching"}
  /\ Fault
  /\ writer' = IF writer = c THEN NoOne ELSE writer
  /\ FreeBootstrap(c)
  /\ Return(c)
  /\ UNCHANGED <<files, pc, why, leases, unready>>

(***************************************************************************)
(* The specification                                                       *)
(***************************************************************************)
Timer(d) == TimerReads(d) \/ TimerDecides(d)
Teardown(d) == CloseServer(d) \/ ReleaseLock(d) \/ ReadIdentity(d) \/ UnlinkIdentity(d)

Daemon(d) ==
  \/ Serve(d) \/ AcquireLock(d) \/ Bind(d) \/ Publish(d) \/ FailStart(d)
  \/ Signal(d) \/ LoseWorker(d) \/ RecoverWorker(d) \/ Timer(d)
  \/ Teardown(d) \/ Crash(d) \/ AcceptJob(d) \/ FinishJobs(d)

Controller(c) ==
  \/ EnsureStarted(c) \/ TakeBootstrap(c) \/ (\E d \in Daemons : Spawn(c, d))
  \/ SpawnFails(c) \/ AwaitReady(c) \/ Started(c) \/ ContenderExited(c) \/ Deadline(c)
  \/ Connect(c) \/ ClientCounted(c) \/ Detach(c)
  \/ (\E op \in Ops : Stop(c, op)) \/ AskGeneration(c) \/ SendShutdown(c) \/ Probe(c)
  \/ EndProbe(c) \/ LockForRemoval(c) \/ RemovePackage(c) \/ Purge(c) \/ ControllerDies(c)

Next == (\E d \in Daemons : Daemon(d)) \/ (\E c \in Controllers : Controller(c))

Spec == Init /\ [][Next]_vars

\* The event loop runs its timers and its teardown.  Nobody has to call.
FairSpec ==
  /\ Spec
  /\ \A d \in Daemons : WF_vars(Timer(d)) /\ WF_vars(Teardown(d))

(***************************************************************************)
(* Properties                                                              *)
(***************************************************************************)
\* Whoever works on the stores, and whoever removes the package and the data,
\* holds the writer lock: ProcessLock's "exclusive lock preventing duplicate
\* SCS daemons", from before the stores open until after they are flushed.
WorkIsOwned ==
  /\ \A d \in Daemons : pc[d] \in Working => writer = d
  /\ \A c \in Controllers : ctl[c].at \in HoldsWriter => writer = c

\* When stop() reports success, and when uninstall goes on to remove, the
\* generation that was asked to stop has closed its stores for good.
StopMeansStopped ==
  \A c \in Controllers :
    ctl[c].at \in HoldsWriter /\ ctl[c].saw # NoOne => pc[ctl[c].saw] \in Released

\* A socket somebody listens on belongs to the daemon that owns the stores, so
\* no client is ever served by a daemon that is not the writer.
ServerIsTheWriter ==
  \A d \in Daemons : Listens(d) => socket = d /\ writer = d

\* A controller ends only the generation whose health it had read: a daemon
\* started since then is not stopped by the late call.
ShutdownHitsItsGeneration ==
  [][\A d \in Daemons, c \in Controllers :
       why'[d] = c /\ why[d] # c => ctl[c].saw = d]_vars

\* A daemon does not decide to stop as idle while a counted client leases it.
IdleStopSparesClients ==
  [][\A d \in Daemons : why'[d] = "idle" /\ why[d] # "idle" => attached[d] = {}]_vars

\* A daemon nobody leases and with nothing to do stops by itself, whether a
\* client ever attached or not, unless a client or work comes after all, or its
\* timer could not read the queue.
IdleDaemonStops ==
  \A d \in Daemons :
    pc[d] = "serving" /\ Connected(d) = {} /\ ~active
      ~> \/ pc[d] = "gone" \/ Connected(d) # {} \/ active
         \/ timer[d].at = "raised"

\* "Without a bridge lease, the daemon exits after its startup grace period"
\* (specs/2026-09-04-lazy-mcp-daemon-and-github-release.md:55).  It does not
\* hold: the exception ends the only timer (README, divergences).
UnleasedDaemonExits ==
  \A d \in Daemons :
    pc[d] = "serving" ~> pc[d] = "gone" \/ Connected(d) # {} \/ active
=============================================================================
