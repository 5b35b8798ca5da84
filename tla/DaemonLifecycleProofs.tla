------------------------ MODULE DaemonLifecycleProofs ------------------------
(***************************************************************************)
(* Proofs about DaemonLifecycle, for any numbers of daemons, controllers   *)
(* and faults.                                                             *)
(***************************************************************************)
EXTENDS DaemonLifecycle, TLAPS

\* A bridge is connected only to a daemon that answers.
ConnectionsAreServed ==
  \A c \in Controllers :
    ctl[c].at \in {"attaching", "attached"} =>
      ctl[c].saw \in Daemons /\ pc[ctl[c].saw] \in {"serving", "stopping"}

\* Leases are held over connections, and only a daemon whose event loop serves has
\* a timer.
LeasesAreConnections ==
  \A d \in Daemons :
    /\ attached[d] \subseteq Connected(d)
    /\ timer[d].at # "off" \/ attached[d] # {} => pc[d] \in {"serving", "stopping"}

\* What a controller knows of the generation it asked to stop.
AskedToStop ==
  \A c \in Controllers :
    /\ ctl[c].at = "unverified" => ctl[c].saw = NoOne
    /\ ctl[c].at \in {"awaiting", "locking"} \cup HoldsWriter /\ ctl[c].saw # NoOne =>
         pc[ctl[c].saw] \in {"stopping", "closing"} \cup Released

\* An armed timer means that no lease is counted.
TimersAreForIdlers == \A d \in Daemons : timer[d].at # "off" => attached[d] = {}

LifeInv ==
  /\ TypeOK
  /\ WorkIsOwned
  /\ ServerIsTheWriter
  /\ ConnectionsAreServed
  /\ LeasesAreConnections
  /\ AskedToStop
  /\ TimersAreForIdlers

\* Who answers system.health is a daemon whose event loop runs.
LEMMA HealthFacts ==
  ASSUME TypeOK
  PROVE  /\ Health \in Daemons \cup {NoOne}
         /\ Health # NoOne => pc[Health] \in {"serving", "stopping"}
BY DEF TypeOK, Health

\* What a controller's step changes of ctl.
LEMMA VisitFacts ==
  ASSUME NEW c \in Controllers, NEW op \in Ops, NEW place \in Places,
         NEW d \in Daemons \cup {NoOne}, TypeOK, Visit(c, op, place, d)
  PROVE  /\ ctl' \in [Controllers -> Visits]
         /\ ctl'[c] = [op |-> op, at |-> place, saw |-> d]
         /\ \A b \in Controllers : b # c => ctl'[b] = ctl[b]
BY DEF TypeOK, Visits, Visit

\* What the end of a controller's operation changes of ctl.
LEMMA ReturnFacts ==
  ASSUME NEW c \in Controllers, TypeOK, Return(c)
  PROVE  /\ ctl' \in [Controllers -> Visits]
         /\ ctl'[c] = AtRest
         /\ \A b \in Controllers : b # c => ctl'[b] = ctl[b]
BY DEF TypeOK, Visits, Return, AtRest, Places, Ops

\* A controller that holds no connection moves without touching a lease.
LEMMA LeasesUntouched ==
  ASSUME NEW c \in Controllers, LeasesAreConnections, UNCHANGED <<attached, timer>>,
         \A d \in Daemons :
           pc[d] \in {"serving", "stopping"} => pc'[d] \in {"serving", "stopping"},
         ctl[c].at \notin {"attaching", "attached"},
         \A b \in Controllers : b # c => ctl'[b] = ctl[b]
  PROVE  LeasesAreConnections'
BY DEF LeasesAreConnections, Connected

\* A controller moves without disturbing what the others know.
LEMMA OthersKnowTheSame ==
  ASSUME NEW c \in Controllers, TypeOK, AskedToStop,
         \A d \in Daemons : pc'[d] = pc[d] \/ (pc[d] = "serving" /\ pc'[d] = "stopping"),
         \A b \in Controllers : b # c => ctl'[b] = ctl[b],
         ctl'[c].at = "unverified" => ctl'[c].saw = NoOne,
         ctl'[c].at \in {"awaiting", "locking"} \cup HoldsWriter /\ ctl'[c].saw # NoOne =>
           pc'[ctl'[c].saw] \in {"stopping", "closing"} \cup Released
  PROVE  AskedToStop'
<1>1. ASSUME NEW b \in Controllers, b # c
      PROVE  /\ ctl'[b].at = "unverified" => ctl'[b].saw = NoOne
             /\ ctl'[b].at \in {"awaiting", "locking"} \cup HoldsWriter /\ ctl'[b].saw # NoOne =>
                  pc'[ctl'[b].saw] \in {"stopping", "closing"} \cup Released
  <2>1. ctl'[b] = ctl[b] /\ ctl[b].saw \in Daemons \cup {NoOne}
    BY <1>1 DEF TypeOK, Visits
  <2> QED BY <2>1 DEF AskedToStop
<1> QED BY <1>1 DEF AskedToStop

\* Serve preserves the invariant.
LEMMA ServePreserves ==
  ASSUME NEW d \in Daemons, LifeInv, Serve(d)
  PROVE  LifeInv'
BY LifecycleAssumption, SMTT(30) DEF LifeInv, TypeOK, WorkIsOwned, ServerIsTheWriter,
   ConnectionsAreServed, LeasesAreConnections, AskedToStop, TimersAreForIdlers, Connected,
   Listens, Serve, Goto, Places, Visits, Working, Released, Reasons, Ops, HoldsWriter,
   HoldsBootstrap, locks, files, leases

\* AcquireLock preserves the invariant.
LEMMA AcquireLockPreserves ==
  ASSUME NEW d \in Daemons, LifeInv, AcquireLock(d)
  PROVE  LifeInv'
<1>1. TypeOK'
  BY LifecycleAssumption DEF LifeInv, TypeOK, AcquireLock, Goto, Places, Visits, Working,
     Released, Reasons, Ops, HoldsWriter, HoldsBootstrap, files, leases
<1>2. WorkIsOwned'
  BY LifecycleAssumption DEF LifeInv, TypeOK, WorkIsOwned, AcquireLock, Goto, Places, Visits,
     Working, Released, Reasons, Ops, HoldsWriter, HoldsBootstrap, files, leases
<1>3. ServerIsTheWriter'
  BY LifecycleAssumption DEF LifeInv, TypeOK, WorkIsOwned, ServerIsTheWriter, Listens,
     AcquireLock, Goto, Places, Visits, Working, Released, Reasons, Ops, HoldsWriter,
     HoldsBootstrap, files, leases
<1>4. ConnectionsAreServed'
  BY LifecycleAssumption DEF LifeInv, TypeOK, ConnectionsAreServed, AcquireLock, Goto, Places,
     Visits, Working, Released, Reasons, Ops, HoldsWriter, HoldsBootstrap, files, leases
<1>5. LeasesAreConnections'
  <2>1. pc' = [pc EXCEPT ![d] = "opening"] \/ pc' = [pc EXCEPT ![d] = "gone"]
    BY Zenon DEF AcquireLock, Goto
  <2>2. pc[d] = "starting" /\ UNCHANGED attached /\ UNCHANGED timer /\ UNCHANGED ctl
    BY DEF AcquireLock, leases
  <2> QED BY <2>1, <2>2 DEF LifeInv, TypeOK, LeasesAreConnections, Connected
<1>6. AskedToStop'
  BY LifecycleAssumption DEF LifeInv, TypeOK, AskedToStop, AcquireLock, Goto, Places, Visits,
     Working, Released, Reasons, Ops, HoldsWriter, HoldsBootstrap, files, leases
<1>7. TimersAreForIdlers'
  BY LifecycleAssumption DEF LifeInv, TypeOK, TimersAreForIdlers, AcquireLock, Goto, Places,
     Visits, Working, Released, Reasons, Ops, HoldsWriter, HoldsBootstrap, files, leases
<1> QED BY <1>1, <1>2, <1>3, <1>4, <1>5, <1>6, <1>7 DEF LifeInv

\* Bind preserves the invariant.
LEMMA BindPreserves ==
  ASSUME NEW d \in Daemons, LifeInv, Bind(d)
  PROVE  LifeInv'
BY LifecycleAssumption, SMTT(30) DEF LifeInv, TypeOK, WorkIsOwned, ServerIsTheWriter,
   ConnectionsAreServed, LeasesAreConnections, AskedToStop, TimersAreForIdlers, Connected,
   Listens, Bind, Goto, Places, Visits, Working, Released, Reasons, Ops, HoldsWriter,
   HoldsBootstrap, locks, leases

\* Publish preserves the invariant.
LEMMA PublishPreserves ==
  ASSUME NEW d \in Daemons, LifeInv, Publish(d)
  PROVE  LifeInv'
BY LifecycleAssumption, SMTT(30) DEF LifeInv, TypeOK, WorkIsOwned, ServerIsTheWriter,
   ConnectionsAreServed, LeasesAreConnections, AskedToStop, TimersAreForIdlers, Connected,
   Listens, Publish, Asleep, Goto, Places, Visits, Working, Released, Reasons, Ops,
   HoldsWriter, HoldsBootstrap, locks

\* FailStart preserves the invariant.
LEMMA FailStartPreserves ==
  ASSUME NEW d \in Daemons, LifeInv, FailStart(d)
  PROVE  LifeInv'
BY LifecycleAssumption, SMTT(30) DEF LifeInv, TypeOK, WorkIsOwned, ServerIsTheWriter,
   ConnectionsAreServed, LeasesAreConnections, AskedToStop, TimersAreForIdlers, Connected,
   Listens, FailStart, Fault, Goto, Places, Visits, Working, Released, Reasons, Ops,
   HoldsWriter, HoldsBootstrap, locks, leases

\* Signal preserves the invariant.
LEMMA SignalPreserves ==
  ASSUME NEW d \in Daemons, LifeInv, Signal(d)
  PROVE  LifeInv'
BY LifecycleAssumption, SMTT(30) DEF LifeInv, TypeOK, WorkIsOwned, ServerIsTheWriter,
   ConnectionsAreServed, LeasesAreConnections, AskedToStop, TimersAreForIdlers, Connected,
   Listens, Signal, RequestShutdown, Goto, Places, Visits, Working, Released, Reasons, Ops,
   HoldsWriter, HoldsBootstrap, locks, files, leases

\* LoseWorker preserves the invariant.
LEMMA LoseWorkerPreserves ==
  ASSUME NEW d \in Daemons, LifeInv, LoseWorker(d)
  PROVE  LifeInv'
BY LifecycleAssumption, SMTT(30) DEF LifeInv, TypeOK, WorkIsOwned, ServerIsTheWriter,
   ConnectionsAreServed, LeasesAreConnections, AskedToStop, TimersAreForIdlers, Connected,
   Listens, LoseWorker, Fault, Places, Visits, Working, Released, Reasons, Ops, HoldsWriter,
   HoldsBootstrap, locks, files, leases

\* RecoverWorker preserves the invariant.
LEMMA RecoverWorkerPreserves ==
  ASSUME NEW d \in Daemons, LifeInv, RecoverWorker(d)
  PROVE  LifeInv'
<1>1. TypeOK'
  BY LifecycleAssumption DEF LifeInv, TypeOK, RecoverWorker, RequestShutdown, Goto, Places,
     Visits, Working, Released, Reasons, Ops, HoldsWriter, HoldsBootstrap, locks, files, leases
<1>2. WorkIsOwned'
  BY LifecycleAssumption DEF LifeInv, TypeOK, WorkIsOwned, RecoverWorker, RequestShutdown,
     Goto, Places, Visits, Working, Released, Reasons, Ops, HoldsWriter, HoldsBootstrap, locks,
     files, leases
<1>3. ServerIsTheWriter'
  BY LifecycleAssumption DEF LifeInv, TypeOK, WorkIsOwned, ServerIsTheWriter, Listens,
     RecoverWorker, RequestShutdown, Goto, Places, Visits, Working, Released, Reasons, Ops,
     HoldsWriter, HoldsBootstrap, locks, files, leases
<1>4. ConnectionsAreServed'
  BY LifecycleAssumption DEF LifeInv, TypeOK, ConnectionsAreServed, RecoverWorker,
     RequestShutdown, Goto, Places, Visits, Working, Released, Reasons, Ops, HoldsWriter,
     HoldsBootstrap, locks, files, leases
<1>5. LeasesAreConnections'
  BY LifecycleAssumption DEF LifeInv, TypeOK, ConnectionsAreServed, LeasesAreConnections,
     Connected, RecoverWorker, RequestShutdown, Goto, Places, Visits, Working, Released,
     Reasons, Ops, HoldsWriter, HoldsBootstrap, locks, files, leases
<1>6. AskedToStop'
  BY LifecycleAssumption DEF LifeInv, TypeOK, AskedToStop, RecoverWorker, RequestShutdown,
     Goto, Places, Visits, Working, Released, Reasons, Ops, HoldsWriter, HoldsBootstrap, locks,
     files, leases
<1>7. TimersAreForIdlers'
  BY LifecycleAssumption DEF LifeInv, TypeOK, TimersAreForIdlers, RecoverWorker,
     RequestShutdown, Goto, Places, Visits, Working, Released, Reasons, Ops, HoldsWriter,
     HoldsBootstrap, locks, files, leases
<1> QED BY <1>1, <1>2, <1>3, <1>4, <1>5, <1>6, <1>7 DEF LifeInv

\* TimerReads preserves the invariant.
LEMMA TimerReadsPreserves ==
  ASSUME NEW d \in Daemons, LifeInv, TimerReads(d)
  PROVE  LifeInv'
<1>1. PICK found \in {IF active THEN "busy" ELSE "quiet", "raised"} :
        /\ timer' = [timer EXCEPT ![d] = [at |-> found, unattached |-> timer[d].unattached]]
        /\ faults' = faults \/ faults' = faults + 1
  BY DEF TimerReads, Fault
<1>2. /\ timer[d].at = "asleep" /\ found \in {"busy", "quiet", "raised"}
      /\ UNCHANGED <<writer, bootstrap, socket, identity, active, installed, pc, why,
                     attached, ever, unready, ctl>>
  BY <1>1 DEF TimerReads, locks, files
<1>3. TypeOK'
  BY <1>1, <1>2 DEF LifeInv, TypeOK
<1>4. TimersAreForIdlers'
  BY <1>1, <1>2 DEF LifeInv, TypeOK, TimersAreForIdlers
<1>5. WorkIsOwned' /\ ServerIsTheWriter'
  BY <1>2 DEF LifeInv, WorkIsOwned, ServerIsTheWriter, Listens
<1>6. ConnectionsAreServed'
  BY <1>2 DEF LifeInv, ConnectionsAreServed
<1>8. LeasesAreConnections'
  <2>1. \A e \in Daemons : timer'[e].at # "off" => timer[e].at # "off"
    BY <1>1, <1>2 DEF LifeInv, TypeOK
  <2> QED BY <1>2, <2>1 DEF LifeInv, LeasesAreConnections, Connected
<1>7. AskedToStop'
  BY <1>2 DEF LifeInv, AskedToStop
<1> QED BY <1>3, <1>4, <1>5, <1>6, <1>7, <1>8 DEF LifeInv

\* TimerDecides preserves the invariant.
LEMMA TimerDecidesPreserves ==
  ASSUME NEW d \in Daemons, LifeInv, TimerDecides(d)
  PROVE  LifeInv'
<1>1. CASE timer[d].at = "busy" /\ timer' = [timer EXCEPT ![d] = Asleep(timer[d].unattached)]
           /\ UNCHANGED <<pc, why>>
  BY <1>1, LifecycleAssumption DEF LifeInv, TypeOK, WorkIsOwned, ServerIsTheWriter, Listens,
     ConnectionsAreServed, LeasesAreConnections, Connected, AskedToStop, TimersAreForIdlers,
     TimerDecides, Asleep, locks, files
<1>2. CASE timer' = [timer EXCEPT ![d] = NoTimer] /\ UNCHANGED <<pc, why>>
  BY <1>2, LifecycleAssumption DEF LifeInv, TypeOK, WorkIsOwned, ServerIsTheWriter, Listens,
     ConnectionsAreServed, LeasesAreConnections, Connected, AskedToStop, TimersAreForIdlers,
     TimerDecides, NoTimer, locks, files
<1>3. CASE timer' = [timer EXCEPT ![d] = NoTimer] /\ RequestShutdown(d, "idle")
  <2>1. TypeOK'
    BY <1>3, LifecycleAssumption DEF LifeInv, TypeOK, TimerDecides, RequestShutdown, Goto,
       NoTimer, Reasons, Working, Released, locks, files
  <2>2. WorkIsOwned'
    BY <1>3, LifecycleAssumption DEF LifeInv, TypeOK, WorkIsOwned, TimerDecides,
       RequestShutdown, Goto, NoTimer, Reasons, Working, Released, locks, files
  <2>3. ServerIsTheWriter'
    BY <1>3, LifecycleAssumption DEF LifeInv, TypeOK, WorkIsOwned, ServerIsTheWriter, Listens,
       TimerDecides, RequestShutdown, Goto, NoTimer, Reasons, Working, Released, locks, files
  <2>4. ConnectionsAreServed'
    BY <1>3, LifecycleAssumption DEF LifeInv, TypeOK, ConnectionsAreServed, TimerDecides,
       RequestShutdown, Goto, NoTimer, Reasons, Working, Released, locks, files
  <2>5. LeasesAreConnections'
    BY <1>3, LifecycleAssumption DEF LifeInv, TypeOK, ConnectionsAreServed,
       LeasesAreConnections, Connected, TimerDecides, RequestShutdown, Goto, NoTimer, Reasons,
       Working, Released, locks, files
  <2>6. AskedToStop'
    BY <1>3, LifecycleAssumption DEF LifeInv, TypeOK, WorkIsOwned, AskedToStop, TimerDecides,
       RequestShutdown, Goto, NoTimer, Reasons, Working, Released, locks, files
  <2>7. TimersAreForIdlers'
    BY <1>3, LifecycleAssumption DEF LifeInv, TypeOK, TimersAreForIdlers, TimerDecides,
       RequestShutdown, Goto, NoTimer, Reasons, Working, Released, locks, files
  <2> QED BY <2>1, <2>2, <2>3, <2>4, <2>5, <2>6, <2>7 DEF LifeInv
<1> QED BY <1>1, <1>2, <1>3 DEF TimerDecides

\* CloseServer preserves the invariant.
LEMMA CloseServerPreserves ==
  ASSUME NEW d \in Daemons, LifeInv, CloseServer(d)
  PROVE  LifeInv'
BY LifecycleAssumption, SMTT(30) DEF LifeInv, TypeOK, WorkIsOwned, ServerIsTheWriter,
   ConnectionsAreServed, LeasesAreConnections, AskedToStop, TimersAreForIdlers, Connected,
   Listens, CloseServer, HangUp, NoTimer, AtRest, Goto, Places, Visits, Working, Released,
   Reasons, Ops, HoldsWriter, HoldsBootstrap, locks

\* ReleaseLock preserves the invariant.
LEMMA ReleaseLockPreserves ==
  ASSUME NEW d \in Daemons, LifeInv, ReleaseLock(d)
  PROVE  LifeInv'
BY LifecycleAssumption, SMTT(30) DEF LifeInv, TypeOK, WorkIsOwned, ServerIsTheWriter,
   ConnectionsAreServed, LeasesAreConnections, AskedToStop, TimersAreForIdlers, Connected,
   Listens, ReleaseLock, Goto, Places, Visits, Working, Released, Reasons, Ops, HoldsWriter,
   HoldsBootstrap, files, leases

\* ReadIdentity preserves the invariant.
LEMMA ReadIdentityPreserves ==
  ASSUME NEW d \in Daemons, LifeInv, ReadIdentity(d)
  PROVE  LifeInv'
BY LifecycleAssumption, SMTT(30) DEF LifeInv, TypeOK, WorkIsOwned, ServerIsTheWriter,
   ConnectionsAreServed, LeasesAreConnections, AskedToStop, TimersAreForIdlers, Connected,
   Listens, ReadIdentity, Goto, Places, Visits, Working, Released, Reasons, Ops, HoldsWriter,
   HoldsBootstrap, locks, files, leases

\* UnlinkIdentity preserves the invariant.
LEMMA UnlinkIdentityPreserves ==
  ASSUME NEW d \in Daemons, LifeInv, UnlinkIdentity(d)
  PROVE  LifeInv'
BY LifecycleAssumption, SMTT(30) DEF LifeInv, TypeOK, WorkIsOwned, ServerIsTheWriter,
   ConnectionsAreServed, LeasesAreConnections, AskedToStop, TimersAreForIdlers, Connected,
   Listens, UnlinkIdentity, Goto, Places, Visits, Working, Released, Reasons, Ops, HoldsWriter,
   HoldsBootstrap, locks, leases

\* Crash preserves the invariant.
LEMMA CrashPreserves ==
  ASSUME NEW d \in Daemons, LifeInv, Crash(d)
  PROVE  LifeInv'
BY LifecycleAssumption, SMTT(30) DEF LifeInv, TypeOK, WorkIsOwned, ServerIsTheWriter,
   ConnectionsAreServed, LeasesAreConnections, AskedToStop, TimersAreForIdlers, Connected,
   Listens, Crash, Fault, HangUp, NoTimer, AtRest, Goto, Places, Visits, Working, Released,
   Reasons, Ops, HoldsWriter, HoldsBootstrap, files

\* AcceptJob preserves the invariant.
LEMMA AcceptJobPreserves ==
  ASSUME NEW d \in Daemons, LifeInv, AcceptJob(d)
  PROVE  LifeInv'
BY LifecycleAssumption, SMTT(30) DEF LifeInv, TypeOK, WorkIsOwned, ServerIsTheWriter,
   ConnectionsAreServed, LeasesAreConnections, AskedToStop, TimersAreForIdlers, Connected,
   Listens, AcceptJob, Places, Visits, Working, Released, Reasons, Ops, HoldsWriter,
   HoldsBootstrap, locks, leases

\* FinishJobs preserves the invariant.
LEMMA FinishJobsPreserves ==
  ASSUME NEW d \in Daemons, LifeInv, FinishJobs(d)
  PROVE  LifeInv'
<1>1. TypeOK'
  BY LifecycleAssumption DEF LifeInv, TypeOK, FinishJobs, Places, Visits, Working, Released,
     Reasons, Ops, HoldsWriter, HoldsBootstrap, locks, leases
<1>2. WorkIsOwned'
  BY LifecycleAssumption DEF LifeInv, TypeOK, WorkIsOwned, FinishJobs, Places, Visits, Working,
     Released, Reasons, Ops, HoldsWriter, HoldsBootstrap, locks, leases
<1>3. ServerIsTheWriter'
  BY LifecycleAssumption DEF LifeInv, TypeOK, WorkIsOwned, ServerIsTheWriter, Listens,
     FinishJobs, Places, Visits, Working, Released, Reasons, Ops, HoldsWriter, HoldsBootstrap,
     locks, leases
<1>4. ConnectionsAreServed'
  BY LifecycleAssumption DEF LifeInv, TypeOK, ConnectionsAreServed, FinishJobs, Places, Visits,
     Working, Released, Reasons, Ops, HoldsWriter, HoldsBootstrap, locks, leases
<1>5. LeasesAreConnections'
  BY LifecycleAssumption DEF LifeInv, TypeOK, ConnectionsAreServed, LeasesAreConnections,
     Connected, FinishJobs, Places, Visits, Working, Released, Reasons, Ops, HoldsWriter,
     HoldsBootstrap, locks, leases
<1>6. AskedToStop'
  BY LifecycleAssumption DEF LifeInv, TypeOK, AskedToStop, FinishJobs, Places, Visits, Working,
     Released, Reasons, Ops, HoldsWriter, HoldsBootstrap, locks, leases
<1>7. TimersAreForIdlers'
  BY LifecycleAssumption DEF LifeInv, TypeOK, TimersAreForIdlers, FinishJobs, Places, Visits,
     Working, Released, Reasons, Ops, HoldsWriter, HoldsBootstrap, locks, leases
<1> QED BY <1>1, <1>2, <1>3, <1>4, <1>5, <1>6, <1>7 DEF LifeInv

\* EnsureStarted preserves the invariant.
LEMMA EnsureStartedPreserves ==
  ASSUME NEW c \in Controllers, LifeInv, EnsureStarted(c)
  PROVE  LifeInv'
BY LifecycleAssumption, SMTT(30) DEF LifeInv, TypeOK, WorkIsOwned, ServerIsTheWriter,
   ConnectionsAreServed, LeasesAreConnections, AskedToStop, TimersAreForIdlers, Connected,
   Listens, EnsureStarted, Status, Fault, Ready, Health, Visit, Places, Visits, Working,
   Released, Reasons, Ops, HoldsWriter, HoldsBootstrap, locks, files, leases

\* TakeBootstrap preserves the invariant.
LEMMA TakeBootstrapPreserves ==
  ASSUME NEW c \in Controllers, LifeInv, TakeBootstrap(c)
  PROVE  LifeInv'
<1>h. /\ Health \in Daemons \cup {NoOne}
      /\ Health # NoOne => pc[Health] \in {"serving", "stopping"}
  BY HealthFacts DEF LifeInv
<1>c. TypeOK /\ ctl[c].op \in Ops /\ ctl[c].saw \in Daemons \cup {NoOne}
  BY DEF LifeInv, TypeOK, Visits
<1>g. /\ ctl[c].at \notin {"attaching", "attached"}
      /\ UNCHANGED attached /\ UNCHANGED timer /\ UNCHANGED socket
      /\ \A d \in Daemons : pc'[d] = pc[d] \/ (pc[d] = "serving" /\ pc'[d] = "stopping")
      /\ pc' \in [Daemons -> {"unborn", "starting"} \cup Working \cup Released]
  <2>1. ctl[c].at \notin {"attaching", "attached"}
    BY DEF TakeBootstrap
  <2>2. UNCHANGED attached /\ UNCHANGED timer /\ UNCHANGED socket
    BY DEF TakeBootstrap, files, leases
  <2>3. UNCHANGED pc
    BY DEF TakeBootstrap
  <2> QED BY <1>c, <2>1, <2>2, <2>3 DEF TypeOK
<1>v. ctl[c].at = "waiting" /\ UNCHANGED writer
  BY DEF TakeBootstrap
<1>1. CASE bootstrap = NoOne
  <2>m. Visit(c, ctl[c].op, "booting", ctl[c].saw)
    BY <1>1 DEF TakeBootstrap, Move
  <2>p. "booting" \in Places
    BY DEF Places, HoldsWriter, HoldsBootstrap
  <2>e. /\ ctl' \in [Controllers -> Visits]
        /\ ctl'[c] = [op |-> ctl[c].op, at |-> "booting", saw |-> ctl[c].saw]
        /\ \A b \in Controllers : b # c => ctl'[b] = ctl[b]
    BY <1>c, <2>m, <2>p, <1>h, VisitFacts
  <2>1. TypeOK'
    BY <1>g, <1>1, <2>e, LifecycleAssumption, <1>h DEF LifeInv, TypeOK, TakeBootstrap, Ready,
       Places, Visits, Working, Released, Reasons, Ops, HoldsWriter, HoldsBootstrap, files,
       leases
  <2>2. WorkIsOwned'
    BY <1>g, <1>v, <2>e DEF LifeInv, WorkIsOwned, Working, HoldsWriter
  <2>3. ServerIsTheWriter'
    BY <1>g, <1>1, <2>e, LifecycleAssumption, <1>h DEF LifeInv, TypeOK, WorkIsOwned,
       ServerIsTheWriter, Listens, TakeBootstrap, Ready, Places, Visits, Working, Released,
       Reasons, Ops, HoldsWriter, HoldsBootstrap, files, leases
  <2>4. ConnectionsAreServed'
    BY <1>g, <2>e DEF LifeInv, ConnectionsAreServed
  <2>5. LeasesAreConnections'
    BY <1>g, <2>e, LeasesUntouched DEF LifeInv
  <2>6. AskedToStop'
    BY <1>c, <1>g, <2>e, OthersKnowTheSame DEF LifeInv, HoldsWriter
  <2>7. TimersAreForIdlers'
    BY <1>g DEF LifeInv, TimersAreForIdlers
  <2> QED BY <2>1, <2>2, <2>3, <2>4, <2>5, <2>6, <2>7 DEF LifeInv
<1>2. CASE bootstrap # NoOne
  <2>m. Visit(c, ctl[c].op, "connecting", ctl[c].saw)
    BY <1>2 DEF TakeBootstrap, Move
  <2>p. "connecting" \in Places
    BY DEF Places, HoldsWriter, HoldsBootstrap
  <2>e. /\ ctl' \in [Controllers -> Visits]
        /\ ctl'[c] = [op |-> ctl[c].op, at |-> "connecting", saw |-> ctl[c].saw]
        /\ \A b \in Controllers : b # c => ctl'[b] = ctl[b]
    BY <1>c, <2>m, <2>p, <1>h, VisitFacts
  <2>1. TypeOK'
    BY <1>g, <1>2, <2>e, LifecycleAssumption, <1>h DEF LifeInv, TypeOK, TakeBootstrap, Ready,
       Places, Visits, Working, Released, Reasons, Ops, HoldsWriter, HoldsBootstrap, files,
       leases
  <2>2. WorkIsOwned'
    BY <1>g, <1>v, <2>e DEF LifeInv, WorkIsOwned, Working, HoldsWriter
  <2>3. ServerIsTheWriter'
    BY <1>g, <1>2, <2>e, LifecycleAssumption, <1>h DEF LifeInv, TypeOK, WorkIsOwned,
       ServerIsTheWriter, Listens, TakeBootstrap, Ready, Places, Visits, Working, Released,
       Reasons, Ops, HoldsWriter, HoldsBootstrap, files, leases
  <2>4. ConnectionsAreServed'
    BY <1>g, <2>e DEF LifeInv, ConnectionsAreServed
  <2>5. LeasesAreConnections'
    BY <1>g, <2>e, LeasesUntouched DEF LifeInv
  <2>6. AskedToStop'
    BY <1>c, <1>g, <2>e, OthersKnowTheSame DEF LifeInv, HoldsWriter
  <2>7. TimersAreForIdlers'
    BY <1>g DEF LifeInv, TimersAreForIdlers
  <2> QED BY <2>1, <2>2, <2>3, <2>4, <2>5, <2>6, <2>7 DEF LifeInv
<1> QED BY <1>1, <1>2

\* Spawn preserves the invariant.
LEMMA SpawnPreserves ==
  ASSUME NEW c \in Controllers, NEW d \in Daemons, LifeInv, Spawn(c, d)
  PROVE  LifeInv'
BY LifecycleAssumption, SMTT(30) DEF LifeInv, TypeOK, WorkIsOwned, ServerIsTheWriter,
   ConnectionsAreServed, LeasesAreConnections, AskedToStop, TimersAreForIdlers, Connected,
   Listens, Spawn, Status, Fault, Goto, Meet, Visit, Places, Visits, Working, Released,
   Reasons, Ops, HoldsWriter, HoldsBootstrap, locks, files, leases

\* SpawnFails preserves the invariant.
LEMMA SpawnFailsPreserves ==
  ASSUME NEW c \in Controllers, LifeInv, SpawnFails(c)
  PROVE  LifeInv'
BY LifecycleAssumption, SMTT(30) DEF LifeInv, TypeOK, WorkIsOwned, ServerIsTheWriter,
   ConnectionsAreServed, LeasesAreConnections, AskedToStop, TimersAreForIdlers, Connected,
   Listens, SpawnFails, Status, Fault, FreeBootstrap, Return, AtRest, Places, Visits, Working,
   Released, Reasons, Ops, HoldsWriter, HoldsBootstrap, files, leases

\* AwaitReady preserves the invariant.
LEMMA AwaitReadyPreserves ==
  ASSUME NEW c \in Controllers, LifeInv, AwaitReady(c)
  PROVE  LifeInv'
<1>h. /\ Health \in Daemons \cup {NoOne}
      /\ Health # NoOne => pc[Health] \in {"serving", "stopping"}
  BY HealthFacts DEF LifeInv
<1>1. TypeOK'
  BY LifecycleAssumption, <1>h DEF LifeInv, TypeOK, AwaitReady, Ready, Meet, Visit, Places,
     Visits, Working, Released, Reasons, Ops, HoldsWriter, HoldsBootstrap, locks, files, leases
<1>2. WorkIsOwned'
  BY LifecycleAssumption, <1>h DEF LifeInv, TypeOK, WorkIsOwned, AwaitReady, Ready, Meet,
     Visit, Places, Visits, Working, Released, Reasons, Ops, HoldsWriter, HoldsBootstrap,
     locks, files, leases
<1>3. ServerIsTheWriter'
  BY LifecycleAssumption, <1>h DEF LifeInv, TypeOK, WorkIsOwned, ServerIsTheWriter, Listens,
     AwaitReady, Ready, Meet, Visit, Places, Visits, Working, Released, Reasons, Ops,
     HoldsWriter, HoldsBootstrap, locks, files, leases
<1>4. ConnectionsAreServed'
  BY LifecycleAssumption, <1>h DEF LifeInv, TypeOK, ConnectionsAreServed, AwaitReady, Ready,
     Meet, Visit, Places, Visits, Working, Released, Reasons, Ops, HoldsWriter, HoldsBootstrap,
     locks, files, leases
<1>5. LeasesAreConnections'
  BY LifecycleAssumption, <1>h DEF LifeInv, TypeOK, ConnectionsAreServed, LeasesAreConnections,
     Connected, AwaitReady, Ready, Meet, Visit, Places, Visits, Working, Released, Reasons,
     Ops, HoldsWriter, HoldsBootstrap, locks, files, leases
<1>6. AskedToStop'
  BY LifecycleAssumption, <1>h DEF LifeInv, TypeOK, AskedToStop, AwaitReady, Ready, Meet,
     Visit, Places, Visits, Working, Released, Reasons, Ops, HoldsWriter, HoldsBootstrap,
     locks, files, leases
<1>7. TimersAreForIdlers'
  BY LifecycleAssumption, <1>h DEF LifeInv, TypeOK, TimersAreForIdlers, AwaitReady, Ready,
     Meet, Visit, Places, Visits, Working, Released, Reasons, Ops, HoldsWriter, HoldsBootstrap,
     locks, files, leases
<1> QED BY <1>1, <1>2, <1>3, <1>4, <1>5, <1>6, <1>7 DEF LifeInv

\* Started preserves the invariant.
LEMMA StartedPreserves ==
  ASSUME NEW c \in Controllers, LifeInv, Started(c)
  PROVE  LifeInv'
<1>h. /\ Health \in Daemons \cup {NoOne}
      /\ Health # NoOne => pc[Health] \in {"serving", "stopping"}
  BY HealthFacts DEF LifeInv
<1>1. TypeOK'
  BY LifecycleAssumption, <1>h DEF LifeInv, TypeOK, Started, Ready, FreeBootstrap, Meet, Visit,
     Places, Visits, Working, Released, Reasons, Ops, HoldsWriter, HoldsBootstrap, files, leases
<1>2. WorkIsOwned'
  BY LifecycleAssumption, <1>h DEF LifeInv, TypeOK, WorkIsOwned, Started, Ready, FreeBootstrap,
     Meet, Visit, Places, Visits, Working, Released, Reasons, Ops, HoldsWriter, HoldsBootstrap,
     files, leases
<1>3. ServerIsTheWriter'
  BY LifecycleAssumption, <1>h DEF LifeInv, TypeOK, WorkIsOwned, ServerIsTheWriter, Listens,
     Started, Ready, FreeBootstrap, Meet, Visit, Places, Visits, Working, Released, Reasons,
     Ops, HoldsWriter, HoldsBootstrap, files, leases
<1>4. ConnectionsAreServed'
  BY LifecycleAssumption, <1>h DEF LifeInv, TypeOK, ConnectionsAreServed, Started, Ready,
     FreeBootstrap, Meet, Visit, Places, Visits, Working, Released, Reasons, Ops, HoldsWriter,
     HoldsBootstrap, files, leases
<1>5. LeasesAreConnections'
  BY LifecycleAssumption, <1>h DEF LifeInv, TypeOK, ConnectionsAreServed, LeasesAreConnections,
     Connected, Started, Ready, FreeBootstrap, Meet, Visit, Places, Visits, Working, Released,
     Reasons, Ops, HoldsWriter, HoldsBootstrap, files, leases
<1>6. AskedToStop'
  BY LifecycleAssumption, <1>h DEF LifeInv, TypeOK, AskedToStop, Started, Ready, FreeBootstrap,
     Meet, Visit, Places, Visits, Working, Released, Reasons, Ops, HoldsWriter, HoldsBootstrap,
     files, leases
<1>7. TimersAreForIdlers'
  BY LifecycleAssumption, <1>h DEF LifeInv, TypeOK, TimersAreForIdlers, Started, Ready,
     FreeBootstrap, Meet, Visit, Places, Visits, Working, Released, Reasons, Ops, HoldsWriter,
     HoldsBootstrap, files, leases
<1> QED BY <1>1, <1>2, <1>3, <1>4, <1>5, <1>6, <1>7 DEF LifeInv

\* ContenderExited preserves the invariant.
LEMMA ContenderExitedPreserves ==
  ASSUME NEW c \in Controllers, LifeInv, ContenderExited(c)
  PROVE  LifeInv'
BY LifecycleAssumption, SMTT(30) DEF LifeInv, TypeOK, WorkIsOwned, ServerIsTheWriter,
   ConnectionsAreServed, LeasesAreConnections, AskedToStop, TimersAreForIdlers, Connected,
   Listens, ContenderExited, Status, Fault, FreeBootstrap, Return, AtRest, Places, Visits,
   Working, Released, Reasons, Ops, HoldsWriter, HoldsBootstrap, files, leases

\* Deadline preserves the invariant.
LEMMA DeadlinePreserves ==
  ASSUME NEW c \in Controllers, LifeInv, Deadline(c)
  PROVE  LifeInv'
BY LifecycleAssumption, SMTT(30) DEF LifeInv, TypeOK, WorkIsOwned, ServerIsTheWriter,
   ConnectionsAreServed, LeasesAreConnections, AskedToStop, TimersAreForIdlers, Connected,
   Listens, Deadline, Fault, FreeBootstrap, Return, AtRest, Places, Visits, Working, Released,
   Reasons, Ops, HoldsWriter, HoldsBootstrap, files, leases

\* Connect preserves the invariant.
LEMMA ConnectPreserves ==
  ASSUME NEW c \in Controllers, LifeInv, Connect(c)
  PROVE  LifeInv'
<1>h. /\ Health \in Daemons \cup {NoOne}
      /\ Health # NoOne => pc[Health] \in {"serving", "stopping"}
  BY HealthFacts DEF LifeInv
<1>c. TypeOK /\ ctl[c].op \in Ops /\ ctl[c].saw \in Daemons \cup {NoOne}
  BY DEF LifeInv, TypeOK, Visits
<1>g. /\ ctl[c].at \notin {"attaching", "attached"}
      /\ UNCHANGED attached /\ UNCHANGED timer /\ UNCHANGED socket
      /\ \A d \in Daemons : pc'[d] = pc[d] \/ (pc[d] = "serving" /\ pc'[d] = "stopping")
      /\ pc' \in [Daemons -> {"unborn", "starting"} \cup Working \cup Released]
  <2>1. ctl[c].at \notin {"attaching", "attached"}
    BY DEF Connect
  <2>2. UNCHANGED attached /\ UNCHANGED timer /\ UNCHANGED socket
    BY DEF Connect, files, leases
  <2>3. UNCHANGED pc
    BY DEF Connect
  <2> QED BY <1>c, <2>1, <2>2, <2>3 DEF TypeOK
<1>1. CASE Health = NoOne
  <2>m. Return(c)
    BY <1>1 DEF Connect
  <2>e. /\ ctl' \in [Controllers -> Visits]
        /\ ctl'[c] = AtRest
        /\ \A b \in Controllers : b # c => ctl'[b] = ctl[b]
    BY <1>c, <2>m, ReturnFacts
  <2>1. TypeOK'
    BY <1>g, <1>1, <2>e, LifecycleAssumption, <1>h DEF LifeInv, TypeOK, Connect, Places,
       Visits, Working, Released, Reasons, Ops, HoldsWriter, HoldsBootstrap, AtRest, locks,
       files, leases
  <2>2. WorkIsOwned'
    BY <1>g, <1>1, <2>e, LifecycleAssumption, <1>h DEF LifeInv, TypeOK, WorkIsOwned, Connect,
       Places, Visits, Working, Released, Reasons, Ops, HoldsWriter, HoldsBootstrap, AtRest,
       locks, files, leases
  <2>3. ServerIsTheWriter'
    BY <1>g, <1>1, <2>e, LifecycleAssumption, <1>h DEF LifeInv, TypeOK, WorkIsOwned,
       ServerIsTheWriter, Listens, Connect, Places, Visits, Working, Released, Reasons, Ops,
       HoldsWriter, HoldsBootstrap, AtRest, locks, files, leases
  <2>4. ConnectionsAreServed'
    BY <1>g, <1>1, <2>e, LifecycleAssumption, <1>h DEF LifeInv, TypeOK, ConnectionsAreServed,
       Connect, Places, Visits, Working, Released, Reasons, Ops, HoldsWriter, HoldsBootstrap,
       AtRest, locks, files, leases
  <2>5. LeasesAreConnections'
    BY <1>g, <2>e, LeasesUntouched DEF LifeInv
  <2>6. AskedToStop'
    BY <1>c, <1>g, <2>e, OthersKnowTheSame DEF LifeInv, HoldsWriter, AtRest
  <2>7. TimersAreForIdlers'
    BY <1>g DEF LifeInv, TimersAreForIdlers
  <2> QED BY <2>1, <2>2, <2>3, <2>4, <2>5, <2>6, <2>7 DEF LifeInv
<1>2. CASE Health # NoOne
  <2>m. Visit(c, ctl[c].op, "attaching", Health)
    BY <1>2 DEF Connect, Meet
  <2>p. "attaching" \in Places
    BY DEF Places, HoldsWriter, HoldsBootstrap
  <2>e. /\ ctl' \in [Controllers -> Visits]
        /\ ctl'[c] = [op |-> ctl[c].op, at |-> "attaching", saw |-> Health]
        /\ \A b \in Controllers : b # c => ctl'[b] = ctl[b]
    BY <1>c, <2>m, <2>p, <1>h, VisitFacts
  <2>1. TypeOK'
    BY <1>g, <1>2, <2>e, LifecycleAssumption, <1>h DEF LifeInv, TypeOK, Connect, Places,
       Visits, Working, Released, Reasons, Ops, HoldsWriter, HoldsBootstrap, AtRest, locks,
       files, leases
  <2>2. WorkIsOwned'
    BY <1>g, <1>2, <2>e, LifecycleAssumption, <1>h DEF LifeInv, TypeOK, WorkIsOwned, Connect,
       Places, Visits, Working, Released, Reasons, Ops, HoldsWriter, HoldsBootstrap, AtRest,
       locks, files, leases
  <2>3. ServerIsTheWriter'
    BY <1>g, <1>2, <2>e, LifecycleAssumption, <1>h DEF LifeInv, TypeOK, WorkIsOwned,
       ServerIsTheWriter, Listens, Connect, Places, Visits, Working, Released, Reasons, Ops,
       HoldsWriter, HoldsBootstrap, AtRest, locks, files, leases
  <2>4. ConnectionsAreServed'
    BY <1>g, <1>2, <2>e, LifecycleAssumption, <1>h DEF LifeInv, TypeOK, ConnectionsAreServed,
       Connect, Places, Visits, Working, Released, Reasons, Ops, HoldsWriter, HoldsBootstrap,
       AtRest, locks, files, leases
  <2>5. LeasesAreConnections'
    BY <1>g, <2>e, LeasesUntouched DEF LifeInv
  <2>6. AskedToStop'
    BY <1>g, <1>2, <2>e, LifecycleAssumption, <1>h DEF LifeInv, TypeOK, WorkIsOwned,
       AskedToStop, Connect, Places, Visits, Working, Released, Reasons, Ops, HoldsWriter,
       HoldsBootstrap, AtRest, locks, files, leases
  <2>7. TimersAreForIdlers'
    BY <1>g DEF LifeInv, TimersAreForIdlers
  <2> QED BY <2>1, <2>2, <2>3, <2>4, <2>5, <2>6, <2>7 DEF LifeInv
<1> QED BY <1>1, <1>2

\* ClientCounted preserves the invariant.
LEMMA ClientCountedPreserves ==
  ASSUME NEW c \in Controllers, LifeInv, ClientCounted(c)
  PROVE  LifeInv'
<1>1. TypeOK'
  <2>1. TypeOK /\ ctl[c].op \in Ops /\ ctl[c].saw \in Daemons /\ "attached" \in Places
    BY DEF ClientCounted, LifeInv, TypeOK, ConnectionsAreServed, Visits, Places
  <2>2. ctl' \in [Controllers -> Visits]
    BY <2>1, VisitFacts DEF ClientCounted, Move
  <2>3. /\ attached' \in [Daemons -> SUBSET Controllers]
        /\ ever' \in [Daemons -> BOOLEAN]
        /\ timer' \in [Daemons -> [at : {"off", "asleep", "busy", "quiet", "raised"},
                                  unattached : BOOLEAN]]
    BY <2>1 DEF ClientCounted, TypeOK, NoTimer
  <2> QED BY <2>1, <2>2, <2>3 DEF ClientCounted, TypeOK, locks, files
<1>2. WorkIsOwned'
  BY LifecycleAssumption DEF LifeInv, TypeOK, WorkIsOwned, ClientCounted, NoTimer, Move, Visit,
     Places, Visits, Working, Released, Reasons, Ops, HoldsWriter, HoldsBootstrap, locks, files
<1>3. ServerIsTheWriter'
  BY LifecycleAssumption DEF LifeInv, TypeOK, WorkIsOwned, ServerIsTheWriter, Listens,
     ClientCounted, NoTimer, Move, Visit, Places, Visits, Working, Released, Reasons, Ops,
     HoldsWriter, HoldsBootstrap, locks, files
<1>4. ConnectionsAreServed'
  BY LifecycleAssumption DEF LifeInv, TypeOK, ConnectionsAreServed, ClientCounted, NoTimer,
     Move, Visit, Places, Visits, Working, Released, Reasons, Ops, HoldsWriter, HoldsBootstrap,
     locks, files
<1>5. LeasesAreConnections'
  BY LifecycleAssumption DEF LifeInv, TypeOK, ConnectionsAreServed, LeasesAreConnections,
     Connected, ClientCounted, NoTimer, Move, Visit, Places, Visits, Working, Released,
     Reasons, Ops, HoldsWriter, HoldsBootstrap, locks, files
<1>6. AskedToStop'
  BY LifecycleAssumption DEF LifeInv, TypeOK, AskedToStop, ClientCounted, NoTimer, Move, Visit,
     Places, Visits, Working, Released, Reasons, Ops, HoldsWriter, HoldsBootstrap, locks, files
<1>7. TimersAreForIdlers'
  BY LifecycleAssumption DEF LifeInv, TypeOK, TimersAreForIdlers, ClientCounted, NoTimer, Move,
     Visit, Places, Visits, Working, Released, Reasons, Ops, HoldsWriter, HoldsBootstrap,
     locks, files
<1> QED BY <1>1, <1>2, <1>3, <1>4, <1>5, <1>6, <1>7 DEF LifeInv

\* Stop preserves the invariant.
LEMMA StopPreserves ==
  ASSUME NEW c \in Controllers, NEW op \in Ops, LifeInv, Stop(c, op)
  PROVE  LifeInv'
BY LifecycleAssumption, SMTT(30) DEF LifeInv, TypeOK, WorkIsOwned, ServerIsTheWriter,
   ConnectionsAreServed, LeasesAreConnections, AskedToStop, TimersAreForIdlers, Connected,
   Listens, Stop, Visit, Places, Visits, Working, Released, Reasons, Ops, HoldsWriter,
   HoldsBootstrap, files, leases

\* Detach preserves the invariant.
LEMMA DetachPreserves ==
  ASSUME NEW c \in Controllers, LifeInv, Detach(c)
  PROVE  LifeInv'
BY LifecycleAssumption, SMTT(30) DEF LifeInv, TypeOK, WorkIsOwned, ServerIsTheWriter,
   ConnectionsAreServed, LeasesAreConnections, AskedToStop, TimersAreForIdlers, Connected,
   Listens, Detach, NoTimer, Asleep, Return, AtRest, Places, Visits, Working, Released,
   Reasons, Ops, HoldsWriter, HoldsBootstrap, locks, files

\* AskGeneration preserves the invariant.
LEMMA AskGenerationPreserves ==
  ASSUME NEW c \in Controllers, LifeInv, AskGeneration(c)
  PROVE  LifeInv'
<1>h. /\ Health \in Daemons \cup {NoOne}
      /\ Health # NoOne => pc[Health] \in {"serving", "stopping"}
  BY HealthFacts DEF LifeInv
<1>1. TypeOK'
  BY LifecycleAssumption, <1>h DEF LifeInv, TypeOK, AskGeneration, Status, Fault, Meet, Visit,
     Places, Visits, Working, Released, Reasons, Ops, HoldsWriter, HoldsBootstrap, locks,
     files, leases
<1>2. WorkIsOwned'
  BY LifecycleAssumption, <1>h DEF LifeInv, TypeOK, WorkIsOwned, AskGeneration, Status, Fault,
     Meet, Visit, Places, Visits, Working, Released, Reasons, Ops, HoldsWriter, HoldsBootstrap,
     locks, files, leases
<1>3. ServerIsTheWriter'
  BY LifecycleAssumption, <1>h DEF LifeInv, TypeOK, WorkIsOwned, ServerIsTheWriter, Listens,
     AskGeneration, Status, Fault, Meet, Visit, Places, Visits, Working, Released, Reasons,
     Ops, HoldsWriter, HoldsBootstrap, locks, files, leases
<1>4. ConnectionsAreServed'
  BY LifecycleAssumption, <1>h DEF LifeInv, TypeOK, ConnectionsAreServed, AskGeneration,
     Status, Fault, Meet, Visit, Places, Visits, Working, Released, Reasons, Ops, HoldsWriter,
     HoldsBootstrap, locks, files, leases
<1>5. LeasesAreConnections'
  BY LifecycleAssumption, <1>h DEF LifeInv, TypeOK, ConnectionsAreServed, LeasesAreConnections,
     Connected, AskGeneration, Status, Fault, Meet, Visit, Places, Visits, Working, Released,
     Reasons, Ops, HoldsWriter, HoldsBootstrap, locks, files, leases
<1>6. AskedToStop'
  BY LifecycleAssumption, <1>h DEF LifeInv, TypeOK, AskedToStop, AskGeneration, Status, Fault,
     Meet, Visit, Places, Visits, Working, Released, Reasons, Ops, HoldsWriter, HoldsBootstrap,
     locks, files, leases
<1>7. TimersAreForIdlers'
  BY LifecycleAssumption, <1>h DEF LifeInv, TypeOK, TimersAreForIdlers, AskGeneration, Status,
     Fault, Meet, Visit, Places, Visits, Working, Released, Reasons, Ops, HoldsWriter,
     HoldsBootstrap, locks, files, leases
<1> QED BY <1>1, <1>2, <1>3, <1>4, <1>5, <1>6, <1>7 DEF LifeInv

\* SendShutdown preserves the invariant.
LEMMA SendShutdownPreserves ==
  ASSUME NEW c \in Controllers, LifeInv, SendShutdown(c)
  PROVE  LifeInv'
<1>h. /\ Health \in Daemons \cup {NoOne}
      /\ Health # NoOne => pc[Health] \in {"serving", "stopping"}
  BY HealthFacts DEF LifeInv
<1>c. TypeOK /\ ctl[c].op \in Ops /\ ctl[c].saw \in Daemons \cup {NoOne}
  BY DEF LifeInv, TypeOK, Visits
<1>g. /\ ctl[c].at \notin {"attaching", "attached"}
      /\ UNCHANGED attached /\ UNCHANGED timer /\ UNCHANGED socket
      /\ \A d \in Daemons : pc'[d] = pc[d] \/ (pc[d] = "serving" /\ pc'[d] = "stopping")
      /\ pc' \in [Daemons -> {"unborn", "starting"} \cup Working \cup Released]
  <2>1. ctl[c].at \notin {"attaching", "attached"}
    BY DEF SendShutdown
  <2>2. UNCHANGED attached /\ UNCHANGED timer /\ UNCHANGED socket
    BY DEF SendShutdown, leases
  <2>3. UNCHANGED pc \/ (pc[Health] = "serving" /\ pc' = [pc EXCEPT ![Health] = "stopping"])
    BY Zenon DEF SendShutdown, RequestShutdown, Goto
  <2> QED BY <1>c, <1>h, <2>1, <2>2, <2>3 DEF TypeOK, Working
<1>w. UNCHANGED why \/ why' = [why EXCEPT ![Health] = c]
  BY Zenon DEF SendShutdown, RequestShutdown
<1>a. active' \in BOOLEAN
  BY <1>c DEF SendShutdown, TypeOK
<1>b. bootstrap' \in Controllers \cup {NoOne}
  BY <1>c DEF SendShutdown, FreeBootstrap, TypeOK
<1>u. /\ UNCHANGED writer /\ UNCHANGED identity /\ UNCHANGED installed
      /\ UNCHANGED ever /\ UNCHANGED unready /\ UNCHANGED faults
  BY DEF SendShutdown, leases
<1>1. CASE Health # NoOne /\ Health = ctl[c].saw
  <2>m. Visit(c, ctl[c].op, "awaiting", ctl[c].saw)
    BY <1>1 DEF SendShutdown, Move
  <2>p. "awaiting" \in Places
    BY DEF Places, HoldsWriter, HoldsBootstrap
  <2>e. /\ ctl' \in [Controllers -> Visits]
        /\ ctl'[c] = [op |-> ctl[c].op, at |-> "awaiting", saw |-> ctl[c].saw]
        /\ \A b \in Controllers : b # c => ctl'[b] = ctl[b]
    BY <1>c, <2>m, <2>p, <1>h, VisitFacts
  <2>1. TypeOK'
    BY <1>c, <1>g, <1>h, <1>w, <1>a, <1>b, <1>u, <2>e DEF TypeOK
  <2>2. WorkIsOwned'
    BY <1>g, <1>u, <2>e DEF LifeInv, WorkIsOwned, Working, HoldsWriter
  <2>3. ServerIsTheWriter'
    BY <1>g, <1>1, <2>e, LifecycleAssumption, <1>h DEF LifeInv, TypeOK, WorkIsOwned,
       ServerIsTheWriter, Listens, SendShutdown, RequestShutdown, FreeBootstrap, Goto, Places,
       Visits, Working, Released, Reasons, Ops, HoldsWriter, HoldsBootstrap, AtRest, leases
  <2>4. ConnectionsAreServed'
    BY <1>g, <2>e DEF LifeInv, ConnectionsAreServed
  <2>5. LeasesAreConnections'
    BY <1>g, <2>e, LeasesUntouched DEF LifeInv
  <2>6. AskedToStop'
    <3>1. pc'[ctl[c].saw] \in {"stopping", "closing"} \cup Released
      BY <1>g, <1>h, <1>1 DEF SendShutdown, RequestShutdown, Goto, LifeInv, TypeOK
    <3> QED BY <3>1, <1>c, <1>g, <2>e, OthersKnowTheSame DEF LifeInv
  <2>7. TimersAreForIdlers'
    BY <1>g DEF LifeInv, TimersAreForIdlers
  <2> QED BY <2>1, <2>2, <2>3, <2>4, <2>5, <2>6, <2>7 DEF LifeInv
<1>2. CASE ~(Health # NoOne /\ Health = ctl[c].saw)
  <2>m. Return(c)
    BY <1>2 DEF SendShutdown
  <2>e. /\ ctl' \in [Controllers -> Visits]
        /\ ctl'[c] = AtRest
        /\ \A b \in Controllers : b # c => ctl'[b] = ctl[b]
    BY <1>c, <2>m, ReturnFacts
  <2>1. TypeOK'
    BY <1>c, <1>g, <1>h, <1>w, <1>a, <1>b, <1>u, <2>e DEF TypeOK
  <2>2. WorkIsOwned'
    BY <1>g, <1>u, <2>e DEF LifeInv, WorkIsOwned, Working, HoldsWriter, AtRest
  <2>3. ServerIsTheWriter'
    BY <1>g, <1>2, <2>e, LifecycleAssumption, <1>h DEF LifeInv, TypeOK, WorkIsOwned,
       ServerIsTheWriter, Listens, SendShutdown, RequestShutdown, FreeBootstrap, Goto, Places,
       Visits, Working, Released, Reasons, Ops, HoldsWriter, HoldsBootstrap, AtRest, leases
  <2>4. ConnectionsAreServed'
    BY <1>g, <2>e DEF LifeInv, ConnectionsAreServed, AtRest
  <2>5. LeasesAreConnections'
    BY <1>g, <2>e, LeasesUntouched DEF LifeInv
  <2>6. AskedToStop'
    BY <1>c, <1>g, <2>e, OthersKnowTheSame DEF LifeInv, HoldsWriter, AtRest
  <2>7. TimersAreForIdlers'
    BY <1>g DEF LifeInv, TimersAreForIdlers
  <2> QED BY <2>1, <2>2, <2>3, <2>4, <2>5, <2>6, <2>7 DEF LifeInv
<1> QED BY <1>1, <1>2

\* Probe preserves the invariant.
LEMMA ProbePreserves ==
  ASSUME NEW c \in Controllers, LifeInv, Probe(c)
  PROVE  LifeInv'
<1>c. TypeOK /\ ctl[c].op \in Ops /\ ctl[c].saw \in Daemons \cup {NoOne}
  BY DEF LifeInv, TypeOK, Visits
<1>g. /\ ctl[c].at \notin {"attaching", "attached"}
      /\ UNCHANGED attached /\ UNCHANGED timer /\ UNCHANGED socket
      /\ \A d \in Daemons : pc'[d] = pc[d] \/ (pc[d] = "serving" /\ pc'[d] = "stopping")
      /\ pc' \in [Daemons -> {"unborn", "starting"} \cup Working \cup Released]
  <2>1. ctl[c].at \notin {"attaching", "attached"}
    BY DEF Probe
  <2>2. UNCHANGED attached /\ UNCHANGED timer /\ UNCHANGED socket
    BY DEF Probe, files, leases
  <2>3. UNCHANGED pc
    BY DEF Probe
  <2> QED BY <1>c, <2>1, <2>2, <2>3 DEF TypeOK
<1>1. CASE writer = NoOne /\ ctl[c].at = "awaiting"
  <2>m. Visit(c, ctl[c].op, "confirmed", ctl[c].saw)
    BY <1>1 DEF Probe, Move
  <2>p. "confirmed" \in Places
    BY DEF Places, HoldsWriter, HoldsBootstrap
  <2>e. /\ ctl' \in [Controllers -> Visits]
        /\ ctl'[c] = [op |-> ctl[c].op, at |-> "confirmed", saw |-> ctl[c].saw]
        /\ \A b \in Controllers : b # c => ctl'[b] = ctl[b]
    BY <1>c, <2>m, <2>p, VisitFacts
  <2>1. TypeOK'
    BY <1>g, <1>1, <2>e, LifecycleAssumption DEF LifeInv, TypeOK, Probe, FreeBootstrap, Places,
       Visits, Working, Released, Reasons, Ops, HoldsWriter, HoldsBootstrap, AtRest, files,
       leases
  <2>2. WorkIsOwned'
    BY <1>g, <1>1, <2>e, LifecycleAssumption DEF LifeInv, TypeOK, WorkIsOwned, Probe,
       FreeBootstrap, Places, Visits, Working, Released, Reasons, Ops, HoldsWriter,
       HoldsBootstrap, AtRest, files, leases
  <2>3. ServerIsTheWriter'
    BY <1>g, <1>1, <2>e, LifecycleAssumption DEF LifeInv, TypeOK, WorkIsOwned,
       ServerIsTheWriter, Listens, Probe, FreeBootstrap, Places, Visits, Working, Released,
       Reasons, Ops, HoldsWriter, HoldsBootstrap, AtRest, files, leases
  <2>4. ConnectionsAreServed'
    BY <1>g, <2>e DEF LifeInv, ConnectionsAreServed
  <2>5. LeasesAreConnections'
    BY <1>g, <2>e, LeasesUntouched DEF LifeInv
  <2>6. AskedToStop'
    BY <1>g, <1>1, <2>e, LifecycleAssumption DEF LifeInv, TypeOK, WorkIsOwned, AskedToStop,
       Probe, FreeBootstrap, Places, Visits, Working, Released, Reasons, Ops, HoldsWriter,
       HoldsBootstrap, AtRest, files, leases
  <2>7. TimersAreForIdlers'
    BY <1>g DEF LifeInv, TimersAreForIdlers
  <2> QED BY <2>1, <2>2, <2>3, <2>4, <2>5, <2>6, <2>7 DEF LifeInv
<1>2. CASE writer = NoOne /\ ctl[c].at # "awaiting"
  <2>m. Visit(c, ctl[c].op, "vacant", ctl[c].saw)
    BY <1>2 DEF Probe, Move
  <2>p. "vacant" \in Places
    BY DEF Places, HoldsWriter, HoldsBootstrap
  <2>e. /\ ctl' \in [Controllers -> Visits]
        /\ ctl'[c] = [op |-> ctl[c].op, at |-> "vacant", saw |-> ctl[c].saw]
        /\ \A b \in Controllers : b # c => ctl'[b] = ctl[b]
    BY <1>c, <2>m, <2>p, VisitFacts
  <2>1. TypeOK'
    BY <1>g, <1>2, <2>e, LifecycleAssumption DEF LifeInv, TypeOK, Probe, FreeBootstrap, Places,
       Visits, Working, Released, Reasons, Ops, HoldsWriter, HoldsBootstrap, AtRest, files,
       leases
  <2>2. WorkIsOwned'
    BY <1>g, <1>2, <2>e, LifecycleAssumption DEF LifeInv, TypeOK, WorkIsOwned, Probe,
       FreeBootstrap, Places, Visits, Working, Released, Reasons, Ops, HoldsWriter,
       HoldsBootstrap, AtRest, files, leases
  <2>3. ServerIsTheWriter'
    BY <1>g, <1>2, <2>e, LifecycleAssumption DEF LifeInv, TypeOK, WorkIsOwned,
       ServerIsTheWriter, Listens, Probe, FreeBootstrap, Places, Visits, Working, Released,
       Reasons, Ops, HoldsWriter, HoldsBootstrap, AtRest, files, leases
  <2>4. ConnectionsAreServed'
    BY <1>g, <2>e DEF LifeInv, ConnectionsAreServed
  <2>5. LeasesAreConnections'
    BY <1>g, <2>e, LeasesUntouched DEF LifeInv
  <2>6. AskedToStop'
    BY <1>g, <1>2, <2>e, LifecycleAssumption DEF LifeInv, TypeOK, WorkIsOwned, AskedToStop,
       Probe, FreeBootstrap, Places, Visits, Working, Released, Reasons, Ops, HoldsWriter,
       HoldsBootstrap, AtRest, files, leases
  <2>7. TimersAreForIdlers'
    BY <1>g DEF LifeInv, TimersAreForIdlers
  <2> QED BY <2>1, <2>2, <2>3, <2>4, <2>5, <2>6, <2>7 DEF LifeInv
<1>3. CASE writer # NoOne
  <2>m. Return(c)
    BY <1>3 DEF Probe
  <2>e. /\ ctl' \in [Controllers -> Visits]
        /\ ctl'[c] = AtRest
        /\ \A b \in Controllers : b # c => ctl'[b] = ctl[b]
    BY <1>c, <2>m, ReturnFacts
  <2>1. TypeOK'
    BY <1>g, <1>3, <2>e, LifecycleAssumption DEF LifeInv, TypeOK, Probe, FreeBootstrap, Places,
       Visits, Working, Released, Reasons, Ops, HoldsWriter, HoldsBootstrap, AtRest, files,
       leases
  <2>2. WorkIsOwned'
    BY <1>g, <1>3, <2>e, LifecycleAssumption DEF LifeInv, TypeOK, WorkIsOwned, Probe,
       FreeBootstrap, Places, Visits, Working, Released, Reasons, Ops, HoldsWriter,
       HoldsBootstrap, AtRest, files, leases
  <2>3. ServerIsTheWriter'
    BY <1>g, <1>3, <2>e, LifecycleAssumption DEF LifeInv, TypeOK, WorkIsOwned,
       ServerIsTheWriter, Listens, Probe, FreeBootstrap, Places, Visits, Working, Released,
       Reasons, Ops, HoldsWriter, HoldsBootstrap, AtRest, files, leases
  <2>4. ConnectionsAreServed'
    BY <1>g, <2>e DEF LifeInv, ConnectionsAreServed, AtRest
  <2>5. LeasesAreConnections'
    BY <1>g, <2>e, LeasesUntouched DEF LifeInv
  <2>6. AskedToStop'
    BY <1>c, <1>g, <2>e, OthersKnowTheSame DEF LifeInv, HoldsWriter, AtRest
  <2>7. TimersAreForIdlers'
    BY <1>g DEF LifeInv, TimersAreForIdlers
  <2> QED BY <2>1, <2>2, <2>3, <2>4, <2>5, <2>6, <2>7 DEF LifeInv
<1> QED BY <1>1, <1>2, <1>3

\* EndProbe preserves the invariant.
LEMMA EndProbePreserves ==
  ASSUME NEW c \in Controllers, LifeInv, EndProbe(c)
  PROVE  LifeInv'
<1>c. TypeOK /\ ctl[c].op \in Ops /\ ctl[c].saw \in Daemons \cup {NoOne}
  BY DEF LifeInv, TypeOK, Visits
<1>g. /\ ctl[c].at \notin {"attaching", "attached"}
      /\ UNCHANGED attached /\ UNCHANGED timer /\ UNCHANGED socket
      /\ \A d \in Daemons : pc'[d] = pc[d] \/ (pc[d] = "serving" /\ pc'[d] = "stopping")
      /\ pc' \in [Daemons -> {"unborn", "starting"} \cup Working \cup Released]
  <2>1. ctl[c].at \notin {"attaching", "attached"}
    BY DEF EndProbe
  <2>2. UNCHANGED attached /\ UNCHANGED timer /\ UNCHANGED socket
    BY DEF EndProbe, files, leases
  <2>3. UNCHANGED pc
    BY DEF EndProbe
  <2> QED BY <1>c, <2>1, <2>2, <2>3 DEF TypeOK
<1>1. CASE ctl[c].op = "uninstall"
  <2>m. Visit(c, ctl[c].op, "locking", ctl[c].saw)
    BY <1>1 DEF EndProbe, Move
  <2>p. "locking" \in Places
    BY DEF Places, HoldsWriter, HoldsBootstrap
  <2>e. /\ ctl' \in [Controllers -> Visits]
        /\ ctl'[c] = [op |-> ctl[c].op, at |-> "locking", saw |-> ctl[c].saw]
        /\ \A b \in Controllers : b # c => ctl'[b] = ctl[b]
    BY <1>c, <2>m, <2>p, VisitFacts
  <2>1. TypeOK'
    BY <1>g, <1>1, <2>e, LifecycleAssumption DEF LifeInv, TypeOK, EndProbe, Places, Visits,
       Working, Released, Reasons, Ops, HoldsWriter, HoldsBootstrap, AtRest, files, leases
  <2>2. WorkIsOwned'
    BY <1>g, <1>1, <2>e, LifecycleAssumption DEF LifeInv, TypeOK, WorkIsOwned, EndProbe,
       Places, Visits, Working, Released, Reasons, Ops, HoldsWriter, HoldsBootstrap, AtRest,
       files, leases
  <2>3. ServerIsTheWriter'
    BY <1>g, <1>1, <2>e, LifecycleAssumption DEF LifeInv, TypeOK, WorkIsOwned,
       ServerIsTheWriter, Listens, EndProbe, Places, Visits, Working, Released, Reasons, Ops,
       HoldsWriter, HoldsBootstrap, AtRest, files, leases
  <2>4. ConnectionsAreServed'
    BY <1>g, <2>e DEF LifeInv, ConnectionsAreServed
  <2>5. LeasesAreConnections'
    BY <1>g, <2>e, LeasesUntouched DEF LifeInv
  <2>6. AskedToStop'
    BY <1>g, <1>1, <2>e, LifecycleAssumption DEF LifeInv, TypeOK, WorkIsOwned, AskedToStop,
       EndProbe, Places, Visits, Working, Released, Reasons, Ops, HoldsWriter, HoldsBootstrap,
       AtRest, files, leases
  <2>7. TimersAreForIdlers'
    BY <1>g DEF LifeInv, TimersAreForIdlers
  <2> QED BY <2>1, <2>2, <2>3, <2>4, <2>5, <2>6, <2>7 DEF LifeInv
<1>2. CASE ctl[c].op # "uninstall"
  <2>m. Return(c)
    BY <1>2 DEF EndProbe
  <2>e. /\ ctl' \in [Controllers -> Visits]
        /\ ctl'[c] = AtRest
        /\ \A b \in Controllers : b # c => ctl'[b] = ctl[b]
    BY <1>c, <2>m, ReturnFacts
  <2>1. TypeOK'
    BY <1>g, <1>2, <2>e, LifecycleAssumption DEF LifeInv, TypeOK, EndProbe, Places, Visits,
       Working, Released, Reasons, Ops, HoldsWriter, HoldsBootstrap, AtRest, files, leases
  <2>2. WorkIsOwned'
    BY <1>g, <1>2, <2>e, LifecycleAssumption DEF LifeInv, TypeOK, WorkIsOwned, EndProbe,
       Places, Visits, Working, Released, Reasons, Ops, HoldsWriter, HoldsBootstrap, AtRest,
       files, leases
  <2>3. ServerIsTheWriter'
    BY <1>g, <1>2, <2>e, LifecycleAssumption DEF LifeInv, TypeOK, WorkIsOwned,
       ServerIsTheWriter, Listens, EndProbe, Places, Visits, Working, Released, Reasons, Ops,
       HoldsWriter, HoldsBootstrap, AtRest, files, leases
  <2>4. ConnectionsAreServed'
    BY <1>g, <2>e DEF LifeInv, ConnectionsAreServed, AtRest
  <2>5. LeasesAreConnections'
    BY <1>g, <2>e, LeasesUntouched DEF LifeInv
  <2>6. AskedToStop'
    BY <1>c, <1>g, <2>e, OthersKnowTheSame DEF LifeInv, HoldsWriter, AtRest
  <2>7. TimersAreForIdlers'
    BY <1>g DEF LifeInv, TimersAreForIdlers
  <2> QED BY <2>1, <2>2, <2>3, <2>4, <2>5, <2>6, <2>7 DEF LifeInv
<1> QED BY <1>1, <1>2

\* LockForRemoval preserves the invariant.
LEMMA LockForRemovalPreserves ==
  ASSUME NEW c \in Controllers, LifeInv, LockForRemoval(c)
  PROVE  LifeInv'
<1>c. TypeOK /\ ctl[c].op \in Ops /\ ctl[c].saw \in Daemons \cup {NoOne}
  BY DEF LifeInv, TypeOK, Visits
<1>g. /\ ctl[c].at \notin {"attaching", "attached"}
      /\ UNCHANGED attached /\ UNCHANGED timer /\ UNCHANGED socket
      /\ \A d \in Daemons : pc'[d] = pc[d] \/ (pc[d] = "serving" /\ pc'[d] = "stopping")
      /\ pc' \in [Daemons -> {"unborn", "starting"} \cup Working \cup Released]
  <2>1. ctl[c].at \notin {"attaching", "attached"}
    BY DEF LockForRemoval
  <2>2. UNCHANGED attached /\ UNCHANGED timer /\ UNCHANGED socket
    BY DEF LockForRemoval, files, leases
  <2>3. UNCHANGED pc
    BY DEF LockForRemoval
  <2> QED BY <1>c, <2>1, <2>2, <2>3 DEF TypeOK
<1>1. CASE writer = NoOne
  <2>m. Visit(c, ctl[c].op, "removing", ctl[c].saw)
    BY <1>1 DEF LockForRemoval, Move
  <2>p. "removing" \in Places
    BY DEF Places, HoldsWriter, HoldsBootstrap
  <2>e. /\ ctl' \in [Controllers -> Visits]
        /\ ctl'[c] = [op |-> ctl[c].op, at |-> "removing", saw |-> ctl[c].saw]
        /\ \A b \in Controllers : b # c => ctl'[b] = ctl[b]
    BY <1>c, <2>m, <2>p, VisitFacts
  <2>1. TypeOK'
    BY <1>g, <1>1, <2>e, LifecycleAssumption DEF LifeInv, TypeOK, LockForRemoval,
       FreeBootstrap, Places, Visits, Working, Released, Reasons, Ops, HoldsWriter,
       HoldsBootstrap, AtRest, files, leases
  <2>2. WorkIsOwned'
    BY <1>g, <1>1, <2>e, LifecycleAssumption DEF LifeInv, TypeOK, WorkIsOwned, LockForRemoval,
       FreeBootstrap, Places, Visits, Working, Released, Reasons, Ops, HoldsWriter,
       HoldsBootstrap, AtRest, files, leases
  <2>3. ServerIsTheWriter'
    BY <1>g, <1>1, <2>e, LifecycleAssumption DEF LifeInv, TypeOK, WorkIsOwned,
       ServerIsTheWriter, Listens, LockForRemoval, FreeBootstrap, Places, Visits, Working,
       Released, Reasons, Ops, HoldsWriter, HoldsBootstrap, AtRest, files, leases
  <2>4. ConnectionsAreServed'
    BY <1>g, <2>e DEF LifeInv, ConnectionsAreServed
  <2>5. LeasesAreConnections'
    BY <1>g, <2>e, LeasesUntouched DEF LifeInv
  <2>6. AskedToStop'
    BY <1>g, <1>1, <2>e, LifecycleAssumption DEF LifeInv, TypeOK, WorkIsOwned, AskedToStop,
       LockForRemoval, FreeBootstrap, Places, Visits, Working, Released, Reasons, Ops,
       HoldsWriter, HoldsBootstrap, AtRest, files, leases
  <2>7. TimersAreForIdlers'
    BY <1>g DEF LifeInv, TimersAreForIdlers
  <2> QED BY <2>1, <2>2, <2>3, <2>4, <2>5, <2>6, <2>7 DEF LifeInv
<1>2. CASE writer # NoOne
  <2>m. Return(c)
    BY <1>2 DEF LockForRemoval
  <2>e. /\ ctl' \in [Controllers -> Visits]
        /\ ctl'[c] = AtRest
        /\ \A b \in Controllers : b # c => ctl'[b] = ctl[b]
    BY <1>c, <2>m, ReturnFacts
  <2>1. TypeOK'
    BY <1>g, <1>2, <2>e, LifecycleAssumption DEF LifeInv, TypeOK, LockForRemoval,
       FreeBootstrap, Places, Visits, Working, Released, Reasons, Ops, HoldsWriter,
       HoldsBootstrap, AtRest, files, leases
  <2>2. WorkIsOwned'
    BY <1>g, <1>2, <2>e, LifecycleAssumption DEF LifeInv, TypeOK, WorkIsOwned, LockForRemoval,
       FreeBootstrap, Places, Visits, Working, Released, Reasons, Ops, HoldsWriter,
       HoldsBootstrap, AtRest, files, leases
  <2>3. ServerIsTheWriter'
    BY <1>g, <1>2, <2>e, LifecycleAssumption DEF LifeInv, TypeOK, WorkIsOwned,
       ServerIsTheWriter, Listens, LockForRemoval, FreeBootstrap, Places, Visits, Working,
       Released, Reasons, Ops, HoldsWriter, HoldsBootstrap, AtRest, files, leases
  <2>4. ConnectionsAreServed'
    BY <1>g, <2>e DEF LifeInv, ConnectionsAreServed, AtRest
  <2>5. LeasesAreConnections'
    BY <1>g, <2>e, LeasesUntouched DEF LifeInv
  <2>6. AskedToStop'
    BY <1>c, <1>g, <2>e, OthersKnowTheSame DEF LifeInv, HoldsWriter, AtRest
  <2>7. TimersAreForIdlers'
    BY <1>g DEF LifeInv, TimersAreForIdlers
  <2> QED BY <2>1, <2>2, <2>3, <2>4, <2>5, <2>6, <2>7 DEF LifeInv
<1> QED BY <1>1, <1>2

\* RemovePackage preserves the invariant.
LEMMA RemovePackagePreserves ==
  ASSUME NEW c \in Controllers, LifeInv, RemovePackage(c)
  PROVE  LifeInv'
<1>c. TypeOK /\ ctl[c].op \in Ops /\ ctl[c].saw \in Daemons \cup {NoOne}
  BY DEF LifeInv, TypeOK, Visits
<1>g. /\ ctl[c].at \notin {"attaching", "attached"}
      /\ UNCHANGED attached /\ UNCHANGED timer /\ UNCHANGED socket
      /\ \A d \in Daemons : pc'[d] = pc[d] \/ (pc[d] = "serving" /\ pc'[d] = "stopping")
      /\ pc' \in [Daemons -> {"unborn", "starting"} \cup Working \cup Released]
  <2>1. ctl[c].at \notin {"attaching", "attached"}
    BY DEF RemovePackage
  <2>2. UNCHANGED attached /\ UNCHANGED timer /\ UNCHANGED socket
    BY DEF RemovePackage, leases
  <2>3. UNCHANGED pc
    BY DEF RemovePackage
  <2> QED BY <1>c, <2>1, <2>2, <2>3 DEF TypeOK
<1>1. CASE Move(c, "purging") /\ UNCHANGED <<locks, faults>> /\ installed' = FALSE
  <2>m. Visit(c, ctl[c].op, "purging", ctl[c].saw)
    BY <1>1 DEF RemovePackage, Move
  <2>p. "purging" \in Places
    BY DEF Places, HoldsWriter, HoldsBootstrap
  <2>e. /\ ctl' \in [Controllers -> Visits]
        /\ ctl'[c] = [op |-> ctl[c].op, at |-> "purging", saw |-> ctl[c].saw]
        /\ \A b \in Controllers : b # c => ctl'[b] = ctl[b]
    BY <1>c, <2>m, <2>p, VisitFacts
  <2>u. /\ UNCHANGED writer /\ UNCHANGED bootstrap /\ UNCHANGED faults
        /\ UNCHANGED identity /\ UNCHANGED active /\ UNCHANGED why
        /\ UNCHANGED ever /\ UNCHANGED unready /\ installed' = FALSE
    BY <1>1 DEF RemovePackage, locks, leases
  <2>1. TypeOK'
    BY <1>c, <1>g, <2>u, <2>e DEF TypeOK
  <2>2. WorkIsOwned'
    BY <1>g, <1>1, <2>e, LifecycleAssumption DEF LifeInv, TypeOK, WorkIsOwned, RemovePackage,
       Fault, FreeBootstrap, Places, Visits, Working, Released, Reasons, Ops, HoldsWriter,
       HoldsBootstrap, AtRest, locks, leases
  <2>3. ServerIsTheWriter'
    BY <1>g, <1>1, <2>e, LifecycleAssumption DEF LifeInv, TypeOK, WorkIsOwned,
       ServerIsTheWriter, Listens, RemovePackage, Fault, FreeBootstrap, Places, Visits,
       Working, Released, Reasons, Ops, HoldsWriter, HoldsBootstrap, AtRest, locks, leases
  <2>4. ConnectionsAreServed'
    BY <1>g, <2>e DEF LifeInv, ConnectionsAreServed
  <2>5. LeasesAreConnections'
    BY <1>g, <2>e, LeasesUntouched DEF LifeInv
  <2>6. AskedToStop'
    BY <1>g, <1>1, <2>e, LifecycleAssumption DEF LifeInv, TypeOK, WorkIsOwned, AskedToStop,
       RemovePackage, Fault, FreeBootstrap, Places, Visits, Working, Released, Reasons, Ops,
       HoldsWriter, HoldsBootstrap, AtRest, locks, leases
  <2>7. TimersAreForIdlers'
    BY <1>g DEF LifeInv, TimersAreForIdlers
  <2> QED BY <2>1, <2>2, <2>3, <2>4, <2>5, <2>6, <2>7 DEF LifeInv
<1>2. CASE Fault /\ writer' = NoOne /\ FreeBootstrap(c) /\ Return(c) /\ UNCHANGED installed
  <2>m. Return(c)
    BY <1>2 DEF RemovePackage
  <2>e. /\ ctl' \in [Controllers -> Visits]
        /\ ctl'[c] = AtRest
        /\ \A b \in Controllers : b # c => ctl'[b] = ctl[b]
    BY <1>c, <2>m, ReturnFacts
  <2>1. TypeOK'
    BY <1>g, <1>2, <2>e, LifecycleAssumption DEF LifeInv, TypeOK, RemovePackage, Fault,
       FreeBootstrap, Places, Visits, Working, Released, Reasons, Ops, HoldsWriter,
       HoldsBootstrap, AtRest, locks, leases
  <2>2. WorkIsOwned'
    BY <1>g, <1>2, <2>e, LifecycleAssumption DEF LifeInv, TypeOK, WorkIsOwned, RemovePackage,
       Fault, FreeBootstrap, Places, Visits, Working, Released, Reasons, Ops, HoldsWriter,
       HoldsBootstrap, AtRest, locks, leases
  <2>3. ServerIsTheWriter'
    BY <1>g, <1>2, <2>e, LifecycleAssumption DEF LifeInv, TypeOK, WorkIsOwned,
       ServerIsTheWriter, Listens, RemovePackage, Fault, FreeBootstrap, Places, Visits,
       Working, Released, Reasons, Ops, HoldsWriter, HoldsBootstrap, AtRest, locks, leases
  <2>4. ConnectionsAreServed'
    BY <1>g, <2>e DEF LifeInv, ConnectionsAreServed, AtRest
  <2>5. LeasesAreConnections'
    BY <1>g, <2>e, LeasesUntouched DEF LifeInv
  <2>6. AskedToStop'
    BY <1>c, <1>g, <2>e, OthersKnowTheSame DEF LifeInv, HoldsWriter, AtRest
  <2>7. TimersAreForIdlers'
    BY <1>g DEF LifeInv, TimersAreForIdlers
  <2> QED BY <2>1, <2>2, <2>3, <2>4, <2>5, <2>6, <2>7 DEF LifeInv
<1> QED BY <1>1, <1>2 DEF RemovePackage

\* Purge preserves the invariant.
LEMMA PurgePreserves ==
  ASSUME NEW c \in Controllers, LifeInv, Purge(c)
  PROVE  LifeInv'
<1>1. TypeOK'
  BY LifecycleAssumption DEF LifeInv, TypeOK, Purge, FreeBootstrap, Return, AtRest, Places,
     Visits, Working, Released, Reasons, Ops, HoldsWriter, HoldsBootstrap, leases
<1>2. WorkIsOwned'
  BY LifecycleAssumption DEF LifeInv, TypeOK, WorkIsOwned, Purge, FreeBootstrap, Return,
     AtRest, Places, Visits, Working, Released, Reasons, Ops, HoldsWriter, HoldsBootstrap,
     leases
<1>3. ServerIsTheWriter'
  BY LifecycleAssumption DEF LifeInv, TypeOK, WorkIsOwned, ServerIsTheWriter, Listens, Purge,
     FreeBootstrap, Return, AtRest, Places, Visits, Working, Released, Reasons, Ops,
     HoldsWriter, HoldsBootstrap, leases
<1>4. ConnectionsAreServed'
  BY LifecycleAssumption DEF LifeInv, TypeOK, ConnectionsAreServed, Purge, FreeBootstrap,
     Return, AtRest, Places, Visits, Working, Released, Reasons, Ops, HoldsWriter,
     HoldsBootstrap, leases
<1>5. LeasesAreConnections'
  BY LifecycleAssumption DEF LifeInv, TypeOK, ConnectionsAreServed, LeasesAreConnections,
     Connected, Purge, FreeBootstrap, Return, AtRest, Places, Visits, Working, Released,
     Reasons, Ops, HoldsWriter, HoldsBootstrap, leases
<1>6. AskedToStop'
  BY LifecycleAssumption DEF LifeInv, TypeOK, AskedToStop, Purge, FreeBootstrap, Return,
     AtRest, Places, Visits, Working, Released, Reasons, Ops, HoldsWriter, HoldsBootstrap,
     leases
<1>7. TimersAreForIdlers'
  BY LifecycleAssumption DEF LifeInv, TypeOK, TimersAreForIdlers, Purge, FreeBootstrap, Return,
     AtRest, Places, Visits, Working, Released, Reasons, Ops, HoldsWriter, HoldsBootstrap,
     leases
<1> QED BY <1>1, <1>2, <1>3, <1>4, <1>5, <1>6, <1>7 DEF LifeInv

\* ControllerDies preserves the invariant.
LEMMA ControllerDiesPreserves ==
  ASSUME NEW c \in Controllers, LifeInv, ControllerDies(c)
  PROVE  LifeInv'
BY LifecycleAssumption, SMTT(30) DEF LifeInv, TypeOK, WorkIsOwned, ServerIsTheWriter,
   ConnectionsAreServed, LeasesAreConnections, AskedToStop, TimersAreForIdlers, Connected,
   Listens, ControllerDies, Fault, FreeBootstrap, Return, AtRest, Places, Visits, Working,
   Released, Reasons, Ops, HoldsWriter, HoldsBootstrap, files, leases

(***************************************************************************)
(* The theorems.                                                           *)
(***************************************************************************)
\* The inductive invariant holds in every reachable state.
THEOREM LifeInvariant == Spec => []LifeInv
<1>1. Init => LifeInv
  BY LifecycleAssumption DEF Init, LifeInv, TypeOK, WorkIsOwned, ServerIsTheWriter,
     ConnectionsAreServed, LeasesAreConnections, AskedToStop, TimersAreForIdlers, Connected,
     Listens, NoTimer, AtRest, Places, Visits, Working, Released, Reasons, Ops, HoldsWriter,
     HoldsBootstrap
<1>2. LifeInv /\ [Next]_vars => LifeInv'
  <2> SUFFICES ASSUME LifeInv, [Next]_vars PROVE LifeInv'
    OBVIOUS
  <2>1. ASSUME NEW d \in Daemons, Daemon(d) PROVE LifeInv'
    BY <2>1, ServePreserves, AcquireLockPreserves, BindPreserves, PublishPreserves,
       FailStartPreserves, SignalPreserves, LoseWorkerPreserves, RecoverWorkerPreserves,
       TimerReadsPreserves, TimerDecidesPreserves, CloseServerPreserves, ReleaseLockPreserves,
       ReadIdentityPreserves, UnlinkIdentityPreserves, CrashPreserves, AcceptJobPreserves,
       FinishJobsPreserves DEF Daemon, Timer, Teardown
  <2>2. ASSUME NEW c \in Controllers, Controller(c) PROVE LifeInv'
    BY <2>2, EnsureStartedPreserves, TakeBootstrapPreserves, SpawnPreserves,
       SpawnFailsPreserves, AwaitReadyPreserves, StartedPreserves, ContenderExitedPreserves,
       DeadlinePreserves, ConnectPreserves, ClientCountedPreserves, StopPreserves,
       DetachPreserves, AskGenerationPreserves, SendShutdownPreserves, ProbePreserves,
       EndProbePreserves, LockForRemovalPreserves, RemovePackagePreserves, PurgePreserves,
       ControllerDiesPreserves DEF Controller
  <2>3. CASE UNCHANGED vars
    BY <2>3 DEF LifeInv, TypeOK, WorkIsOwned, ServerIsTheWriter, ConnectionsAreServed,
       LeasesAreConnections, AskedToStop, TimersAreForIdlers, Connected, Listens, vars, locks,
       files, leases
  <2> QED BY <2>1, <2>2, <2>3 DEF Next
<1> QED BY <1>1, <1>2, PTL DEF Spec

\* SCSDaemon.start and stop, uninstall: whoever works on the stores or removes them
\* holds
\* home/.daemon.lock, whatever dies or times out.
THEOREM WorkersOwnTheLock == Spec => []WorkIsOwned
<1>1. LifeInv => WorkIsOwned
  BY DEF LifeInv
<1> QED BY <1>1, LifeInvariant, PTL

\* WireServer.start: the socket clients find is that of the daemon that owns the stores.
THEOREM TheServerWrites == Spec => []ServerIsTheWriter
<1>1. LifeInv => ServerIsTheWriter
  BY DEF LifeInv
<1> QED BY <1>1, LifeInvariant, PTL

\* DaemonController.stop: a controller past its probe of the writer lock knows that the
\* generation it stopped has closed its stores, since both hold the same lock.
THEOREM StoppedForGood == Spec => []StopMeansStopped
<1>1. ASSUME LifeInv, NEW c \in Controllers, ctl[c].at \in HoldsWriter,
      ctl[c].saw # NoOne
      PROVE  pc[ctl[c].saw] \in Released
  <2>1. writer = c /\ ctl[c].saw \in Daemons
    BY <1>1 DEF LifeInv, WorkIsOwned, TypeOK, Visits
  <2>2. pc[ctl[c].saw] \in {"stopping", "closing"} \cup Released
    BY <1>1 DEF LifeInv, AskedToStop
  <2>3. pc[ctl[c].saw] \notin Working
    BY <1>1, <2>1, LifecycleAssumption DEF LifeInv, WorkIsOwned
  <2> QED BY <2>2, <2>3 DEF Working
<1>2. LifeInv => StopMeansStopped
  BY <1>1 DEF StopMeansStopped
<1> QED BY <1>2, LifeInvariant, PTL

(***************************************************************************)
(* The reasons to stop.                                                    *)
(***************************************************************************)
\* No other step writes why.
LEMMA ReasonsAreWritten ==
  ASSUME NEW d \in Daemons, TypeOK, [Next]_vars
  PROVE  \/ why'[d] = why[d]
         \/ why'[d] \in {"none", "asked", "failed"}
         \/ TimerDecides(d)
         \/ \E b \in Controllers : SendShutdown(b)
<1>1. ASSUME NEW e \in Daemons, Daemon(e)
      PROVE  why'[d] = why[d] \/ why'[d] \in {"none", "asked", "failed"} \/ TimerDecides(d)
  <2>1. CASE Signal(e) \/ RecoverWorker(e) \/ FailStart(e)
    BY <2>1 DEF Signal, RecoverWorker, FailStart, RequestShutdown, TypeOK
  <2>2. CASE CloseServer(e) \/ Crash(e)
    BY <2>2 DEF CloseServer, Crash, HangUp, TypeOK
  <2>3. CASE TimerDecides(e)
    BY <2>3 DEF TimerDecides, RequestShutdown, TypeOK
  <2>4. CASE Serve(e) \/ AcquireLock(e) \/ Bind(e) \/ Publish(e) \/ LoseWorker(e) \/ TimerReads(e)
             \/ ReleaseLock(e) \/ ReadIdentity(e) \/ UnlinkIdentity(e) \/ AcceptJob(e) \/ FinishJobs(e)
    BY <2>4 DEF Serve, AcquireLock, Bind, Publish, LoseWorker, TimerReads, ReleaseLock,
       ReadIdentity, UnlinkIdentity, AcceptJob, FinishJobs
  <2> QED BY <1>1, <2>1, <2>2, <2>3, <2>4 DEF Daemon, Timer, Teardown
<1>2. ASSUME NEW b \in Controllers, Controller(b)
      PROVE  UNCHANGED why \/ SendShutdown(b)
  BY <1>2 DEF Controller, EnsureStarted, TakeBootstrap, Spawn, SpawnFails, AwaitReady, Started,
     ContenderExited, Deadline, Connect, ClientCounted, Detach, Stop, AskGeneration, Probe,
     EndProbe, LockForRemoval, RemovePackage, Purge, ControllerDies
<1>3. CASE UNCHANGED vars
  BY <1>3 DEF vars
<1> QED BY <1>1, <1>2, <1>3 DEF Next

\* system.shutdown compares generations (main.py): the daemon that stops is the one the
\* controller had seen.
THEOREM ShutdownIsAddressed == Spec => ShutdownHitsItsGeneration
<1>1. ASSUME LifeInv, [Next]_vars, NEW d \in Daemons, NEW c \in Controllers,
             why'[d] = c, why[d] # c
      PROVE  ctl[c].saw = d
  <2>1. c \notin {"none", "idle", "asked", "failed"}
    BY LifecycleAssumption
  <2>2. ~TimerDecides(d)
    BY <1>1, <2>1 DEF TimerDecides, RequestShutdown, LifeInv, TypeOK
  <2>3. PICK b \in Controllers : SendShutdown(b)
    BY <1>1, <2>1, <2>2, ReasonsAreWritten DEF LifeInv
  <2>4. Health = ctl[b].saw /\ why' = [why EXCEPT ![Health] = b]
    BY <1>1, <2>3 DEF SendShutdown, RequestShutdown
  <2> QED BY <1>1, <2>4 DEF LifeInv, TypeOK
<1>2. LifeInv /\ [Next]_vars =>
        [\A d \in Daemons, c \in Controllers :
           why'[d] = c /\ why[d] # c => ctl[c].saw = d]_vars
  BY <1>1
<1> QED BY <1>2, LifeInvariant, PTL DEF Spec, ShutdownHitsItsGeneration

\* _shutdown_after: a timer that decides to stop runs only while no lease is counted, since
\* counting one cancels it.
THEOREM LeasesKeepTheDaemon == Spec => IdleStopSparesClients
<1>1. ASSUME LifeInv, [Next]_vars, NEW d \in Daemons, why'[d] = "idle", why[d] # "idle"
      PROVE  attached[d] = {}
  <2>1. CASE TimerDecides(d)
    BY <1>1, <2>1 DEF TimerDecides, LifeInv, TimersAreForIdlers
  <2>2. CASE \E b \in Controllers : SendShutdown(b)
    <3>1. PICK b \in Controllers : SendShutdown(b)
      BY <2>2
    <3>2. b # "idle"
      BY LifecycleAssumption
    <3>3. UNCHANGED why \/ why' = [why EXCEPT ![Health] = b]
      BY Zenon, <3>1 DEF SendShutdown, RequestShutdown
    <3> QED BY <1>1, <3>2, <3>3 DEF LifeInv, TypeOK
  <2> QED BY <1>1, <2>1, <2>2, ReasonsAreWritten DEF LifeInv
<1>2. LifeInv /\ [Next]_vars =>
        [\A d \in Daemons : why'[d] = "idle" /\ why[d] # "idle" => attached[d] = {}]_vars
  BY <1>1
<1> QED BY <1>2, LifeInvariant, PTL DEF Spec, IdleStopSparesClients
=============================================================================
