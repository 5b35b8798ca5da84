------------------------------ MODULE GraphGate ------------------------------
(***************************************************************************)
(* GraphMutationGate, src/src/scs/graph/gating.py: the admission control   *)
(* in front of every native graph read and structural mutation.            *)
(*                                                                         *)
(* A block under `with self._condition` is one atomic action, except that  *)
(* wait() gives the lock back: a thread that waits is asleep until a       *)
(* notify_all makes it runnable again, and then tests its condition anew.  *)
(* A read that is not admitted raises GraphBusyError and changes nothing.  *)
(***************************************************************************)
EXTENDS Integers, FiniteSets

CONSTANT Threads  \* worker threads that call the graph

ASSUME ThreadsAssumption == IsFiniteSet(Threads)

VARIABLES
  pc,        \* where each thread is: see Places
  readers,   \* self._readers
  reserved,  \* self._mutation_reserved
  active     \* self._mutation_active

vars == <<pc, readers, reserved, active>>

\* asleepTurn, asleepDrain: in the wait() of the first and the second loop of
\* mutation(); turn, drain: notified, about to test the condition again.
Places == {"idle", "reading", "asleepTurn", "turn", "asleepDrain", "drain",
           "mutating"}

At(places) == {t \in Threads : pc[t] \in places}

\* notify_all, with thread t going to place.
NotifyAll(t, place) ==
  [u \in Threads |-> IF u = t THEN place
                     ELSE IF pc[u] = "asleepTurn" THEN "turn"
                     ELSE IF pc[u] = "asleepDrain" THEN "drain"
                     ELSE pc[u]]

\* Variant: a read only looks at the running mutation.
AdmittedBesideReservation == ~active

Admitted == ~reserved /\ ~active

EnterRead(t) ==
  /\ pc[t] = "idle"
  /\ Admitted
  /\ readers' = readers + 1
  /\ pc' = [pc EXCEPT ![t] = "reading"]
  /\ UNCHANGED <<reserved, active>>

\* Variant: the last reader leaves without a notification.
ExitReadSilently(t) ==
  /\ pc[t] = "reading"
  /\ readers' = readers - 1
  /\ pc' = [pc EXCEPT ![t] = "idle"]
  /\ UNCHANGED <<reserved, active>>

ExitRead(t) ==
  /\ pc[t] = "reading"
  /\ readers' = readers - 1
  /\ pc' = IF readers = 1 THEN NotifyAll(t, "idle") ELSE [pc EXCEPT ![t] = "idle"]
  /\ UNCHANGED <<reserved, active>>

\* The first loop of mutation(): somebody else has the gate.
WaitForTurn(t) ==
  /\ pc[t] \in {"idle", "turn"}
  /\ ~Admitted
  /\ pc' = [pc EXCEPT ![t] = "asleepTurn"]
  /\ UNCHANGED <<readers, reserved, active>>

\* Its turn: it reserves the gate and waits for the reads already in flight.
Reserve(t) ==
  /\ pc[t] \in {"idle", "turn"}
  /\ Admitted
  /\ readers > 0
  /\ reserved' = TRUE
  /\ pc' = [pc EXCEPT ![t] = "asleepDrain"]
  /\ UNCHANGED <<readers, active>>

\* Its turn, and nobody reads.
EnterMutation(t) ==
  /\ pc[t] \in {"idle", "turn"}
  /\ Admitted
  /\ readers = 0
  /\ active' = TRUE
  /\ pc' = [pc EXCEPT ![t] = "mutating"]
  /\ UNCHANGED <<readers, reserved>>

\* The second loop of mutation(), after a notification.
Drain(t) ==
  /\ pc[t] = "drain"
  /\ pc' = [pc EXCEPT ![t] = IF readers = 0 THEN "mutating" ELSE "asleepDrain"]
  /\ active' = (readers = 0)
  /\ reserved' = (readers # 0)
  /\ UNCHANGED readers

ExitMutation(t) ==
  /\ pc[t] = "mutating"
  /\ active' = FALSE
  /\ pc' = NotifyAll(t, "idle")
  /\ UNCHANGED <<readers, reserved>>

-----------------------------------------------------------------------------
Init ==
  /\ pc = [t \in Threads |-> "idle"]
  /\ readers = 0
  /\ reserved = FALSE
  /\ active = FALSE

\* What a thread that is past its call of read() or mutation() does.
Continue(t) ==
  \/ ExitRead(t)
  \/ pc[t] = "turn" /\ (WaitForTurn(t) \/ Reserve(t) \/ EnterMutation(t))
  \/ Drain(t)
  \/ ExitMutation(t)

Call(t) ==
  \/ EnterRead(t)
  \/ pc[t] = "idle" /\ (WaitForTurn(t) \/ Reserve(t) \/ EnterMutation(t))

Next == \E t \in Threads : Call(t) \/ Continue(t)

\* A native call returns and a runnable thread gets the condition's lock.
Fairness == \A t \in Threads : WF_vars(Continue(t))

Spec == Init /\ [][Next]_vars

FairSpec == Spec /\ Fairness
-----------------------------------------------------------------------------
\* Every variable has its type.
TypeOK ==
  /\ pc \in [Threads -> Places]
  /\ readers \in Nat
  /\ reserved \in BOOLEAN
  /\ active \in BOOLEAN

\* The counter and the two flags say who is inside, however the threads
\* interleave: a reader that leaves never frees the gate of another, and no
\* flag survives the thread that set it.
FlagsTellWhoIsInside ==
  /\ readers = Cardinality(At({"reading"}))
  /\ reserved <=> At({"asleepDrain", "drain"}) # {}
  /\ active <=> At({"mutating"}) # {}
  /\ \A t, u \in At({"asleepDrain", "drain", "mutating"}) : t = u

\* A read and a mutation, or two mutations, never overlap in the native graph.
MutationIsExclusive ==
  \A t, u \in Threads :
    pc[t] = "mutating" /\ pc[u] \in {"reading", "mutating"} => t = u

\* Nobody sleeps without somebody left to wake it: the reservation is drained by
\* a reader inside, a thread waits its turn while another has the gate.
NoLostWakeup ==
  /\ At({"asleepDrain"}) # {} => readers > 0
  /\ At({"asleepTurn"}) # {} => ~Admitted

\* The inductive invariant behind these: a running mutation has drained the reads.
GateInv ==
  /\ TypeOK
  /\ FlagsTellWhoIsInside
  /\ NoLostWakeup
  /\ active => readers = 0

\* gating.py:23: deletes are reserved before the reads in flight are drained and
\* later reads are rejected, so reads that keep coming cannot starve a delete
\* that has its reservation.
ReservationIsServed ==
  \A t \in Threads : pc[t] = "asleepDrain" ~> pc[t] = "mutating"

\* The gate implements the exclusion the graph is promised.
Exclusion == INSTANCE ReadWriteExclusion WITH
  reading <- At({"reading"}), mutating <- At({"mutating"})

\* The gate's steps are steps of that exclusion.
ImplementsExclusion == Exclusion!Spec
=============================================================================
