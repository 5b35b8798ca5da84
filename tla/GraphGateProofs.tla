--------------------------- MODULE GraphGateProofs ---------------------------
(***************************************************************************)
(* Proofs about the graph's admission gate for any finite set of threads.  *)
(***************************************************************************)
EXTENDS GraphGate, FiniteSetTheorems, TLAPS

\* What every thread but the one that moves keeps: notifications only turn
\* sleepers into runnable threads of the same loop.
OthersKeep(t) ==
  \A u \in Threads : u # t =>
    /\ pc'[u] \in Places
    /\ pc'[u] = "reading" <=> pc[u] = "reading"
    /\ pc'[u] \in {"asleepDrain", "drain"} <=> pc[u] \in {"asleepDrain", "drain"}
    /\ pc'[u] = "mutating" <=> pc[u] = "mutating"
    /\ pc'[u] = "asleepDrain" => pc[u] = "asleepDrain"
    /\ pc'[u] = "asleepTurn" => pc[u] = "asleepTurn"

\* notify_all wakes every sleeper and moves nobody else.
LEMMA NotifyAllFacts ==
  ASSUME TypeOK, NEW t \in Threads, NEW place \in Places \ {"asleepTurn", "asleepDrain"},
         pc' = NotifyAll(t, place)
  PROVE  /\ pc' \in [Threads -> Places]
         /\ OthersKeep(t)
         /\ pc'[t] = place
         /\ At({"asleepTurn", "asleepDrain"})' = {}
<1>1. \A u \in Threads :
        pc'[u] = IF u = t THEN place
                 ELSE IF pc[u] = "asleepTurn" THEN "turn"
                 ELSE IF pc[u] = "asleepDrain" THEN "drain"
                 ELSE pc[u]
  BY DEF NotifyAll
<1>2. pc' \in [Threads -> Places]
  BY DEF NotifyAll, TypeOK, Places
<1>3. OthersKeep(t)
  BY <1>1 DEF OthersKeep, TypeOK, Places
<1>4. At({"asleepTurn", "asleepDrain"})' = {}
  BY <1>1 DEF At, Places
<1> QED BY <1>1, <1>2, <1>3, <1>4

\* One thread moves alone.
LEMMA MoveFacts ==
  ASSUME TypeOK, NEW t \in Threads, NEW place \in Places,
         pc' = [pc EXCEPT ![t] = place]
  PROVE  /\ pc' \in [Threads -> Places]
         /\ OthersKeep(t)
         /\ pc'[t] = place
  BY DEF TypeOK, OthersKeep

\* The readers are counted by a natural number that is 0 only if there is none.
LEMMA ReadingCount ==
  /\ IsFiniteSet(At({"reading"}))
  /\ Cardinality(At({"reading"})) \in Nat
  /\ Cardinality(At({"reading"})) = 0 <=> At({"reading"}) = {}
<1>1. At({"reading"}) \in SUBSET Threads
  BY DEF At
<1>2. IsFiniteSet(At({"reading"}))
  BY <1>1, ThreadsAssumption, FS_Subset
<1> QED BY <1>2, FS_CardinalityType, FS_EmptySet

\* The invariant is kept by each action.
LEMMA GateStep == GateInv /\ [Next]_vars => GateInv'
<1> SUFFICES ASSUME GateInv, [Next]_vars PROVE GateInv'
  OBVIOUS
<1>t. TypeOK /\ FlagsTellWhoIsInside /\ NoLostWakeup /\ (active => readers = 0)
  BY DEF GateInv
<1>c. readers = Cardinality(At({"reading"})) /\ readers \in Nat
  BY <1>t DEF FlagsTellWhoIsInside, TypeOK
<1>1. ASSUME NEW t \in Threads, EnterRead(t) PROVE GateInv'
  <2>1. /\ pc' \in [Threads -> Places] /\ OthersKeep(t) /\ pc'[t] = "reading"
        /\ pc[t] = "idle" /\ readers' = readers + 1 /\ ~reserved /\ ~active
        /\ UNCHANGED <<reserved, active>>
    BY <1>1, <1>t, MoveFacts DEF EnterRead, Places, Admitted
  <2>2. At({"reading"})' = At({"reading"}) \cup {t} /\ t \notin At({"reading"})
    BY <2>1 DEF At, OthersKeep
  <2>3. readers' = Cardinality(At({"reading"}))'
    BY <1>c, <2>1, <2>2, ReadingCount, FS_AddElement
  <2>4. /\ At({"asleepDrain", "drain"})' = At({"asleepDrain", "drain"})
        /\ At({"mutating"})' = At({"mutating"})
        /\ At({"asleepDrain", "drain", "mutating"})' = At({"asleepDrain", "drain", "mutating"})
        /\ At({"asleepTurn"})' \subseteq At({"asleepTurn"})
        /\ At({"asleepDrain"})' \subseteq At({"asleepDrain"})
    BY <2>1 DEF At, OthersKeep
  <2> QED BY <1>t, <1>c, <2>1, <2>3, <2>4
          DEF GateInv, TypeOK, FlagsTellWhoIsInside, NoLostWakeup, Admitted
<1>2. ASSUME NEW t \in Threads, ExitRead(t) PROVE GateInv'
  <2>0. pc[t] = "reading" /\ readers' = readers - 1 /\ UNCHANGED <<reserved, active>>
    BY <1>2 DEF ExitRead
  <2>1. pc' \in [Threads -> Places] /\ OthersKeep(t) /\ pc'[t] = "idle"
    BY <1>2, <1>t, MoveFacts, NotifyAllFacts DEF ExitRead, Places
  <2>2. At({"reading"})' = At({"reading"}) \ {t} /\ t \in At({"reading"})
    BY <2>0, <2>1 DEF At, OthersKeep
  <2>3. readers' = Cardinality(At({"reading"}))' /\ readers > 0
    BY <1>c, <2>0, <2>2, ReadingCount, FS_RemoveElement
  <2>4. /\ At({"asleepDrain", "drain"})' = At({"asleepDrain", "drain"})
        /\ At({"mutating"})' = At({"mutating"})
        /\ At({"asleepDrain", "drain", "mutating"})' = At({"asleepDrain", "drain", "mutating"})
        /\ At({"asleepTurn"})' \subseteq At({"asleepTurn"})
        /\ At({"asleepDrain"})' \subseteq At({"asleepDrain"})
    BY <2>0, <2>1 DEF At, OthersKeep
  <2>5. readers = 1 => At({"asleepTurn", "asleepDrain"})' = {}
    BY <1>2, <1>t, NotifyAllFacts DEF ExitRead, Places
  <2>6. At({"asleepDrain"})' # {} => readers' > 0
    <3>1. At({"asleepDrain"})' \subseteq At({"asleepTurn", "asleepDrain"})'
      BY DEF At
    <3> QED BY <1>c, <2>0, <2>3, <2>5, <3>1
  <2> QED BY <1>t, <1>c, <2>0, <2>1, <2>3, <2>4, <2>6
          DEF GateInv, TypeOK, FlagsTellWhoIsInside, NoLostWakeup, Admitted
<1>3. ASSUME NEW t \in Threads, WaitForTurn(t) PROVE GateInv'
  <2>1. /\ pc' \in [Threads -> Places] /\ OthersKeep(t) /\ pc'[t] = "asleepTurn"
        /\ pc[t] \in {"idle", "turn"} /\ UNCHANGED <<readers, reserved, active>>
        /\ ~Admitted
    BY <1>3, <1>t, MoveFacts DEF WaitForTurn, Places
  <2>2. /\ At({"reading"})' = At({"reading"})
        /\ At({"asleepDrain", "drain"})' = At({"asleepDrain", "drain"})
        /\ At({"mutating"})' = At({"mutating"})
        /\ At({"asleepDrain", "drain", "mutating"})' = At({"asleepDrain", "drain", "mutating"})
        /\ At({"asleepDrain"})' \subseteq At({"asleepDrain"})
    BY <2>1 DEF At, OthersKeep
  <2> QED BY <1>t, <2>1, <2>2
          DEF GateInv, TypeOK, FlagsTellWhoIsInside, NoLostWakeup, Admitted
<1>4. ASSUME NEW t \in Threads, Reserve(t) PROVE GateInv'
  <2>1. /\ pc' \in [Threads -> Places] /\ OthersKeep(t) /\ pc'[t] = "asleepDrain"
        /\ pc[t] \in {"idle", "turn"} /\ UNCHANGED <<readers, active>>
        /\ ~reserved /\ ~active /\ reserved' /\ readers > 0
    BY <1>4, <1>t, MoveFacts DEF Reserve, Places, Admitted
  <2>2. At({"reading"})' = At({"reading"})
    BY <2>1 DEF At, OthersKeep
  <2>3. At({"asleepDrain", "drain"}) = {} /\ At({"mutating"}) = {}
    BY <1>t, <2>1 DEF FlagsTellWhoIsInside
  <2>4. /\ At({"asleepDrain", "drain"})' = {t}
        /\ At({"mutating"})' = {}
        /\ At({"asleepDrain", "drain", "mutating"})' = {t}
    BY <2>1, <2>3 DEF At, OthersKeep
  <2> QED BY <1>t, <1>c, <2>1, <2>2, <2>4
          DEF GateInv, TypeOK, FlagsTellWhoIsInside, NoLostWakeup, Admitted
<1>5. ASSUME NEW t \in Threads, EnterMutation(t) PROVE GateInv'
  <2>1. /\ pc' \in [Threads -> Places] /\ OthersKeep(t) /\ pc'[t] = "mutating"
        /\ pc[t] \in {"idle", "turn"} /\ UNCHANGED <<readers, reserved>>
        /\ ~reserved /\ ~active /\ active' = TRUE /\ readers = 0
    BY <1>5, <1>t, MoveFacts DEF EnterMutation, Places, Admitted
  <2>2. At({"reading"})' = At({"reading"})
    BY <2>1 DEF At, OthersKeep
  <2>3. At({"asleepDrain", "drain"}) = {} /\ At({"mutating"}) = {}
    BY <1>t, <2>1 DEF FlagsTellWhoIsInside
  <2>4. /\ At({"asleepDrain", "drain"})' = {}
        /\ At({"mutating"})' = {t}
        /\ At({"asleepDrain", "drain", "mutating"})' = {t}
        /\ At({"asleepDrain"})' = {}
    BY <2>1, <2>3 DEF At, OthersKeep
  <2> QED BY <1>t, <1>c, <2>1, <2>2, <2>4
          DEF GateInv, TypeOK, FlagsTellWhoIsInside, NoLostWakeup, Admitted
<1>6. ASSUME NEW t \in Threads, Drain(t) PROVE GateInv'
  <2>1. /\ pc' \in [Threads -> Places] /\ OthersKeep(t)
        /\ pc'[t] = IF readers = 0 THEN "mutating" ELSE "asleepDrain"
        /\ pc[t] = "drain" /\ UNCHANGED readers
        /\ active' = (readers = 0) /\ reserved' = (readers # 0)
    BY <1>6, <1>t, MoveFacts DEF Drain, Places
  <2>2. At({"reading"})' = At({"reading"})
    BY <2>1 DEF At, OthersKeep
  <2>3. At({"asleepDrain", "drain", "mutating"}) = {t}
    BY <1>t, <2>1 DEF FlagsTellWhoIsInside, At
  <2>4. /\ At({"asleepDrain", "drain", "mutating"})' = {t}
        /\ At({"asleepDrain", "drain"})' = IF readers = 0 THEN {} ELSE {t}
        /\ At({"mutating"})' = IF readers = 0 THEN {t} ELSE {}
        /\ readers = 0 => At({"asleepDrain"})' = {}
    BY <2>1, <2>3 DEF At, OthersKeep
  <2>5. TypeOK'
    BY <1>t, <2>1 DEF TypeOK
  <2>6. FlagsTellWhoIsInside'
    <3>1. reserved' <=> At({"asleepDrain", "drain"})' # {}
      BY <2>1, <2>4
    <3>2. active' <=> At({"mutating"})' # {}
      BY <2>1, <2>4
    <3> QED BY <1>c, <2>1, <2>2, <2>4, <3>1, <3>2 DEF FlagsTellWhoIsInside
  <2>7. NoLostWakeup'
    <3>1. ~Admitted'
      BY <2>1 DEF Admitted
    <3>2. At({"asleepDrain"})' # {} => readers' > 0
      BY <1>c, <2>1, <2>4
    <3> QED BY <3>1, <3>2 DEF NoLostWakeup
  <2> QED BY <2>1, <2>5, <2>6, <2>7 DEF GateInv
<1>7. ASSUME NEW t \in Threads, ExitMutation(t) PROVE GateInv'
  <2>1. /\ pc' \in [Threads -> Places] /\ OthersKeep(t) /\ pc'[t] = "idle"
        /\ pc[t] = "mutating" /\ UNCHANGED <<readers, reserved>> /\ active' = FALSE
        /\ At({"asleepTurn", "asleepDrain"})' = {}
    BY <1>7, <1>t, NotifyAllFacts DEF ExitMutation, Places
  <2>2. At({"reading"})' = At({"reading"})
    BY <2>1 DEF At, OthersKeep
  <2>3. At({"asleepDrain", "drain", "mutating"}) = {t}
    BY <1>t, <2>1 DEF FlagsTellWhoIsInside, At
  <2>4. /\ At({"asleepDrain", "drain", "mutating"})' = {}
        /\ At({"asleepDrain", "drain"})' = {}
        /\ At({"asleepDrain", "drain"}) = {}
        /\ At({"mutating"})' = {}
        /\ At({"asleepDrain"})' = {} /\ At({"asleepTurn"})' = {}
    BY <2>1, <2>3 DEF At, OthersKeep
  <2> QED BY <1>t, <1>c, <2>1, <2>2, <2>4
          DEF GateInv, TypeOK, FlagsTellWhoIsInside, NoLostWakeup, Admitted
<1>8. CASE UNCHANGED vars
  BY <1>t, <1>8
  DEF vars, GateInv, TypeOK, FlagsTellWhoIsInside, NoLostWakeup, Admitted, At
<1> QED BY <1>1, <1>2, <1>3, <1>4, <1>5, <1>6, <1>7, <1>8 DEF Next, Call, Continue

\* The invariant holds in every reachable state.
THEOREM GateCorrect == Spec => []GateInv
<1>1. Init => GateInv
  <2> SUFFICES ASSUME Init PROVE GateInv
    OBVIOUS
  <2>1. At({"reading"}) = {} /\ At({"asleepDrain", "drain"}) = {} /\ At({"mutating"}) = {}
        /\ At({"asleepDrain", "drain", "mutating"}) = {}
        /\ At({"asleepDrain"}) = {} /\ At({"asleepTurn"}) = {}
    BY DEF At, Init
  <2> QED BY <2>1, ReadingCount
          DEF Init, GateInv, TypeOK, Places, FlagsTellWhoIsInside, NoLostWakeup
<1> QED BY <1>1, GateStep, PTL DEF Spec

\* The invariant rules overlapping reads and mutations out.
LEMMA ExclusionFromFlags == GateInv => MutationIsExclusive
<1> SUFFICES ASSUME GateInv, NEW t \in Threads, NEW u \in Threads,
                    pc[t] = "mutating", pc[u] \in {"reading", "mutating"}
             PROVE  t = u
  BY DEF MutationIsExclusive
<1>1. active /\ readers = 0
  BY DEF GateInv, FlagsTellWhoIsInside, At
<1>2. At({"reading"}) = {}
  BY <1>1, ReadingCount DEF GateInv, FlagsTellWhoIsInside
<1>3. pc[u] = "mutating"
  BY <1>2 DEF At
<1> QED BY <1>3 DEF GateInv, FlagsTellWhoIsInside, At

\* No read overlaps a mutation, whatever the number of threads.
THEOREM GateIsExclusive == Spec => []MutationIsExclusive
  BY GateCorrect, ExclusionFromFlags, PTL

\* No waiter is left without someone who notifies it.
THEOREM WakeupsAreNotLost == Spec => []NoLostWakeup
<1>1. GateInv => NoLostWakeup
  BY DEF GateInv
<1> QED BY <1>1, GateCorrect, PTL

\* A step of the gate is a step of the exclusion it implements, or none.
LEMMA ExclusionStep == GateInv /\ [Next]_vars => [Exclusion!Next]_Exclusion!vars
<1> DEFINE R == At({"reading"})
           M == At({"mutating"})
<1> SUFFICES ASSUME GateInv, [Next]_vars
             PROVE  Exclusion!Next \/ (R' = R /\ M' = M)
  BY DEF Exclusion!vars
<1>t. TypeOK /\ FlagsTellWhoIsInside
  BY DEF GateInv
<1>1. ASSUME NEW t \in Threads, EnterRead(t) PROVE Exclusion!StartRead(t)
  <2>1. OthersKeep(t) /\ pc'[t] = "reading" /\ pc[t] = "idle" /\ ~active
    BY <1>1, <1>t, MoveFacts DEF EnterRead, Places, Admitted
  <2>2. M = {}
    BY <1>t, <2>1 DEF FlagsTellWhoIsInside
  <2>3. R' = R \cup {t} /\ t \notin R /\ M' = M
    BY <2>1 DEF At, OthersKeep
  <2> QED BY <2>2, <2>3 DEF Exclusion!StartRead
<1>2. ASSUME NEW t \in Threads, ExitRead(t) PROVE Exclusion!EndRead(t)
  <2>1. OthersKeep(t) /\ pc'[t] = "idle" /\ pc[t] = "reading"
    BY <1>2, <1>t, MoveFacts, NotifyAllFacts DEF ExitRead, Places
  <2>2. R' = R \ {t} /\ t \in R /\ M' = M
    BY <2>1 DEF At, OthersKeep
  <2> QED BY <2>2 DEF Exclusion!EndRead
<1>3. ASSUME NEW t \in Threads, WaitForTurn(t) \/ Reserve(t) PROVE R' = R /\ M' = M
  <2>1. OthersKeep(t) /\ pc'[t] \in {"asleepTurn", "asleepDrain"} /\ pc[t] \in {"idle", "turn"}
    BY <1>3, <1>t, MoveFacts DEF WaitForTurn, Reserve, Places
  <2> QED BY <2>1 DEF At, OthersKeep
<1>4. ASSUME NEW t \in Threads, pc'[t] = "mutating", OthersKeep(t), readers = 0,
             pc[t] \in {"idle", "turn", "drain"}, M = {}
      PROVE  Exclusion!StartMutation(t)
  <2>1. R = {}
    BY <1>t, <1>4, ReadingCount DEF FlagsTellWhoIsInside
  <2>2. R' = R /\ M' = {t}
    BY <1>4 DEF At, OthersKeep
  <2> QED BY <1>4, <2>1, <2>2 DEF Exclusion!StartMutation
<1>5. ASSUME NEW t \in Threads, EnterMutation(t) PROVE Exclusion!StartMutation(t)
  <2>1. /\ OthersKeep(t) /\ pc'[t] = "mutating" /\ pc[t] \in {"idle", "turn"}
        /\ readers = 0 /\ ~active
    BY <1>5, <1>t, MoveFacts DEF EnterMutation, Places, Admitted
  <2>2. M = {}
    BY <1>t, <2>1 DEF FlagsTellWhoIsInside
  <2> QED BY <1>4, <2>1, <2>2
<1>6. ASSUME NEW t \in Threads, Drain(t)
      PROVE  Exclusion!StartMutation(t) \/ (R' = R /\ M' = M)
  <2>1. /\ OthersKeep(t) /\ pc[t] = "drain"
        /\ pc'[t] = IF readers = 0 THEN "mutating" ELSE "asleepDrain"
    BY <1>6, <1>t, MoveFacts DEF Drain, Places
  <2>2. M = {}
    BY <1>t, <2>1 DEF FlagsTellWhoIsInside, At
  <2>3. CASE readers = 0
    BY <1>4, <2>1, <2>2, <2>3
  <2>4. CASE readers # 0
    BY <2>1, <2>4 DEF At, OthersKeep
  <2> QED BY <2>3, <2>4
<1>7. ASSUME NEW t \in Threads, ExitMutation(t) PROVE Exclusion!EndMutation(t)
  <2>1. OthersKeep(t) /\ pc'[t] = "idle" /\ pc[t] = "mutating"
    BY <1>7, <1>t, NotifyAllFacts DEF ExitMutation, Places
  <2>2. M = {t}
    BY <1>t, <2>1 DEF FlagsTellWhoIsInside, At
  <2>3. R' = R /\ M' = {}
    BY <2>1, <2>2 DEF At, OthersKeep
  <2> QED BY <2>2, <2>3 DEF Exclusion!EndMutation
<1>8. CASE UNCHANGED vars
  BY <1>8 DEF vars, At
<1> HIDE DEF R, M
<1> QED BY <1>1, <1>2, <1>3, <1>5, <1>6, <1>7, <1>8 DEF Next, Call, Continue, Exclusion!Next

\* The gate implements mutual exclusion of reads and mutations.
THEOREM GateImplementsExclusion == Spec => ImplementsExclusion
<1>1. Init => Exclusion!Init
  BY DEF Init, Exclusion!Init, At
<1> QED BY <1>1, ExclusionStep, GateCorrect, PTL
        DEF Spec, ImplementsExclusion, Exclusion!Spec
=============================================================================
