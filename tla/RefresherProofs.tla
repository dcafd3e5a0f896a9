--------------------------- MODULE RefresherProofs --------------------------
(***************************************************************************)
(* Proofs about Refresher, for any number of requests calling Trigger, any *)
(* feeds, any bound on the workers and any number of cycle goroutines      *)
(* alive at once: RefresherInv is inductive, and it implies that cycles    *)
(* are single-flight, that no feed is polled twice at once, that the       *)
(* workers are bounded, and that nothing runs once Stop has returned.      *)
(***************************************************************************)
EXTENDS Refresher, TLAPS, FiniteSetTheorems

LEMMA FinitePopulations ==
    TypeOK => /\ IsFiniteSet(Alive) /\ Cardinality(Alive) \in Nat
              /\ IsFiniteSet(Admitted) /\ Cardinality(Admitted) \in Nat
              /\ \A i \in Cycles : IsFiniteSet(busy[i]) /\ Cardinality(busy[i]) \in Nat
  <1> SUFFICES ASSUME TypeOK PROVE /\ IsFiniteSet(Alive) /\ IsFiniteSet(Admitted)
                                   /\ \A i \in Cycles : IsFiniteSet(busy[i])
    BY FS_CardinalityType
  <1>1. IsFiniteSet(Callers)
    BY RefresherAssumption, FS_AddElement DEF Callers
  <1>2. IsFiniteSet(Alive) /\ IsFiniteSet(Admitted)
    BY <1>1, RefresherAssumption, FS_Subset DEF Alive, Admitted
  <1>3. \A i \in Cycles : IsFiniteSet(busy[i])
    BY RefresherAssumption, FS_Subset DEF TypeOK
  <1> QED BY <1>2, <1>3

LEMMA InvInit == Init => RefresherInv
  <1> SUFFICES ASSUME Init PROVE RefresherInv
    OBVIOUS
  <1> USE RefresherAssumption DEF Init
  <1>1. TypeOK BY DEF TypeOK, Callers
  <1>2. OneOwner BY DEF OneOwner, Flying
  <1>3. Counted
    <2>1. Alive = {} /\ Admitted = {} BY DEF Alive, Admitted
    <2> QED BY <2>1, FS_EmptySet DEF Counted
  <1>4. Slots BY FS_EmptySet DEF Slots
  <1>5. Workers BY DEF Workers
  <1>6. Progress BY DEF Progress, Callers
  <1> QED BY <1>1, <1>2, <1>3, <1>4, <1>5, <1>6 DEF RefresherInv

-----------------------------------------------------------------------------
\* The counters stay natural numbers: wg is not decremented below the goroutines it
\* counts, nor held below the polls it was taken for.
LEMMA TypeNext == RefresherInv /\ [Next]_vars => TypeOK'
  <1> SUFFICES ASSUME RefresherInv, [Next]_vars PROVE TypeOK'
    OBVIOUS
  <1> USE RefresherAssumption DEF TypeOK, Callers, RefresherInv
  <1>1. CASE UNCHANGED vars
    BY <1>1 DEF vars, shared, cycles
  <1>2. CASE Start
    BY <1>2 DEF Start, shared, cycles
  <1>3. CASE Signal
    BY <1>3 DEF Signal, shared, cycles
  <1>4. CASE ServeFails
    BY <1>4 DEF ServeFails, shared, cycles
  <1>5. CASE StopMark
    BY <1>5 DEF StopMark, shared, cycles
  <1>6. CASE StopTicker
    BY <1>6 DEF StopTicker, shared, cycles
  <1>7. CASE StopBase
    BY <1>7 DEF StopBase, shared, cycles
  <1>8. CASE StopWait
    BY <1>8 DEF StopWait, shared, cycles
  <1>9. ASSUME NEW c \in Callers, Win(c) PROVE TypeOK'
    BY <1>9 DEF Win, shared, cycles, Back, Calls
  <1>10. CASE Lose
    BY <1>10 DEF Lose, shared, cycles, Back, Calls
  <1>11. ASSUME NEW c \in Callers, Admit(c) PROVE TypeOK'
    BY <1>11 DEF Admit, shared, cycles
  <1>12. ASSUME NEW c \in Callers, Refuse(c) PROVE TypeOK'
    BY <1>12 DEF Refuse, shared, cycles
  <1>13. ASSUME NEW c \in Callers, Undo(c) PROVE TypeOK'
    BY <1>13 DEF Undo, shared, cycles, Back, Calls
  <1>14. ASSUME NEW c \in Callers, NEW i \in Cycles, Spawn(c, i) PROVE TypeOK'
    BY <1>14 DEF Spawn, shared, cycles, Back, Calls
  <1>15. CASE Tick
    BY <1>15 DEF Tick, shared, cycles
  <1>16. CASE TickerExit
    <2>1. Cardinality(Alive) \in Nat /\ Cardinality(Admitted) \in Nat
      BY FinitePopulations
    <2>2. wg - 1 \in Nat
      BY <1>16, <2>1 DEF TickerExit, Counted
    <2> QED BY <1>16, <2>2 DEF TickerExit, shared, cycles
  <1>17. ASSUME NEW i \in Cycles, NEW urls \in SUBSET Feeds, LoadFeeds(i, urls) PROVE TypeOK'
    BY <1>17 DEF LoadFeeds, shared, cycles
  <1>18. ASSUME NEW i \in Cycles, NEW f \in Feeds, NextFeed(i, f) PROVE TypeOK'
    BY <1>18 DEF NextFeed, shared, cycles
  <1>19. ASSUME NEW i \in Cycles, Acquire(i) PROVE TypeOK'
    BY <1>19 DEF Acquire, shared, cycles
  <1>20. ASSUME NEW i \in Cycles, GiveUp(i) PROVE TypeOK'
    BY <1>20 DEF GiveUp, shared, cycles
  <1>21. ASSUME NEW i \in Cycles, Dispatch(i) PROVE TypeOK'
    BY <1>21 DEF Dispatch, shared, Workers
  <1>22. ASSUME NEW i \in Cycles, LeaveLoop(i) PROVE TypeOK'
    BY <1>22 DEF LeaveLoop, shared, cycles
  <1>23. ASSUME NEW i \in Cycles, NEW f \in Feeds, FinishPoll(i, f) PROVE TypeOK'
    <2>1. IsFiniteSet(busy[i]) /\ Cardinality(busy[i]) \in Nat
      BY FinitePopulations
    <2>2. busy[i] # {} BY <1>23 DEF FinishPoll
    <2>3. held[i] - 1 \in Nat
      BY <2>1, <2>2, FS_EmptySet DEF Slots
    <2> QED BY <1>23, <2>3 DEF FinishPoll, shared
  <1>24. ASSUME NEW i \in Cycles, NEW f \in Feeds, WorkerDone(i, f) PROVE TypeOK'
    BY <1>24 DEF WorkerDone, shared, cycles
  <1>25. ASSUME NEW i \in Cycles, Drained(i) PROVE TypeOK'
    BY <1>25 DEF Drained, shared, cycles
  <1>26. ASSUME NEW i \in Cycles, Release(i) PROVE TypeOK'
    BY <1>26 DEF Release, shared, cycles
  <1>27. ASSUME NEW i \in Cycles, CycleExit(i) PROVE TypeOK'
    <2>1. IsFiniteSet(Alive) /\ Cardinality(Alive) \in Nat /\ Cardinality(Admitted) \in Nat
      BY FinitePopulations
    <2>2. Alive # {} BY <1>27 DEF CycleExit, Alive
    <2>3. wg - 1 \in Nat
      BY <2>1, <2>2, FS_EmptySet DEF Counted
    <2> QED BY <1>27, <2>3 DEF CycleExit
  <1> HIDE DEF TypeOK, Callers, RefresherInv
  <1> QED
    BY <1>1, <1>2, <1>3, <1>4, <1>5, <1>6, <1>7, <1>8, <1>9, <1>10, <1>11,
       <1>12, <1>13, <1>14, <1>15, <1>16, <1>17, <1>18, <1>19, <1>20, <1>21,
       <1>22, <1>23, <1>24, <1>25, <1>26, <1>27
    DEF Next, Stop, InTrigger, CycleStep, Worker

\* inFlight passes from the caller that won it to the cycle it spawned.
LEMMA OneOwnerNext == RefresherInv /\ [Next]_vars => OneOwner'
  <1> SUFFICES ASSUME RefresherInv, [Next]_vars PROVE OneOwner'
    OBVIOUS
  <1> USE RefresherAssumption DEF TypeOK, OneOwner, RefresherInv, Flying
  <1>1. CASE \/ Start
              \/ Signal
              \/ ServeFails
              \/ StopMark
              \/ StopTicker
              \/ StopBase
              \/ StopWait
              \/ Lose
              \/ Tick
              \/ TickerExit
              \/ UNCHANGED vars
    BY <1>1 DEF vars, shared, cycles, Start, Signal, ServeFails, StopMark, StopTicker, StopBase, StopWait, Lose, Tick, TickerExit
  <1>2. ASSUME NEW c \in Callers, Win(c) PROVE OneOwner'
    BY <1>2 DEF Win, shared, cycles
  <1>3. ASSUME NEW c \in Callers, Admit(c) PROVE OneOwner'
    BY <1>3 DEF Admit, shared, cycles
  <1>4. ASSUME NEW c \in Callers, Refuse(c) PROVE OneOwner'
    BY <1>4 DEF Refuse, shared, cycles
  <1>5. ASSUME NEW c \in Callers, Undo(c) PROVE OneOwner'
    BY <1>5 DEF Undo, shared, cycles
  <1>6. ASSUME NEW c \in Callers, NEW i \in Cycles, Spawn(c, i) PROVE OneOwner'
    BY <1>6 DEF Spawn, shared, cycles
  <1>7. ASSUME NEW i \in Cycles, NEW urls \in SUBSET Feeds, LoadFeeds(i, urls) PROVE OneOwner'
    BY <1>7 DEF LoadFeeds, shared, cycles
  <1>8. ASSUME NEW i \in Cycles, NEW f \in Feeds, NextFeed(i, f) PROVE OneOwner'
    BY <1>8 DEF NextFeed, shared, cycles
  <1>9. ASSUME NEW i \in Cycles, Acquire(i) PROVE OneOwner'
    BY <1>9 DEF Acquire, shared, cycles
  <1>10. ASSUME NEW i \in Cycles, GiveUp(i) PROVE OneOwner'
    BY <1>10 DEF GiveUp, shared, cycles
  <1>11. ASSUME NEW i \in Cycles, Dispatch(i) PROVE OneOwner'
    BY <1>11 DEF Dispatch, shared, cycles
  <1>12. ASSUME NEW i \in Cycles, LeaveLoop(i) PROVE OneOwner'
    BY <1>12 DEF LeaveLoop, shared, cycles
  <1>13. ASSUME NEW i \in Cycles, NEW f \in Feeds, FinishPoll(i, f) PROVE OneOwner'
    BY <1>13 DEF FinishPoll, shared, cycles
  <1>14. ASSUME NEW i \in Cycles, NEW f \in Feeds, WorkerDone(i, f) PROVE OneOwner'
    BY <1>14 DEF WorkerDone, shared, cycles
  <1>15. ASSUME NEW i \in Cycles, Drained(i) PROVE OneOwner'
    BY <1>15 DEF Drained, shared, cycles
  <1>16. ASSUME NEW i \in Cycles, Release(i) PROVE OneOwner'
    BY <1>16 DEF Release, shared, cycles
  <1>17. ASSUME NEW i \in Cycles, CycleExit(i) PROVE OneOwner'
    BY <1>17 DEF CycleExit, shared, cycles
  <1> HIDE DEF TypeOK, OneOwner, RefresherInv, Flying
  <1> QED
    BY <1>1, <1>2, <1>3, <1>4, <1>5, <1>6, <1>7, <1>8, <1>9, <1>10, <1>11,
       <1>12, <1>13, <1>14, <1>15, <1>16, <1>17
    DEF Next, Stop, InTrigger, CycleStep, Worker

\* No feed is dispatched while its worker is alive.
LEMMA WorkersNext == RefresherInv /\ [Next]_vars => Workers'
  <1> SUFFICES ASSUME RefresherInv, [Next]_vars PROVE Workers'
    OBVIOUS
  <1> USE RefresherAssumption DEF TypeOK, RefresherInv, Workers
  <1>1. CASE \/ Start
              \/ Signal
              \/ ServeFails
              \/ StopMark
              \/ StopTicker
              \/ StopBase
              \/ StopWait
              \/ Lose
              \/ Tick
              \/ TickerExit
              \/ UNCHANGED vars
    BY <1>1 DEF vars, shared, cycles, Start, Signal, ServeFails, StopMark, StopTicker, StopBase, StopWait, Lose, Tick, TickerExit
  <1>2. ASSUME NEW c \in Callers, Win(c) PROVE Workers'
    BY <1>2 DEF Win, shared, cycles
  <1>3. ASSUME NEW c \in Callers, Admit(c) PROVE Workers'
    BY <1>3 DEF Admit, shared, cycles
  <1>4. ASSUME NEW c \in Callers, Refuse(c) PROVE Workers'
    BY <1>4 DEF Refuse, shared, cycles
  <1>5. ASSUME NEW c \in Callers, Undo(c) PROVE Workers'
    BY <1>5 DEF Undo, shared, cycles
  <1>6. ASSUME NEW c \in Callers, NEW i \in Cycles, Spawn(c, i) PROVE Workers'
    BY <1>6 DEF Spawn, shared, cycles
  <1>7. ASSUME NEW i \in Cycles, NEW urls \in SUBSET Feeds, LoadFeeds(i, urls) PROVE Workers'
    BY <1>7 DEF LoadFeeds, shared, cycles
  <1>8. ASSUME NEW i \in Cycles, NEW f \in Feeds, NextFeed(i, f) PROVE Workers'
    BY <1>8 DEF NextFeed, shared, cycles
  <1>9. ASSUME NEW i \in Cycles, Acquire(i) PROVE Workers'
    BY <1>9 DEF Acquire, shared, cycles
  <1>10. ASSUME NEW i \in Cycles, GiveUp(i) PROVE Workers'
    BY <1>10 DEF GiveUp, shared, cycles
  <1>11. ASSUME NEW i \in Cycles, Dispatch(i) PROVE Workers'
    BY <1>11 DEF Dispatch, shared, cycles
  <1>12. ASSUME NEW i \in Cycles, LeaveLoop(i) PROVE Workers'
    BY <1>12 DEF LeaveLoop, shared, cycles
  <1>13. ASSUME NEW i \in Cycles, NEW f \in Feeds, FinishPoll(i, f) PROVE Workers'
    BY <1>13 DEF FinishPoll, shared, cycles
  <1>14. ASSUME NEW i \in Cycles, NEW f \in Feeds, WorkerDone(i, f) PROVE Workers'
    BY <1>14 DEF WorkerDone, shared, cycles
  <1>15. ASSUME NEW i \in Cycles, Drained(i) PROVE Workers'
    BY <1>15 DEF Drained, shared, cycles
  <1>16. ASSUME NEW i \in Cycles, Release(i) PROVE Workers'
    BY <1>16 DEF Release, shared, cycles
  <1>17. ASSUME NEW i \in Cycles, CycleExit(i) PROVE Workers'
    BY <1>17 DEF CycleExit, shared, cycles
  <1> HIDE DEF TypeOK, RefresherInv, Workers
  <1> QED
    BY <1>1, <1>2, <1>3, <1>4, <1>5, <1>6, <1>7, <1>8, <1>9, <1>10, <1>11,
       <1>12, <1>13, <1>14, <1>15, <1>16, <1>17
    DEF Next, Stop, InTrigger, CycleStep, Worker

\* Once stopped, no caller is admitted: at Stop's return nothing is left to start.
LEMMA ProgressNext == RefresherInv /\ [Next]_vars => Progress'
  <1> SUFFICES ASSUME RefresherInv, [Next]_vars PROVE Progress'
    OBVIOUS
  <1> USE RefresherAssumption DEF TypeOK, RefresherInv, Progress, Callers
  <1>1. CASE UNCHANGED vars
    BY <1>1 DEF vars, shared, cycles
  <1>2. CASE Start
    BY <1>2 DEF Start, shared, cycles
  <1>3. CASE Signal
    BY <1>3 DEF Signal, shared, cycles
  <1>4. CASE ServeFails
    BY <1>4 DEF ServeFails, shared, cycles
  <1>5. CASE StopMark
    BY <1>5 DEF StopMark, shared, cycles
  <1>6. CASE StopTicker
    BY <1>6 DEF StopTicker, shared, cycles
  <1>7. CASE StopBase
    BY <1>7 DEF StopBase, shared, cycles
  <1>8. CASE StopWait
    BY <1>8 DEF StopWait, shared, cycles
  <1>9. ASSUME NEW c \in Callers, Win(c) PROVE Progress'
    BY <1>9 DEF Win, shared, cycles, Back, Calls
  <1>10. CASE Lose
    BY <1>10 DEF Lose, shared, cycles, Back, Calls
  <1>11. ASSUME NEW c \in Callers, Admit(c) PROVE Progress'
    BY <1>11 DEF Admit
  <1>12. ASSUME NEW c \in Callers, Refuse(c) PROVE Progress'
    BY <1>12 DEF Refuse, shared, cycles
  <1>13. ASSUME NEW c \in Callers, Undo(c) PROVE Progress'
    BY <1>13 DEF Undo, shared, cycles, Back, Calls
  <1>14. ASSUME NEW c \in Callers, NEW i \in Cycles, Spawn(c, i) PROVE Progress'
    BY <1>14 DEF Spawn, shared, cycles, Back, Calls
  <1>15. CASE Tick
    BY <1>15 DEF Tick, shared, cycles
  <1>16. CASE TickerExit
    <2>1. wg > 0
      BY <1>16, FinitePopulations DEF TickerExit, Counted
    <2> QED BY <1>16, <2>1 DEF TickerExit
  <1>17. ASSUME NEW i \in Cycles, NEW urls \in SUBSET Feeds, LoadFeeds(i, urls) PROVE Progress'
    BY <1>17 DEF LoadFeeds, shared, cycles
  <1>18. ASSUME NEW i \in Cycles, NEW f \in Feeds, NextFeed(i, f) PROVE Progress'
    BY <1>18 DEF NextFeed, shared, cycles
  <1>19. ASSUME NEW i \in Cycles, Acquire(i) PROVE Progress'
    BY <1>19 DEF Acquire, shared, cycles
  <1>20. ASSUME NEW i \in Cycles, GiveUp(i) PROVE Progress'
    BY <1>20 DEF GiveUp, shared, cycles
  <1>21. ASSUME NEW i \in Cycles, Dispatch(i) PROVE Progress'
    BY <1>21 DEF Dispatch, shared, cycles
  <1>22. ASSUME NEW i \in Cycles, LeaveLoop(i) PROVE Progress'
    BY <1>22 DEF LeaveLoop, shared, cycles
  <1>23. ASSUME NEW i \in Cycles, NEW f \in Feeds, FinishPoll(i, f) PROVE Progress'
    BY <1>23 DEF FinishPoll, shared, cycles
  <1>24. ASSUME NEW i \in Cycles, NEW f \in Feeds, WorkerDone(i, f) PROVE Progress'
    BY <1>24 DEF WorkerDone, shared, cycles
  <1>25. ASSUME NEW i \in Cycles, Drained(i) PROVE Progress'
    BY <1>25 DEF Drained, shared, cycles
  <1>26. ASSUME NEW i \in Cycles, Release(i) PROVE Progress'
    BY <1>26 DEF Release, shared, cycles
  <1>27. ASSUME NEW i \in Cycles, CycleExit(i) PROVE Progress'
    <2>1. Alive # {} BY <1>27 DEF CycleExit, Alive
    <2>2. wg > 0
      BY <2>1, FinitePopulations, FS_EmptySet DEF Counted
    <2> QED BY <1>27, <2>2 DEF CycleExit
  <1> HIDE DEF TypeOK, RefresherInv, Progress, Callers
  <1> QED
    BY <1>1, <1>2, <1>3, <1>4, <1>5, <1>6, <1>7, <1>8, <1>9, <1>10, <1>11,
       <1>12, <1>13, <1>14, <1>15, <1>16, <1>17, <1>18, <1>19, <1>20, <1>21,
       <1>22, <1>23, <1>24, <1>25, <1>26, <1>27
    DEF Next, Stop, InTrigger, CycleStep, Worker

\* A slot is given back with the poll it was taken for.
LEMMA SlotsNext == RefresherInv /\ [Next]_vars => Slots'
  <1> SUFFICES ASSUME RefresherInv, [Next]_vars PROVE Slots'
    OBVIOUS
  <1> USE RefresherAssumption DEF TypeOK, RefresherInv, Slots
  <1>1. CASE \/ Start
              \/ Signal
              \/ ServeFails
              \/ StopMark
              \/ StopTicker
              \/ StopWait
              \/ Lose
              \/ Tick
              \/ TickerExit
              \/ UNCHANGED vars
    BY <1>1 DEF vars, shared, cycles, Start, Signal, ServeFails, StopMark, StopTicker, StopWait, Lose, Tick, TickerExit
  <1>2. CASE StopBase
    BY <1>2 DEF StopBase, shared, cycles
  <1>3. ASSUME NEW c \in Callers, Win(c) PROVE Slots'
    BY <1>3 DEF Win, shared, cycles
  <1>4. ASSUME NEW c \in Callers, Admit(c) PROVE Slots'
    BY <1>4 DEF Admit, shared, cycles
  <1>5. ASSUME NEW c \in Callers, Refuse(c) PROVE Slots'
    BY <1>5 DEF Refuse, shared, cycles
  <1>6. ASSUME NEW c \in Callers, Undo(c) PROVE Slots'
    BY <1>6 DEF Undo, shared, cycles
  <1>7. ASSUME NEW c \in Callers, NEW i \in Cycles, Spawn(c, i) PROVE Slots'
    BY <1>7 DEF Spawn, Workers
  <1>8. ASSUME NEW i \in Cycles, NEW urls \in SUBSET Feeds, LoadFeeds(i, urls) PROVE Slots'
    BY <1>8 DEF LoadFeeds, shared, cycles
  <1>9. ASSUME NEW i \in Cycles, NEW f \in Feeds, NextFeed(i, f) PROVE Slots'
    BY <1>9 DEF NextFeed, shared, cycles
  <1>10. ASSUME NEW i \in Cycles, Acquire(i) PROVE Slots'
    <2>1. Cardinality(busy[i]) \in Nat
      BY FinitePopulations
    <2> QED BY <1>10, <2>1 DEF Acquire, shared
  <1>11. ASSUME NEW i \in Cycles, GiveUp(i) PROVE Slots'
    BY <1>11 DEF GiveUp, shared, cycles
  <1>12. ASSUME NEW i \in Cycles, Dispatch(i) PROVE Slots'
    <2>1. IsFiniteSet(busy[i]) /\ Cardinality(busy[i]) \in Nat
      BY FinitePopulations
    <2>2. Cardinality(busy[i] \cup {cur[i]}) \in {Cardinality(busy[i]), Cardinality(busy[i]) + 1}
      <3> HIDE DEF TypeOK, RefresherInv, Slots
      <3> QED BY <2>1, FS_AddElement
    <2>3. Cardinality(busy[i]) + 1 <= held[i]
      BY <1>12, <2>1 DEF Dispatch
    <2>4. at'[i] = "next" /\ busy'[i] = busy[i] \cup {cur[i]} /\ held' = held
      BY <1>12 DEF Dispatch
    <2>5. Cardinality(busy[i] \cup {cur[i]}) \in Nat
      BY <2>1, FS_AddElement, FS_CardinalityType
    <2>6. \A j \in Cycles \ {i} : at'[j] = at[j] /\ busy'[j] = busy[j]
      BY <1>12 DEF Dispatch
    <2> QED BY <1>12, <2>2, <2>3, <2>4, <2>5, <2>6 DEF Dispatch, shared
  <1>13. ASSUME NEW i \in Cycles, LeaveLoop(i) PROVE Slots'
    BY <1>13 DEF LeaveLoop, shared, cycles
  <1>14. ASSUME NEW i \in Cycles, NEW f \in Feeds, FinishPoll(i, f) PROVE Slots'
    <2>1. IsFiniteSet(busy[i]) /\ Cardinality(busy[i]) \in Nat
      BY FinitePopulations
    <2>2. Cardinality(busy[i] \ {f}) = Cardinality(busy[i]) - 1
      BY <1>14, <2>1, FS_RemoveElement DEF FinishPoll
    <2>3. busy'[i] = busy[i] \ {f} /\ held'[i] = held[i] - 1 /\ at' = at
      BY <1>14 DEF FinishPoll
    <2>4. \A j \in Cycles \ {i} : held'[j] = held[j] /\ busy'[j] = busy[j]
      BY <1>14 DEF FinishPoll
    <2> QED BY <1>14, <2>1, <2>2, <2>3, <2>4 DEF FinishPoll, shared
  <1>15. ASSUME NEW i \in Cycles, NEW f \in Feeds, WorkerDone(i, f) PROVE Slots'
    BY <1>15 DEF WorkerDone, shared, cycles
  <1>16. ASSUME NEW i \in Cycles, Drained(i) PROVE Slots'
    BY <1>16 DEF Drained, shared, cycles
  <1>17. ASSUME NEW i \in Cycles, Release(i) PROVE Slots'
    BY <1>17 DEF Release, shared, cycles
  <1>18. ASSUME NEW i \in Cycles, CycleExit(i) PROVE Slots'
    <2>1. Cardinality(busy[i]) = 0
      BY <1>18, FS_EmptySet DEF CycleExit, Workers
    <2> QED BY <1>18, <2>1 DEF CycleExit
  <1> HIDE DEF TypeOK, RefresherInv, Slots
  <1> QED
    BY <1>1, <1>2, <1>3, <1>4, <1>5, <1>6, <1>7, <1>8, <1>9, <1>10, <1>11,
       <1>12, <1>13, <1>14, <1>15, <1>16, <1>17, <1>18
    DEF Next, Stop, InTrigger, CycleStep, Worker

\* wg follows the goroutines it counts.
LEMMA CountedNext == RefresherInv /\ [Next]_vars => Counted'
  <1> SUFFICES ASSUME RefresherInv, [Next]_vars PROVE Counted'
    OBVIOUS
  <1> USE RefresherAssumption DEF TypeOK, RefresherInv, Counted
  <1>1. CASE \/ Signal
              \/ ServeFails
              \/ StopMark
              \/ StopTicker
              \/ StopBase
              \/ StopWait
              \/ UNCHANGED vars
    BY <1>1 DEF vars, shared, cycles, Alive, Admitted,
                Signal, ServeFails, StopMark, StopTicker, StopBase, StopWait
  <1>2. CASE Start
    BY <1>2, FinitePopulations DEF Start, cycles, Progress, Alive, Admitted
  <1>3. ASSUME NEW c \in Callers, Win(c) PROVE Counted'
    <2>1. Alive' = Alive /\ Admitted' = Admitted
      BY <1>3 DEF Win, Calls, cycles, Alive, Admitted
    <2> QED BY <1>3, <2>1 DEF Win
  <1>4. CASE Lose
    BY <1>4 DEF Lose, Calls, Back, cycles, Alive, Admitted
  <1>5. ASSUME NEW c \in Callers, Admit(c) PROVE Counted'
    <2>1. Alive' = Alive /\ Admitted' = Admitted \cup {c} /\ c \notin Admitted
      BY <1>5 DEF Admit, cycles, Alive, Admitted
    <2>2. Cardinality(Admitted') = Cardinality(Admitted) + 1
      BY <2>1, FinitePopulations, FS_AddElement
    <2> QED BY <1>5, <2>1, <2>2, FinitePopulations DEF Admit
  <1>6. ASSUME NEW c \in Callers, Refuse(c) PROVE Counted'
    <2>1. Alive' = Alive /\ Admitted' = Admitted
      BY <1>6 DEF Refuse, cycles, Alive, Admitted
    <2> QED BY <1>6, <2>1 DEF Refuse
  <1>7. ASSUME NEW c \in Callers, Undo(c) PROVE Counted'
    <2>1. Alive' = Alive /\ Admitted' = Admitted
      BY <1>7 DEF Undo, cycles, Alive, Admitted
    <2> QED BY <1>7, <2>1 DEF Undo, Back, Progress
  <1>8. ASSUME NEW c \in Callers, NEW i \in Cycles, Spawn(c, i) PROVE Counted'
    <2>1. /\ Alive' = Alive \cup {i} /\ i \notin Alive
          /\ Admitted' = Admitted \ {c} /\ c \in Admitted
      BY <1>8 DEF Spawn, Alive, Admitted
    <2>2. /\ Cardinality(Alive') = Cardinality(Alive) + 1
          /\ Cardinality(Admitted') = Cardinality(Admitted) - 1
      BY <2>1, FinitePopulations, FS_AddElement, FS_RemoveElement
    <2> QED BY <1>8, <2>1, <2>2, FinitePopulations DEF Spawn, Back, Progress
  <1>9. CASE Tick
    BY <1>9 DEF Tick, cycles, Alive, Admitted
  <1>10. CASE TickerExit
    BY <1>10, FinitePopulations DEF TickerExit, cycles, Alive, Admitted
  <1>11. ASSUME NEW i \in Cycles, NEW urls \in SUBSET Feeds, LoadFeeds(i, urls) PROVE Counted'
    <2>1. Alive' = Alive /\ Admitted' = Admitted
      BY <1>11 DEF LoadFeeds, shared, Alive, Admitted
    <2> QED BY <1>11, <2>1 DEF LoadFeeds, shared
  <1>12. ASSUME NEW i \in Cycles, NEW f \in Feeds, NextFeed(i, f) PROVE Counted'
    <2>1. Alive' = Alive /\ Admitted' = Admitted
      BY <1>12 DEF NextFeed, shared, Alive, Admitted
    <2> QED BY <1>12, <2>1 DEF NextFeed, shared
  <1>13. ASSUME NEW i \in Cycles, Acquire(i) PROVE Counted'
    <2>1. Alive' = Alive /\ Admitted' = Admitted
      BY <1>13 DEF Acquire, shared, Alive, Admitted
    <2> QED BY <1>13, <2>1 DEF Acquire, shared
  <1>14. ASSUME NEW i \in Cycles, GiveUp(i) PROVE Counted'
    <2>1. Alive' = Alive /\ Admitted' = Admitted
      BY <1>14 DEF GiveUp, shared, Alive, Admitted
    <2> QED BY <1>14, <2>1 DEF GiveUp, shared
  <1>15. ASSUME NEW i \in Cycles, Dispatch(i) PROVE Counted'
    <2>1. Alive' = Alive /\ Admitted' = Admitted
      BY <1>15 DEF Dispatch, shared, Alive, Admitted
    <2> QED BY <1>15, <2>1 DEF Dispatch, shared
  <1>16. ASSUME NEW i \in Cycles, LeaveLoop(i) PROVE Counted'
    <2>1. Alive' = Alive /\ Admitted' = Admitted
      BY <1>16 DEF LeaveLoop, shared, Alive, Admitted
    <2> QED BY <1>16, <2>1 DEF LeaveLoop, shared
  <1>17. ASSUME NEW i \in Cycles, NEW f \in Feeds, FinishPoll(i, f) PROVE Counted'
    BY <1>17 DEF FinishPoll, shared, cycles, Alive, Admitted
  <1>18. ASSUME NEW i \in Cycles, NEW f \in Feeds, WorkerDone(i, f) PROVE Counted'
    BY <1>18 DEF WorkerDone, shared, cycles, Alive, Admitted
  <1>19. ASSUME NEW i \in Cycles, Drained(i) PROVE Counted'
    <2>1. Alive' = Alive /\ Admitted' = Admitted
      BY <1>19 DEF Drained, shared, Alive, Admitted
    <2> QED BY <1>19, <2>1 DEF Drained, shared
  <1>20. ASSUME NEW i \in Cycles, Release(i) PROVE Counted'
    <2>1. Alive' = Alive /\ Admitted' = Admitted
      BY <1>20 DEF Release, shared, Alive, Admitted
    <2> QED BY <1>20, <2>1 DEF Release, shared
  <1>21. ASSUME NEW i \in Cycles, CycleExit(i) PROVE Counted'
    <2>1. Alive' = Alive \ {i} /\ i \in Alive /\ Admitted' = Admitted
      BY <1>21 DEF CycleExit, Alive, Admitted
    <2>2. Cardinality(Alive') = Cardinality(Alive) - 1
      BY <2>1, FinitePopulations, FS_RemoveElement
    <2> QED BY <1>21, <2>1, <2>2, FinitePopulations DEF CycleExit
  <1> HIDE DEF TypeOK, RefresherInv, Counted
  <1> QED
    BY <1>1, <1>2, <1>3, <1>4, <1>5, <1>6, <1>7, <1>8, <1>9, <1>10, <1>11,
       <1>12, <1>13, <1>14, <1>15, <1>16, <1>17, <1>18, <1>19, <1>20, <1>21
    DEF Next, Stop, InTrigger, CycleStep, Worker

-----------------------------------------------------------------------------

\* The inductive invariant.
LEMMA RefresherInvariant == Spec => []RefresherInv
  <1>1. RefresherInv /\ [Next]_vars => RefresherInv'
    BY TypeNext, OneOwnerNext, CountedNext, SlotsNext, WorkersNext, ProgressNext
       DEF RefresherInv
  <1> QED BY <1>1, InvInit, PTL DEF Spec

\* Cycles are single-flight: inFlight is 1 exactly when one caller of Trigger is
\* about to spawn a cycle or one cycle runs, and never two.
THEOREM CyclesAreSingleFlight == Spec => []SingleFlight
  <1>1. RefresherInv => SingleFlight
    <2> SUFFICES ASSUME RefresherInv PROVE SingleFlight
      OBVIOUS
    <2> DEFINE owners == {c \in Callers : trig[c] # "out"}
               flying == {i \in Cycles : Flying(i)}
    <2>1. inFlight = 0 => owners = {} /\ flying = {}
      BY DEF RefresherInv, OneOwner
    <2>2. ASSUME NEW c \in Callers, trig[c] # "out"
          PROVE  owners = {c} /\ flying = {}
      BY <2>2 DEF RefresherInv, OneOwner
    <2>3. ASSUME NEW i \in Cycles, Flying(i)
          PROVE  owners = {} /\ flying = {i}
      BY <2>3 DEF RefresherInv, OneOwner
    <2>4. inFlight = 1 => \/ \E c \in Callers : owners = {c} /\ flying = {}
                          \/ \E i \in Cycles : owners = {} /\ flying = {i}
      BY <2>2, <2>3 DEF RefresherInv, OneOwner
    <2> QED BY <2>1, <2>4 DEF SingleFlight
  <1> QED BY <1>1, RefresherInvariant, PTL

\* No feed is polled by two workers at once: what AppendEntries relies on.
THEOREM PollsDoNotOverlap == Spec => []OnePollPerFeed
  <1>1. RefresherInv => OnePollPerFeed
    BY DEF RefresherInv, OneOwner, Workers, OnePollPerFeed, Flying, TypeOK
  <1> QED BY <1>1, RefresherInvariant, PTL

\* No more than Concurrency feeds are polled at once.
THEOREM PollsAreBounded == Spec => []BoundedPolls
  <1>1. RefresherInv => BoundedPolls
    BY FinitePopulations, RefresherAssumption
       DEF RefresherInv, TypeOK, Slots, BoundedPolls
  <1> QED BY <1>1, RefresherInvariant, PTL

\* When Stop has returned no goroutine of the Refresher is alive, and none starts.
THEOREM StoppedForGood == Spec => []StopIsFinal
  <1>1. RefresherInv => StopIsFinal
    <2> SUFFICES ASSUME RefresherInv, main = "returned" PROVE StopIsFinal
      BY DEF StopIsFinal
    <2>1. Cardinality(Alive) = 0 /\ Cardinality(Admitted) = 0 /\ ticker = "off"
      BY FinitePopulations DEF RefresherInv, Progress, Counted
    <2>2. Alive = {} /\ Admitted = {}
      BY <2>1, FinitePopulations, FS_EmptySet DEF RefresherInv
    <2> QED BY <2>1, <2>2 DEF RefresherInv, Workers, Alive, Admitted, StopIsFinal
  <1> QED BY <1>1, RefresherInvariant, PTL

-----------------------------------------------------------------------------
(* Refinement.                                                             *)

Active == \E i \in Cycles : Flying(i)
Polling == UNION {busy[i] : i \in Cycles}
Outside == <<Active, Polling, main = "returned">>

\* The service polls what the one flying cycle polls.
LEMMA PollingIsBusy ==
    RefresherInv => /\ \A i \in Cycles : Flying(i) => Polling = busy[i]
                    /\ ~Active => Polling = {}
  BY DEF RefresherInv, TypeOK, OneOwner, Workers, Flying, Active, Polling

\* While a cycle is alive or admitted, Stop has not returned.
LEMMA NotReturned ==
    RefresherInv /\ (Alive # {} \/ Admitted # {}) => main # "returned"
  <1> SUFFICES ASSUME RefresherInv, Alive # {} \/ Admitted # {}, main = "returned"
               PROVE  FALSE
    OBVIOUS
  <1>1. Cardinality(Alive) = 0 /\ Cardinality(Admitted) = 0
    BY FinitePopulations DEF RefresherInv, Progress, Counted
  <1> QED BY <1>1, FinitePopulations, FS_EmptySet DEF RefresherInv

\* Each step of the Refresher is a step of the service or changes nothing in it.
LEMMA ServiceStep ==
    RefresherInv /\ RefresherInv' /\ [Next]_vars =>
        [Service!ServiceNext]_(Service!serviceVars)
  <1> SUFFICES ASSUME RefresherInv, RefresherInv', [Next]_vars
               PROVE  [Service!ServiceNext]_Outside
    BY DEF Service!serviceVars, Outside, Active, Polling
  <1>0. (/\ \A i \in Cycles : Flying(i) => Polling = busy[i]
         /\ ~Active => Polling = {})'
    BY PollingIsBusy, PTL
  <1>1. ASSUME NEW c \in Callers, NEW i \in Cycles, Spawn(c, i) PROVE [Service!ServiceNext]_Outside
    <2>1. ~Active
      BY <1>1 DEF Spawn, RefresherInv, OneOwner, Active
    <2>2. main # "returned"
      BY <1>1, NotReturned DEF Spawn, Admitted
    <2>3. Active'
      BY <1>1 DEF Spawn, Active, Flying, RefresherInv, TypeOK
    <2>4. Polling' = Polling /\ main' = main
      BY <1>1 DEF Spawn, Polling
    <2> QED BY <2>1, <2>2, <2>3, <2>4
      DEF Service!ServiceNext, Service!Begin, Active, Polling
  <1>2. ASSUME NEW i \in Cycles, Dispatch(i) PROVE [Service!ServiceNext]_Outside
    <2>1. Flying(i) /\ Flying(i)' /\ main' = main
      BY <1>2 DEF Dispatch, Flying, RefresherInv, TypeOK, shared
    <2>2. Polling = busy[i] /\ Polling' = busy'[i] /\ Active /\ Active'
      BY <2>1, PollingIsBusy, <1>0 DEF Active
    <2>3. cur[i] \in Feeds /\ cur[i] \notin busy[i]
      BY <1>2 DEF Dispatch, RefresherInv, Workers
    <2>4. Cardinality(busy[i]) < Concurrency
      BY <1>2, FinitePopulations, RefresherAssumption
         DEF Dispatch, RefresherInv, TypeOK, Slots
    <2>5. busy'[i] = busy[i] \cup {cur[i]}
      BY <1>2 DEF Dispatch, RefresherInv, TypeOK
    <2>6. main # "returned"
      BY <2>1, NotReturned DEF Flying, Alive
    <2>7. PICK f \in Feeds : f = cur[i]
      BY <2>3
    <2>8. /\ Cardinality(Polling) < Concurrency
          /\ f \notin Polling /\ Polling' = Polling \cup {f}
      BY <2>2, <2>3, <2>4, <2>5, <2>7
    <2>9. UNCHANGED <<Active, main = "returned">>
      BY <2>1, <2>2
    <2>10. Service!Cardinality(Polling) = Cardinality(Polling)
      BY DEF Service!Cardinality, Cardinality
    <2>11. Service!Poll(f)
      BY <2>2, <2>6, <2>8, <2>9, <2>10 DEF Service!Poll, Active, Polling
    <2> QED BY <2>11 DEF Service!ServiceNext
  <1>3. ASSUME NEW i \in Cycles, NEW f \in Feeds, FinishPoll(i, f) PROVE [Service!ServiceNext]_Outside
    <2>1. Flying(i) /\ Flying(i)' /\ main' = main
      BY <1>3 DEF FinishPoll, Flying, RefresherInv, Workers, shared
    <2>2. Polling = busy[i] /\ Polling' = busy'[i] /\ Active /\ Active'
      BY <2>1, PollingIsBusy, <1>0 DEF Active
    <2>3. f \in busy[i] /\ busy'[i] = busy[i] \ {f}
      BY <1>3 DEF FinishPoll, RefresherInv, TypeOK
    <2>4. Service!Finish(f)
      BY <2>1, <2>2, <2>3 DEF Service!Finish, Active, Polling
    <2> QED BY <2>4 DEF Service!ServiceNext
  <1>4. ASSUME NEW i \in Cycles, Release(i) PROVE [Service!ServiceNext]_Outside
    <2>1. Flying(i) /\ busy[i] = {} /\ main' = main /\ Polling' = Polling
      BY <1>4 DEF Release, Flying, RefresherInv, Workers, Polling
    <2>2. Active /\ Polling = {}
      BY <2>1, PollingIsBusy DEF Active
    <2>3. ~Active'
      BY <1>4 DEF Release, Active, RefresherInv, OneOwner
    <2> QED BY <2>1, <2>2, <2>3 DEF Service!ServiceNext, Service!End, Active, Polling
  <1>5. CASE StopWait
    <2>1. Alive = {}
      BY <1>5, FinitePopulations, FS_EmptySet DEF StopWait, RefresherInv, Counted
    <2>2. ~Active /\ Polling = {}
      BY <2>1, PollingIsBusy DEF Active, Flying, Alive
    <2>3. Active' = Active /\ Polling' = Polling /\ main' = "returned"
      BY <1>5 DEF StopWait, Active, Flying, Polling, cycles
    <2> QED BY <2>2, <2>3 DEF Service!ServiceNext, Service!Close, Active, Polling
  <1>6. ASSUME Start PROVE [Service!ServiceNext]_Outside
    BY <1>6 DEF Outside, Start, shared, cycles, Active, Flying, Polling, RefresherInv, TypeOK
  <1>7. ASSUME Signal PROVE [Service!ServiceNext]_Outside
    BY <1>7 DEF Outside, Signal, shared, cycles, Active, Flying, Polling, RefresherInv, TypeOK
  <1>8. ASSUME ServeFails PROVE [Service!ServiceNext]_Outside
    BY <1>8 DEF Outside, ServeFails, shared, cycles, Active, Flying, Polling, RefresherInv, TypeOK
  <1>9. ASSUME StopMark PROVE [Service!ServiceNext]_Outside
    BY <1>9 DEF Outside, StopMark, shared, cycles, Active, Flying, Polling, RefresherInv, TypeOK
  <1>10. ASSUME StopTicker PROVE [Service!ServiceNext]_Outside
    BY <1>10 DEF Outside, StopTicker, shared, cycles, Active, Flying, Polling, RefresherInv, TypeOK
  <1>11. ASSUME StopBase PROVE [Service!ServiceNext]_Outside
    BY <1>11 DEF Outside, StopBase, shared, cycles, Active, Flying, Polling, RefresherInv, TypeOK
  <1>12. ASSUME NEW c \in Callers, Win(c) PROVE [Service!ServiceNext]_Outside
    BY <1>12 DEF Outside, Win, shared, cycles, Active, Flying, Polling, RefresherInv, TypeOK
  <1>13. ASSUME Lose PROVE [Service!ServiceNext]_Outside
    BY <1>13 DEF Outside, Lose, shared, cycles, Active, Flying, Polling, RefresherInv, TypeOK
  <1>14. ASSUME NEW c \in Callers, Admit(c) PROVE [Service!ServiceNext]_Outside
    BY <1>14 DEF Outside, Admit, shared, cycles, Active, Flying, Polling, RefresherInv, TypeOK
  <1>15. ASSUME NEW c \in Callers, Refuse(c) PROVE [Service!ServiceNext]_Outside
    BY <1>15 DEF Outside, Refuse, shared, cycles, Active, Flying, Polling, RefresherInv, TypeOK
  <1>16. ASSUME NEW c \in Callers, Undo(c) PROVE [Service!ServiceNext]_Outside
    BY <1>16 DEF Outside, Undo, shared, cycles, Active, Flying, Polling, RefresherInv, TypeOK
  <1>17. ASSUME Tick PROVE [Service!ServiceNext]_Outside
    BY <1>17 DEF Outside, Tick, shared, cycles, Active, Flying, Polling, RefresherInv, TypeOK
  <1>18. ASSUME TickerExit PROVE [Service!ServiceNext]_Outside
    BY <1>18 DEF Outside, TickerExit, shared, cycles, Active, Flying, Polling, RefresherInv, TypeOK
  <1>19. ASSUME NEW i \in Cycles, NEW urls \in SUBSET Feeds, LoadFeeds(i, urls) PROVE [Service!ServiceNext]_Outside
    BY <1>19 DEF Outside, LoadFeeds, shared, cycles, Active, Flying, Polling, RefresherInv, TypeOK
  <1>20. ASSUME NEW i \in Cycles, NEW f \in Feeds, NextFeed(i, f) PROVE [Service!ServiceNext]_Outside
    BY <1>20 DEF Outside, NextFeed, shared, cycles, Active, Flying, Polling, RefresherInv, TypeOK
  <1>21. ASSUME NEW i \in Cycles, Acquire(i) PROVE [Service!ServiceNext]_Outside
    BY <1>21 DEF Outside, Acquire, shared, cycles, Active, Flying, Polling, RefresherInv, TypeOK
  <1>22. ASSUME NEW i \in Cycles, GiveUp(i) PROVE [Service!ServiceNext]_Outside
    BY <1>22 DEF Outside, GiveUp, shared, cycles, Active, Flying, Polling, RefresherInv, TypeOK
  <1>23. ASSUME NEW i \in Cycles, LeaveLoop(i) PROVE [Service!ServiceNext]_Outside
    BY <1>23 DEF Outside, LeaveLoop, shared, cycles, Active, Flying, Polling, RefresherInv, TypeOK
  <1>24. ASSUME NEW i \in Cycles, NEW f \in Feeds, WorkerDone(i, f) PROVE [Service!ServiceNext]_Outside
    BY <1>24 DEF Outside, WorkerDone, shared, cycles, Active, Flying, Polling, RefresherInv, TypeOK
  <1>25. ASSUME NEW i \in Cycles, Drained(i) PROVE [Service!ServiceNext]_Outside
    BY <1>25 DEF Outside, Drained, shared, cycles, Active, Flying, Polling, RefresherInv, TypeOK
  <1>26. ASSUME NEW i \in Cycles, CycleExit(i) PROVE [Service!ServiceNext]_Outside
    BY <1>26 DEF Outside, CycleExit, shared, cycles, Active, Flying, Polling, RefresherInv, TypeOK
  <1>27. ASSUME UNCHANGED vars PROVE [Service!ServiceNext]_Outside
    BY <1>27 DEF Outside, vars, shared, cycles, Active, Flying, Polling
  <1> QED
    BY <1>1, <1>2, <1>3, <1>4, <1>5, <1>6, <1>7, <1>8, <1>9, <1>10,
       <1>11, <1>12, <1>13, <1>14, <1>15, <1>16, <1>17, <1>18, <1>19, <1>20,
       <1>21, <1>22, <1>23, <1>24, <1>25, <1>26, <1>27
       DEF Next, Stop, InTrigger, CycleStep, Worker

\* The Refresher implements RefreshService.
THEOREM RefresherImplementsService == Spec => ImplementsService
  <1>1. Init => Service!ServiceInit
    BY DEF Init, Service!ServiceInit, Flying
  <1> QED BY <1>1, ServiceStep, RefresherInvariant, PTL
    DEF Spec, ImplementsService, Service!ServiceSpec
=============================================================================
