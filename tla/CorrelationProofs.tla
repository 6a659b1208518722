------------------------- MODULE CorrelationProofs -------------------------
(***************************************************************************)
(* Theorems about Correlation, for every number of threads, workers, calls *)
(* and kernels, every flush limit and every batch size: what consumers are *)
(* told, and that the whole program implements GraphTracker, so that the   *)
(* theorems of GraphTrackerProofs are about it too.                        *)
(***************************************************************************)
EXTENDS Correlation, FiniteSetTheorems, TLAPS

USE CycleModAssumption, MaxAgeAssumption, IdsAssumption, BoundsAssumption

-----------------------------------------------------------------------------
(* The increment of a cycle is a cycle.                                    *)
LEMMA NextCycleType == \A c \in Cycles : NextCycle(c) \in Cycles
  BY DEF Cycles, NextCycle

(* The operations of the graph map keep its type and, but for insert and   *)
(* cycle_end, its ids.                                                     *)
LEMMA MapStepType ==
  ASSUME NEW S, NEW m, IsMap(m, S), NEW id, NEW c \in Cycles
  PROVE  /\ id \in S => IsMap(Inserted(m, id, c), S)
         /\ IsMap(CycleStarted(m, c), S)
         /\ IsMap(MarkedSeen(m, id, c), S)
         /\ IsMap(CycleEnded(m, c), S)
  <1>1. c % 2 \in Slots
    BY DEF Cycles, Slots
  <1>2. id \in S => IsMap(Inserted(m, id, c), S)
    <2>1. GraphCorrelationEntry(c) \in Entry
      BY DEF GraphCorrelationEntry, Entry, SlotStates
    <2>2. QED
      BY <2>1 DEF IsMap, Inserted
  <1>3. IsMap(CycleStarted(m, c), S)
    BY <1>1 DEF IsMap, CycleStarted, Entry, SlotStates
  <1>4. IsMap(MarkedSeen(m, id, c), S)
    BY <1>1 DEF IsMap, MarkedSeen, Entry, SlotStates
  <1>5. IsMap(CycleEnded(m, c), S)
    BY DEF IsMap, CycleEnded
  <1>6. QED
    BY <1>2, <1>3, <1>4, <1>5

-----------------------------------------------------------------------------
(* A step of one thread keeps the threads' type if its new state has it.   *)
ThreadsOK ==
  /\ thread \in [Threads -> ThreadType]
  /\ \A t \in Threads : thread[t].pc # "idle" => thread[t].id \in Ids

(* Replacing the state of one thread keeps the type. *)
LEMMA ThreadStepType ==
  ASSUME ThreadsOK, NEW t \in Threads, NEW v \in ThreadType,
         v.pc # "idle" => v.id \in Ids, thread' = [thread EXCEPT ![t] = v]
  PROVE  ThreadsOK'
  BY DEF ThreadsOK

(* Going on to another program counter keeps the type. *)
LEMMA MoveType ==
  ASSUME ThreadsOK, NEW t \in Threads, thread[t].pc # "idle",
         NEW pc \in ThreadPCs, thread' = [thread EXCEPT ![t].pc = pc]
  PROVE  ThreadsOK'
  <1>1. [thread[t] EXCEPT !.pc = pc] \in ThreadType
    BY DEF ThreadsOK, ThreadType
  <1>2. QED
    BY <1>1, ThreadStepType DEF ThreadsOK, ThreadType

(* Returning from a call keeps the type. *)
LEMMA ReturnsType ==
  ASSUME ThreadsOK, NEW t \in Threads, thread[t].pc # "idle", Returns(t)
  PROVE  ThreadsOK'
  <1>1. Idle \in ThreadType /\ Idle.pc = "idle"
    BY DEF Idle, ThreadType, ThreadPCs
  <1>2. thread[t] \in ThreadType
    BY DEF ThreadsOK
  <1>3. CASE thread[t].nested
    <2> DEFINE v == [thread[t] EXCEPT !.pc = "runtime", !.nested = FALSE]
    <2>1. v \in ThreadType /\ v.id = thread[t].id
      BY ONLY <1>2 DEF ThreadType, ThreadPCs
    <2>2. thread' = [thread EXCEPT ![t] = v]
      BY <1>3 DEF Returns
    <2>3. QED
      BY <1>2, <2>1, <2>2, ThreadStepType DEF ThreadsOK
  <1>4. CASE ~thread[t].nested
    <2>1. thread' = [thread EXCEPT ![t] = Idle]
      BY <1>4 DEF Returns
    <2>2. QED
      BY <1>1, <2>1, ThreadStepType
  <1>5. QED
    BY <1>3, <1>4

(* What the two ways a thread moves do to the fields the invariants read.  *)
LEMMA MoveView ==
  ASSUME ThreadsOK, NEW t \in Threads, NEW pc \in ThreadPCs,
         thread' = [thread EXCEPT ![t].pc = pc]
  PROVE  /\ \A u \in Threads \ {t} : thread'[u] = thread[u]
         /\ thread'[t].pc = pc
         /\ thread'[t].id = thread[t].id
         /\ thread'[t].nested <=> thread[t].nested
         /\ thread'[t].launched <=> thread[t].launched
  BY DEF ThreadsOK, ThreadType

(* What returning from a call does, field by field. *)
LEMMA ReturnsView ==
  ASSUME ThreadsOK, NEW t \in Threads, Returns(t)
  PROVE  /\ \A u \in Threads \ {t} : thread'[u] = thread[u]
         /\ ~thread'[t].nested
         /\ thread[t].nested => /\ thread'[t].pc = "runtime"
                                /\ thread'[t].id = thread[t].id
                                /\ thread'[t].launched <=> thread[t].launched
         /\ ~thread[t].nested => thread'[t].pc = "idle"
  <1>1. CASE thread[t].nested
    BY <1>1 DEF ThreadsOK, ThreadType, Returns
  <1>2. CASE ~thread[t].nested
    <2>1. thread' = [thread EXCEPT ![t] = Idle]
      BY <1>2 DEF Returns
    <2>2. QED
      BY <1>2, <2>1 DEF ThreadsOK, Idle
  <1>3. QED
    BY <1>1, <1>2

(* What a buffer thread writes at a record, and when it goes on, keeps its *)
(* type.                                                                   *)
LEMMA WorkerStepType ==
  ASSUME NEW me \in WorkerType, NEW pc \in WorkerPCs, NEW T, NEW n \in Nat,
         T \subseteq me.todo
  PROVE  /\ [me EXCEPT !.todo = T, !.batchCount = n] \in WorkerType
         /\ [me EXCEPT !.pc = pc, !.batchCount = n] \in WorkerType
         /\ [me EXCEPT !.pc = pc] \in WorkerType
  <1>1. [me EXCEPT !.todo = T, !.batchCount = n] \in WorkerType
    BY DEF WorkerType
  <1>2. [me EXCEPT !.pc = pc, !.batchCount = n] \in WorkerType
    BY DEF WorkerType
  <1>3. [me EXCEPT !.pc = pc] \in WorkerType
    BY DEF WorkerType
  <1>4. QED
    BY <1>1, <1>2, <1>3

(* Every step keeps the types. *)
LEMMA TypeStep == TypeOK /\ [Next]_vars => TypeOK'
  <1> SUFFICES ASSUME TypeOK, [Next]_vars PROVE TypeOK'
    OBVIOUS
  <1> USE DEF TypeOK
  <1>1. ThreadsOK
    BY DEF ThreadsOK
  <1>2. \A t \in Threads : thread[t] \in ThreadType
    OBVIOUS
  <1>3. ASSUME NEW t \in Threads, NEW id \in Ids, RuntimeEnter(t, id)
        PROVE  TypeOK'
    <2>1. [thread[t] EXCEPT !.pc = "runtime", !.id = id] \in ThreadType
      BY ONLY <1>2, id \in Ids DEF ThreadType, ThreadPCs
    <2>2. ThreadsOK'
      <3>1. thread' = [thread EXCEPT ![t] = [thread[t] EXCEPT !.pc = "runtime", !.id = id]]
        BY <1>3 DEF RuntimeEnter
      <3>2. [thread[t] EXCEPT !.pc = "runtime", !.id = id].id = id
        BY DEF ThreadType
      <3>3. QED
        BY <1>1, <2>1, <3>1, <3>2, ThreadStepType
    <2>3. QED
      BY <1>3, <2>2 DEF RuntimeEnter, ThreadsOK, bufVars, history
  <1>4. ASSUME NEW t \in Threads, NEW id \in Ids, NEW k \in 0 .. MaxKernels,
               NEW nested \in BOOLEAN, Launch(t, id, k, nested),
               fresh' \subseteq Ids
        PROVE  TypeOK'
    <2>1. running' \subseteq Records
      BY <1>4 DEF Launch, Records
    <2>2. window' \in [Threads -> BOOLEAN]
      BY <1>4 DEF Launch
    <2>3. ThreadsOK'
      <3> DEFINE v == [thread[t] EXCEPT !.pc = "driver", !.id = id, !.nested = nested,
                                        !.launched = TRUE]
      <3>1. "driver" \in ThreadPCs
        BY DEF ThreadPCs
      <3>2. v \in ThreadType
        BY ONLY <1>2, <3>1, id \in Ids DEF ThreadType
      <3>3. v.id = id
        BY DEF ThreadType
      <3>4. thread' = [thread EXCEPT ![t] = v]
        BY <1>4 DEF Launch
      <3>5. QED
        BY <1>1, <3>2, <3>3, <3>4, ThreadStepType
    <2>4. QED
      BY <1>4, <2>1, <2>2, <2>3 DEF Launch, ThreadsOK, bufVars, history
  <1>5. ASSUME NEW t \in Threads, NEW id \in Ids, NEW k \in 0 .. MaxKernels,
               DriverEnter(t, id, k)
        PROVE  TypeOK'
    BY <1>4, <1>5 DEF DriverEnter
  <1>6. ASSUME NEW t \in Threads, NEW k \in 0 .. MaxKernels,
               NestedDriverEnter(t, k)
        PROVE  TypeOK'
    BY <1>4, <1>6 DEF NestedDriverEnter
  <1>7. ASSUME NEW t \in Threads, thread[t].pc # "idle", Admit(t)
        PROVE  ThreadsOK'
    BY <1>1, <1>7, MoveType, ReturnsType DEF Admit, ThreadPCs
  <1>8. ASSUME NEW t \in Threads, DriverExit(t) PROVE TypeOK'
    <2>1. window' \in [Threads -> BOOLEAN]
      BY <1>8 DEF DriverExit, WindowAfterExit
    <2>2. ThreadsOK'
      <3>1. CASE Admit(t)
        BY <1>7, <1>8, <3>1 DEF DriverExit
      <3>2. CASE Returns(t)
        BY <1>1, <1>8, <3>2, ReturnsType DEF DriverExit
      <3>3. QED
        BY <1>8, <3>1, <3>2 DEF DriverExit
    <2>3. QED
      BY <1>8, <2>1, <2>2
      DEF DriverExit, ThreadsOK, ExitUnchanged, bufVars, gpuVars, history
  <1>9. ASSUME NEW t \in Threads, RuntimeExit(t) PROVE TypeOK'
    <2>1. window' \in [Threads -> BOOLEAN]
      BY <1>9 DEF RuntimeExit, WindowAfterExit
    <2>2. ThreadsOK'
      <3>1. CASE Admit(t)
        BY <1>7, <1>9, <3>1 DEF RuntimeExit
      <3>2. CASE Returns(t)
        BY <1>1, <1>9, <3>2, ReturnsType DEF RuntimeExit
      <3>3. QED
        BY <1>9, <3>1, <3>2 DEF RuntimeExit
    <2>3. QED
      BY <1>9, <2>1, <2>2
      DEF RuntimeExit, ThreadsOK, ExitUnchanged, bufVars, gpuVars, history
  <1>11. ASSUME NEW t \in Threads, Load(t) PROVE TypeOK'
    <2> DEFINE v == [thread[t] EXCEPT !.pc = "store", !.tmp = outstandingEvents]
    <2>1. v \in ThreadType /\ v.id = thread[t].id
      BY ONLY <1>2, outstandingEvents \in Nat DEF ThreadType, ThreadPCs
    <2>2. ThreadsOK'
      <3>1. thread' = [thread EXCEPT ![t] = v]
        BY <1>11 DEF Load
      <3>2. v.id \in Ids
        BY <1>11, <2>1 DEF Load
      <3>3. QED
        BY <1>1, <2>1, <3>1, <3>2, ThreadStepType
    <2>3. outstandingEvents' \in Nat
      BY <1>11 DEF Load, ThreadType
    <2>4. QED
      BY <1>11, <2>2, <2>3 DEF Load, ThreadsOK, bufVars, gpuVars, history
  <1>12. ASSUME NEW t \in Threads, Store(t) PROVE TypeOK'
    <2> DEFINE v == [thread[t] EXCEPT !.pc = "probe", !.tmp = 0]
    <2>1. v \in ThreadType /\ v.id = thread[t].id
      BY ONLY <1>2, outstandingEvents \in Nat DEF ThreadType, ThreadPCs
    <2>2. ThreadsOK'
      <3>1. thread' = [thread EXCEPT ![t] = v]
        BY <1>12 DEF Store
      <3>2. v.id \in Ids
        BY <1>12, <2>1 DEF Store
      <3>3. QED
        BY <1>1, <2>1, <3>1, <3>2, ThreadStepType
    <2>3. outstandingEvents' \in Nat
      BY <1>12 DEF Store, ThreadType
    <2>4. QED
      BY <1>12, <2>2, <2>3 DEF Store, ThreadsOK, bufVars, gpuVars, history
  <1>13. ASSUME NEW t \in Threads, Probe(t) PROVE TypeOK'
    <2>1. ThreadsOK'
      BY <1>1, <1>13, MoveType DEF Probe, Moves, ThreadPCs
    <2>2. probed' \in [Ids -> Nat]
      <3>1. thread[t].id \in Ids /\ probed[thread[t].id] \in Nat
        BY <1>13 DEF Probe, Moves
      <3>2. QED
        BY <1>13, <3>1 DEF Probe
    <2>3. QED
      BY <1>13, <2>1, <2>2 DEF Probe, ThreadsOK, bufVars, gpuVars
  <1>14. ASSUME NEW t \in Threads, Insert(t) PROVE TypeOK'
    <2>1. thread[t].id \in Ids
      BY <1>14 DEF Insert, Moves
    <2>2. IsMap(map', GraphIds) /\ filter' \subseteq PlainIds
      <3>1. CASE thread[t].id \in GraphIds
        BY <1>14, <3>1, MapStepType DEF Insert
      <3>2. CASE thread[t].id \notin GraphIds
        BY <1>14, <2>1, <3>2 DEF Insert, Ids
      <3>3. QED
        BY <3>1, <3>2
    <2>3. ThreadsOK'
      BY <1>1, <1>14, MoveType DEF Insert, Moves, ThreadPCs
    <2>4. QED
      BY <1>14, <2>2, <2>3 DEF Insert, ThreadsOK, gpuVars, history
  <1>15. ASSUME NEW t \in Threads, CheckFlush(t) PROVE TypeOK'
    <2>1. ThreadsOK'
      BY <1>1, <1>15, MoveType, ReturnsType DEF CheckFlush, ThreadPCs
    <2>2. QED
      BY <1>15, <2>1 DEF CheckFlush, ThreadsOK, bufVars, gpuVars, history
  <1>16. ASSUME NEW t \in Threads, FlushAll(t) PROVE TypeOK'
    <2>1. ThreadsOK'
      BY <1>1, <1>16, ReturnsType DEF FlushAll
    <2>2. QED
      BY <1>16, <2>1 DEF FlushAll, ThreadsOK, bufVars, gpuVars, history
  <1>17. ASSUME NEW w \in Workers, NEW todo \in SUBSET recorded, FetchCycle(w, todo)
         PROVE  TypeOK'
    BY <1>17, NextCycleType
    DEF FetchCycle, WorkerType, WorkerPCs, appVars, history
  <1>18. ASSUME NEW w \in Workers, CycleStart(w) PROVE TypeOK'
    <2>1. worker[w].cycle \in Cycles
      BY DEF WorkerType
    <2>2. IsMap(map', GraphIds)
      BY <1>18, <2>1, MapStepType DEF CycleStart
    <2>3. begun' \in [GraphIds -> 0 .. (MaxAge + 1)]
      BY <1>18 DEF CycleStart, OneMoreBegun
    <2>4. QED
      BY <1>18, <2>1, <2>2, <2>3
      DEF CycleStart, WorkerType, WorkerPCs, appVars, gpuVars
  <1>19. ASSUME NEW w \in Workers, NEW r \in worker[w].todo, FilterRecord(w, r)
         PROVE  TypeOK'
    BY <1>19 DEF FilterRecord, WorkerType, WorkerPCs, appVars, gpuVars, history
  <1>20. ASSUME NEW w \in Workers, NEW r \in worker[w].todo, EmitRecord(w, r)
         PROVE  TypeOK'
    <2>1. worker[w].cycle \in Cycles /\ r \in Records
      BY DEF WorkerType
    <2>2. IsMap(map', GraphIds)
      BY <1>20, <2>1, MapStepType DEF EmitRecord
    <2>3. worker' \in [Workers -> WorkerType]
      <3>1. BatchCountAfter(worker[w].batchCount) \in Nat
        BY DEF BatchCountAfter, WorkerType
      <3>2. [worker[w] EXCEPT !.todo = @ \ {r},
                              !.batchCount = BatchCountAfter(@)] \in WorkerType
        BY <3>1, WorkerStepType DEF WorkerPCs
      <3>3. QED
        BY <1>20, <3>2 DEF EmitRecord
    <2>4. filter' \subseteq PlainIds /\ executed' \subseteq Records
      BY <1>20, <2>1 DEF EmitRecord
    <2>5. /\ correlation' = correlation /\ thread' = thread
          /\ runtimeEnter' = runtimeEnter /\ window' = window
          /\ outstandingEvents' = outstandingEvents /\ probed' = probed
          /\ current_cycle' = current_cycle /\ g_bufferCycle' = g_bufferCycle
          /\ fresh' = fresh /\ running' = running /\ recorded' = recorded
          /\ begun' = begun
      BY <1>20 DEF EmitRecord, appVars, gpuVars
    <2>6. QED
      BY <2>2, <2>3, <2>4, <2>5
  <1>21. ASSUME NEW w \in Workers, SendRest(w) PROVE TypeOK'
    <2>1. [worker[w] EXCEPT !.pc = "ending", !.batchCount = 0] \in WorkerType
      BY WorkerStepType DEF WorkerPCs
    <2>2. worker' \in [Workers -> WorkerType]
      BY <1>21, <2>1 DEF SendRest
    <2>3. QED
      BY <1>21, <2>2 DEF SendRest, appVars, gpuVars, history
  <1>22. ASSUME NEW w \in Workers, CycleEnd(w) PROVE TypeOK'
    <2>1. IsMap(map', GraphIds)
      BY <1>22, MapStepType DEF CycleEnd
    <2>2. QED
      BY <1>22, <2>1 DEF CycleEnd, WorkerType, WorkerPCs, appVars, gpuVars, history
  <1>23. ASSUME NEW w \in Workers, ResetOutstanding(w) PROVE TypeOK'
    <2>1. [worker[w] EXCEPT !.pc = "idle"] \in WorkerType
      BY WorkerStepType DEF WorkerPCs
    <2>2. worker' \in [Workers -> WorkerType]
      BY <1>23, <2>1 DEF ResetOutstanding
    <2>3. QED
      BY <1>23, <2>2 DEF ResetOutstanding, appVars, gpuVars, history
  <1>24. CASE ToggleConsumer
    BY <1>24 DEF ToggleConsumer, appVars, bufVars, gpuVars, history
  <1>25. ASSUME NEW r \in running, KernelEnds(r) PROVE TypeOK'
    BY <1>25 DEF KernelEnds, appVars, bufVars, history
  <1>26. CASE UNCHANGED vars
    BY <1>26 DEF vars, appVars, bufVars, gpuVars, history
  <1>27. QED
    BY <1>3, <1>5, <1>6, <1>8, <1>9, <1>11, <1>12, <1>13, <1>14,
       <1>15, <1>17, <1>18, <1>19, <1>20, <1>21, <1>22, <1>23, <1>24, <1>25,
       <1>26, <1>16 DEF Next

(* Type correctness.                                                       *)
THEOREM TypeCorrect == Spec => []TypeOK
  <1>1. Init => TypeOK
    <2> SUFFICES ASSUME Init PROVE TypeOK
      OBVIOUS
    <2>1. Idle \in ThreadType /\ Idle.pc = "idle"
      BY DEF Idle, ThreadType, ThreadPCs
    <2>2. 0 \in Cycles
      BY CycleModAssumption, MaxAgeAssumption DEF Cycles
    <2>3. [pc |-> "idle", cycle |-> 0, todo |-> {}, batchCount |-> 0] \in WorkerType
      BY <2>2 DEF WorkerType, WorkerPCs
    <2>4. IsMap(map, GraphIds)
      BY DEF Init, IsMap
    <2>5. QED
      BY <2>1, <2>2, <2>3, <2>4 DEF Init, TypeOK
  <1>2. QED
    BY <1>1, TypeStep, PTL DEF Spec

-----------------------------------------------------------------------------
(* Where the threads on their way to the flush check are.                  *)
FlushPath == {"probe", "insert", "check", "flush"}

(* Flushing is never forgotten, for any number of threads and any limit.   *)
(* The property is inductive as it stands.                                 *)
THEOREM FlushIsComing == Spec => []FlushComes
  <1>1. Init => FlushComes
    BY DEF Init, FlushComes
  <1>2. TypeOK /\ FlushComes /\ [Next]_vars => FlushComes'
    <2> SUFFICES ASSUME TypeOK, FlushComes, [Next]_vars,
                        outstandingEvents' > FlushLimit
                 PROVE  \E t \in Threads : thread'[t].pc \in FlushPath
      BY DEF FlushComes, FlushPath
    <2>1. thread \in [Threads -> ThreadType]
      BY DEF TypeOK
    <2>2. ASSUME NEW t \in Threads, Store(t) \/ Probe(t) \/ Insert(t)
          PROVE  thread'[t].pc \in FlushPath
      BY <2>1, <2>2 DEF Store, Probe, Insert, Moves, FlushPath, ThreadType
    <2>3. ASSUME NEW t \in Threads, CheckFlush(t)
          PROVE  thread'[t].pc \in FlushPath
      BY <2>1, <2>3 DEF CheckFlush, FlushPath, ThreadType
    <2>4. ASSUME NEW t \in Threads, FlushAll(t) PROVE FALSE
      BY <2>4 DEF FlushAll
    <2>5. ASSUME NEW w \in Workers, ResetOutstanding(w) PROVE FALSE
      BY <2>5 DEF ResetOutstanding
    <2>6. ASSUME outstandingEvents' = outstandingEvents,
                 \A u \in Threads : thread[u].pc \in FlushPath
                                      => thread'[u] = thread[u]
          PROVE  \E t \in Threads : thread'[t].pc \in FlushPath
      BY <2>6 DEF FlushComes, FlushPath
    <2>7. ASSUME NEW t \in Threads, NEW id \in Ids,
                 RuntimeEnter(t, id) \/ \E k \in 0 .. MaxKernels : DriverEnter(t, id, k)
          PROVE  \E u \in Threads : thread'[u].pc \in FlushPath
      BY <2>1, <2>6, <2>7 DEF RuntimeEnter, DriverEnter, Launch, FlushPath
    <2>8. ASSUME NEW t \in Threads, NEW k \in 0 .. MaxKernels,
                 NestedDriverEnter(t, k)
          PROVE  \E u \in Threads : thread'[u].pc \in FlushPath
      BY <2>1, <2>6, <2>8 DEF NestedDriverEnter, Launch, FlushPath
    <2>9. ASSUME NEW t \in Threads, DriverExit(t) \/ RuntimeExit(t)
          PROVE  \E u \in Threads : thread'[u].pc \in FlushPath
      BY <2>1, <2>6, <2>9
      DEF DriverExit, RuntimeExit, Admit, Returns, ExitUnchanged, FlushPath
    <2>10. ASSUME NEW t \in Threads, Load(t)
           PROVE  \E u \in Threads : thread'[u].pc \in FlushPath
      BY <2>1, <2>6, <2>10 DEF Load, FlushPath
    <2>11. ASSUME NEW w \in Workers,
                  \/ \E todo \in SUBSET recorded : FetchCycle(w, todo)
                  \/ CycleStart(w) \/ SendRest(w) \/ CycleEnd(w)
                  \/ \E r \in worker[w].todo : FilterRecord(w, r) \/ EmitRecord(w, r)
           PROVE  \E u \in Threads : thread'[u].pc \in FlushPath
      BY <2>6, <2>11
      DEF FetchCycle, CycleStart, SendRest, CycleEnd, FilterRecord, EmitRecord, appVars
    <2>12. CASE ToggleConsumer \/ (\E r \in running : KernelEnds(r)) \/ UNCHANGED vars
      BY <2>6, <2>12 DEF ToggleConsumer, KernelEnds, vars, appVars
    <2>13. QED
      BY <2>2, <2>3, <2>4, <2>5, <2>7, <2>8, <2>9, <2>10, <2>11, <2>12 DEF Next
  <1>3. QED
    BY <1>1, <1>2, TypeCorrect, PTL DEF Spec

(* No batch pointer outlives the loop over its buffer, for every batch     *)
(* size and any number of workers.  The property is inductive as it stands.*)
THEOREM BatchesAreSent == Spec => []BatchesSent
  <1>1. Init => BatchesSent
    BY DEF Init, BatchesSent
  <1>2. TypeOK /\ BatchesSent /\ [Next]_vars => BatchesSent'
    <2> SUFFICES ASSUME TypeOK, BatchesSent, [Next]_vars, NEW w \in Workers
                 PROVE  BatchesSent!(w)'
      BY DEF BatchesSent
    <2>1. worker \in [Workers -> WorkerType]
      BY DEF TypeOK
    <2>2. ASSUME NEW x \in Workers, NEW todo \in SUBSET recorded, FetchCycle(x, todo)
          PROVE  BatchesSent!(w)'
      BY <2>1, <2>2 DEF FetchCycle, BatchesSent, WorkerType
    <2>3. ASSUME NEW x \in Workers,
                 CycleStart(x) \/ SendRest(x) \/ CycleEnd(x) \/ ResetOutstanding(x)
          PROVE  BatchesSent!(w)'
      BY <2>1, <2>3
      DEF CycleStart, SendRest, CycleEnd, ResetOutstanding, BatchesSent, WorkerType
    <2>4. ASSUME NEW x \in Workers, NEW r \in worker[x].todo, FilterRecord(x, r)
          PROVE  BatchesSent!(w)'
      BY <2>1, <2>4 DEF FilterRecord, BatchesSent, WorkerType
    <2>5. ASSUME NEW x \in Workers, NEW r \in worker[x].todo, EmitRecord(x, r)
          PROVE  BatchesSent!(w)'
      <3>1. BatchCountAfter(worker[x].batchCount) < BatchSize
        BY <2>1, <2>5 DEF BatchCountAfter, WorkerType
      <3>2. QED
        BY <2>1, <2>5, <3>1 DEF EmitRecord, BatchesSent, WorkerType
    <2>6. CASE worker' = worker
      BY <2>6 DEF BatchesSent
    <2>7. ASSUME NEW t \in Threads,
                 \/ \E id \in Ids : RuntimeEnter(t, id)
                 \/ \E id \in Ids, k \in 0 .. MaxKernels : DriverEnter(t, id, k)
                 \/ \E k \in 0 .. MaxKernels : NestedDriverEnter(t, k)
                 \/ DriverExit(t) \/ RuntimeExit(t) \/ Load(t)
                 \/ Store(t) \/ Probe(t) \/ Insert(t) \/ CheckFlush(t) \/ FlushAll(t)
          PROVE  worker' = worker
      BY <2>7
      DEF RuntimeEnter, DriverEnter, NestedDriverEnter, Launch, DriverExit,
          RuntimeExit, ExitUnchanged, Load, Store, Probe, Insert,
          CheckFlush, FlushAll, bufVars
    <2>8. ToggleConsumer \/ (\E r \in running : KernelEnds(r)) \/ UNCHANGED vars
            => worker' = worker
      BY DEF ToggleConsumer, KernelEnds, vars, bufVars
    <2>9. QED
      BY <2>2, <2>3, <2>4, <2>5, <2>6, <2>7, <2>8 DEF Next
  <1>3. QED
    BY <1>1, <1>2, TypeCorrect, PTL DEF Spec

-----------------------------------------------------------------------------
(***************************************************************************)
(* A launch is announced once.  That no second probe comes needs more than *)
(* the property: two threads never carry the same id, an id is announced   *)
(* only at the probe of the thread that carries it, and a driver call      *)
(* under a runtime call always finds that call's id in                     *)
(* runtimeEnterCorrelationId, so only the runtime call goes on.            *)
(***************************************************************************)
Busy(t) == thread[t].pc # "idle"

BeforeProbe == {"runtime", "driver", "load", "store", "probe"}

IdsAreUsedOnce ==
  /\ \A t \in Threads : Busy(t) => thread[t].id \notin fresh
  /\ \A t, u \in Threads : t # u /\ Busy(t) /\ Busy(u) => thread[t].id # thread[u].id

NestedUnderRuntime ==
  \A t \in Threads :
    /\ thread[t].pc = "runtime" \/ thread[t].nested => runtimeEnter[t] = thread[t].id
    /\ thread[t].nested => thread[t].pc = "driver"

NotYetProbed ==
  /\ \A id \in fresh : probed[id] = 0
  /\ \A t \in Threads : thread[t].pc \in BeforeProbe => probed[thread[t].id] = 0

(* An id belongs to one call, which probes it once, at its outermost EXIT. *)
AnnounceInv == IdsAreUsedOnce /\ NestedUnderRuntime /\ NotYetProbed /\ AnnouncedOnce

(***************************************************************************)
(* A step of one thread that goes on with its call or returns from it, and *)
(* does not itself announce.                                               *)
(***************************************************************************)
LEMMA CallGoesOn ==
  ASSUME TypeOK, AnnounceInv, NEW t \in Threads, Busy(t),
         \A u \in Threads \ {t} : /\ thread'[u] = thread[u]
                                  /\ runtimeEnter'[u] = runtimeEnter[u],
         thread'[t].pc # "idle" => thread'[t].id = thread[t].id,
         thread'[t].nested => thread'[t].pc = "driver",
         thread'[t].pc = "runtime" \/ thread'[t].nested =>
           /\ thread[t].pc = "runtime" \/ thread[t].nested
           /\ runtimeEnter'[t] = runtimeEnter[t],
         thread'[t].pc \in BeforeProbe => thread[t].pc \in BeforeProbe,
         fresh' = fresh, probed' = probed
  PROVE  AnnounceInv'
  <1>1. IdsAreUsedOnce'
    BY DEF AnnounceInv, IdsAreUsedOnce, Busy
  <1>2. NestedUnderRuntime'
    BY DEF AnnounceInv, NestedUnderRuntime, Busy
  <1>3. NotYetProbed' /\ AnnouncedOnce'
    BY DEF AnnounceInv, NotYetProbed, AnnouncedOnce, Busy, BeforeProbe
  <1>4. QED
    BY <1>1, <1>2, <1>3 DEF AnnounceInv

(* A step of an idle thread that takes a fresh id.                         *)
LEMMA CallBegins ==
  ASSUME TypeOK, AnnounceInv, NEW t \in Threads, NEW id \in fresh, ~Busy(t),
         \A u \in Threads \ {t} : /\ thread'[u] = thread[u]
                                  /\ runtimeEnter'[u] = runtimeEnter[u],
         thread'[t].id = id,
         \/ thread'[t].pc = "runtime" /\ runtimeEnter'[t] = id
         \/ thread'[t].pc = "driver",
         ~thread'[t].nested,
         fresh' = fresh \ {id}, probed' = probed
  PROVE  AnnounceInv'
  <1>1. IdsAreUsedOnce'
    BY DEF AnnounceInv, IdsAreUsedOnce, Busy
  <1>2. NestedUnderRuntime'
    BY DEF AnnounceInv, NestedUnderRuntime, Busy
  <1>3. NotYetProbed' /\ AnnouncedOnce'
    BY DEF AnnounceInv, NotYetProbed, AnnouncedOnce, Busy, BeforeProbe
  <1>4. QED
    BY <1>1, <1>2, <1>3 DEF AnnounceInv

(* A step that leaves the calls and the probes alone keeps AnnounceInv. *)
LEMMA AnnounceUnchanged ==
  ASSUME AnnounceInv,
         thread' = thread, runtimeEnter' = runtimeEnter, fresh' = fresh, probed' = probed
  PROVE  AnnounceInv'
  BY DEF AnnounceInv, IdsAreUsedOnce, NestedUnderRuntime, NotYetProbed,
         AnnouncedOnce, Busy

(* Every step keeps AnnounceInv. *)
LEMMA AnnounceStep == TypeOK /\ AnnounceInv /\ [Next]_vars => AnnounceInv'
  <1> SUFFICES ASSUME TypeOK, AnnounceInv, [Next]_vars PROVE AnnounceInv'
    OBVIOUS
  <1>1. /\ ThreadsOK
        /\ thread \in [Threads -> ThreadType]
        /\ runtimeEnter \in [Threads -> Ids \cup {NoId}]
        /\ \A t \in Threads : thread[t].nested => thread[t].pc = "driver"
    BY DEF TypeOK, ThreadsOK, AnnounceInv, NestedUnderRuntime
  <1>2. ASSUME NEW t \in Threads, NEW id \in Ids, RuntimeEnter(t, id)
        PROVE  AnnounceInv'
    <2>1. /\ thread'[t].id = id /\ thread'[t].pc = "runtime"
          /\ runtimeEnter'[t] = id
          /\ thread'[t].nested <=> thread[t].nested
      BY <1>1, <1>2 DEF RuntimeEnter, ThreadType
    <2>2. ~thread[t].nested
      BY <1>1, <1>2 DEF RuntimeEnter
    <2>3. QED
      BY <1>1, <1>2, <2>1, <2>2, CallBegins DEF RuntimeEnter, Busy, history
  <1>3. ASSUME NEW t \in Threads, NEW id \in Ids, NEW k \in 0 .. MaxKernels,
               DriverEnter(t, id, k)
        PROVE  AnnounceInv'
    <2>1. thread'[t].id = id /\ thread'[t].pc = "driver" /\ ~thread'[t].nested
      BY <1>1, <1>3 DEF DriverEnter, Launch, ThreadType
    <2>2. QED
      BY <1>1, <1>3, <2>1, CallBegins DEF DriverEnter, Launch, Busy, history
  <1>4. ASSUME NEW t \in Threads, NEW k \in 0 .. MaxKernels, NestedDriverEnter(t, k)
        PROVE  AnnounceInv'
    <2>1. thread'[t].id = thread[t].id /\ thread'[t].pc = "driver"
      BY <1>1, <1>4 DEF NestedDriverEnter, Launch, ThreadType
    <2>2. QED
      BY <1>1, <1>4, <2>1, CallGoesOn
      DEF NestedDriverEnter, Launch, Busy, BeforeProbe, history
  <1>5. ASSUME NEW t \in Threads, DriverExit(t) PROVE AnnounceInv'
    <2>1. thread[t].nested => thread[t].id = runtimeEnter[t]
      BY DEF AnnounceInv, NestedUnderRuntime
    <2>2. CASE Returns(t)
      BY <1>1, <1>5, <2>2, ReturnsView, CallGoesOn
      DEF DriverExit, ExitUnchanged, Busy, BeforeProbe, gpuVars, history
    <2>3. CASE thread' = [thread EXCEPT ![t].pc = "load"] /\ ~thread[t].nested
      BY <1>1, <1>5, <2>3, MoveView, CallGoesOn
      DEF DriverExit, ExitUnchanged, Busy, BeforeProbe, ThreadPCs, gpuVars, history
    <2>4. QED
      BY <1>5, <2>1, <2>2, <2>3 DEF DriverExit, Admit
  <1>6. ASSUME NEW t \in Threads, RuntimeExit(t) PROVE AnnounceInv'
    <2>1. \A u \in Threads \ {t} : runtimeEnter'[u] = runtimeEnter[u]
      BY <1>1, <1>6 DEF RuntimeExit
    <2>2. ~thread[t].nested
      BY <1>1, <1>6 DEF RuntimeExit
    <2>3. CASE Returns(t)
      BY <1>1, <1>6, <2>1, <2>2, <2>3, ReturnsView, CallGoesOn
      DEF RuntimeExit, ExitUnchanged, Busy, BeforeProbe, gpuVars, history
    <2>4. CASE thread' = [thread EXCEPT ![t].pc = "load"]
      <3>1. /\ \A u \in Threads \ {t} : thread'[u] = thread[u]
            /\ thread'[t].pc = "load" /\ thread'[t].id = thread[t].id
            /\ ~thread'[t].nested
        BY <1>1, <2>2, <2>4, MoveView DEF ThreadPCs
      <3>2. QED
        BY <1>6, <2>1, <3>1, CallGoesOn
        DEF RuntimeExit, ExitUnchanged, Busy, BeforeProbe, gpuVars, history
    <2>5. QED
      BY <1>6, <2>3, <2>4 DEF RuntimeExit, Admit
  <1>7. ASSUME NEW t \in Threads, CheckFlush(t) \/ FlushAll(t)
        PROVE  AnnounceInv'
    <2>1. thread[t].pc \in {"check", "flush"} /\ ~thread[t].nested
      BY <1>1, <1>7 DEF CheckFlush, FlushAll
    <2>2. CASE Returns(t)
      BY <1>1, <1>7, <2>1, <2>2, ReturnsView, CallGoesOn
      DEF CheckFlush, FlushAll, Busy, BeforeProbe, gpuVars, history
    <2>3. CASE thread' = [thread EXCEPT ![t].pc = "flush"]
      BY <1>1, <1>7, <2>1, <2>3, MoveView, CallGoesOn
      DEF CheckFlush, FlushAll, Busy, BeforeProbe, ThreadPCs, gpuVars, history
    <2>4. QED
      BY <1>7, <2>2, <2>3 DEF CheckFlush, FlushAll
  <1>8. ASSUME NEW t \in Threads, Load(t) \/ Store(t) PROVE AnnounceInv'
    <2>1. /\ \A u \in Threads \ {t} : thread'[u] = thread[u]
          /\ thread'[t].id = thread[t].id
          /\ thread'[t].pc \in {"store", "probe"}
          /\ thread'[t].nested <=> thread[t].nested
      BY <1>1, <1>8 DEF Load, Store, ThreadType
    <2>2. thread[t].pc \in {"load", "store"} /\ ~thread[t].nested
      BY <1>1, <1>8 DEF Load, Store
    <2>3. QED
      BY <1>8, <2>1, <2>2, CallGoesOn
      DEF Load, Store, Busy, BeforeProbe, gpuVars, history
  <1>9. ASSUME NEW t \in Threads, Probe(t) PROVE AnnounceInv'
    <2>1. /\ thread[t].id \in Ids
          /\ probed[thread[t].id] = 0
          /\ thread[t].id \notin fresh
          /\ \A u \in Threads \ {t} : Busy(u) => thread[u].id # thread[t].id
      BY <1>9 DEF Probe, Moves, TypeOK, AnnounceInv, NotYetProbed, BeforeProbe,
                  IdsAreUsedOnce, Busy
    <2>2. /\ \A u \in Threads \ {t} : thread'[u] = thread[u]
          /\ thread'[t].pc = "insert"
          /\ thread'[t].id = thread[t].id
          /\ ~thread[t].nested /\ ~thread'[t].nested
      BY <1>1, <1>9, MoveView DEF Probe, Moves, ThreadPCs
    <2>3. \A id \in Ids : probed'[id] = IF id = thread[t].id THEN 1 ELSE probed[id]
      BY <1>9, <2>1 DEF Probe, TypeOK
    <2>4. IdsAreUsedOnce' /\ NestedUnderRuntime'
      BY <1>9, <2>2 DEF Probe, Moves, AnnounceInv, IdsAreUsedOnce, NestedUnderRuntime,
                        Busy, gpuVars
    <2>5. NotYetProbed'
      <3>1. fresh' = fresh /\ fresh \subseteq Ids
        BY <1>9 DEF Probe, gpuVars, TypeOK
      <3>2. ASSUME NEW u \in Threads, thread'[u].pc \in BeforeProbe
            PROVE  probed'[thread'[u].id] = 0
        <4>1. u # t
          BY <2>2, <3>2 DEF BeforeProbe
        <4>2. thread'[u] = thread[u] /\ Busy(u)
          BY <2>2, <3>2, <4>1 DEF BeforeProbe, Busy
        <4>3. thread[u].id \in Ids /\ thread[u].id # thread[t].id
          BY <2>1, <4>1, <4>2 DEF TypeOK, Busy
        <4>4. QED
          BY <2>3, <3>2, <4>2, <4>3 DEF AnnounceInv, NotYetProbed
      <3>3. QED
        BY <2>1, <2>3, <3>1, <3>2 DEF AnnounceInv, NotYetProbed
    <2>6. AnnouncedOnce'
      BY <2>3 DEF AnnounceInv, AnnouncedOnce
    <2>7. QED
      BY <2>4, <2>5, <2>6 DEF AnnounceInv
  <1>10. ASSUME NEW t \in Threads, Insert(t) PROVE AnnounceInv'
    <2>1. /\ \A u \in Threads \ {t} : thread'[u] = thread[u]
          /\ thread'[t].id = thread[t].id
          /\ thread'[t].pc = "check"
          /\ thread[t].pc = "insert"
          /\ ~thread[t].nested /\ ~thread'[t].nested
      BY <1>1, <1>10, MoveView DEF Insert, Moves, ThreadPCs
    <2>2. QED
      BY <1>10, <2>1, CallGoesOn
      DEF Insert, Moves, Busy, BeforeProbe, gpuVars, history
  <1>11. ASSUME NEW w \in Workers,
                \/ \E todo \in SUBSET recorded : FetchCycle(w, todo)
                \/ CycleStart(w) \/ SendRest(w) \/ CycleEnd(w) \/ ResetOutstanding(w)
                \/ \E r \in worker[w].todo : FilterRecord(w, r) \/ EmitRecord(w, r)
         PROVE  AnnounceInv'
    BY <1>11, AnnounceUnchanged
    DEF FetchCycle, CycleStart, SendRest, CycleEnd, ResetOutstanding, FilterRecord,
        EmitRecord, appVars, gpuVars, history
  <1>12. CASE ToggleConsumer \/ (\E r \in running : KernelEnds(r)) \/ UNCHANGED vars
    BY <1>12, AnnounceUnchanged
    DEF ToggleConsumer, KernelEnds, vars, appVars, gpuVars, history
  <1>13. QED
    BY <1>2, <1>3, <1>4, <1>5, <1>6, <1>7, <1>8, <1>9, <1>10, <1>11, <1>12 DEF Next

(* AnnounceInv is an invariant. *)
LEMMA AnnounceInvariant == Spec => []AnnounceInv
  <1>1. Init => AnnounceInv
    BY DEF Init, Idle, AnnounceInv, IdsAreUsedOnce, NestedUnderRuntime, NotYetProbed,
           AnnouncedOnce, Busy, BeforeProbe
  <1>2. QED
    BY <1>1, AnnounceStep, TypeCorrect, PTL DEF Spec

(* A launch is announced once, for any number of threads and whoever       *)
(* attaches or detaches in between.                                        *)
THEOREM LaunchesAnnouncedOnce == Spec => []AnnouncedOnce
  BY AnnounceInvariant, PTL DEF AnnounceInv

-----------------------------------------------------------------------------
(* A record is matched only after the probe, and a plain one only once.    *)
Unmatched(id) == id \notin filter \cup DOMAIN map /\ \A r \in executed : r.id # id

(* What is in the filter, in the map or executed has been probed. *)
MatchInv ==
  /\ \A id \in Ids : probed[id] = 0 => Unmatched(id)
  /\ \A t \in Threads : thread[t].pc = "insert" =>
       probed[thread[t].id] # 0 /\ Unmatched(thread[t].id)
  /\ PlainMatchedOnce

(* A step that matches nothing and brings no thread to its insertion.      *)
LEMMA NothingMatched ==
  ASSUME MatchInv, filter' \subseteq filter, DOMAIN map' \subseteq DOMAIN map,
         executed' = executed, probed' = probed,
         \A t \in Threads : thread'[t].pc = "insert" => thread'[t] = thread[t]
  PROVE  MatchInv'
  <1>1. \A id : Unmatched(id) => Unmatched(id)'
    BY DEF Unmatched
  <1>2. PlainMatchedOnce'
    BY DEF MatchInv, PlainMatchedOnce
  <1>3. QED
    BY <1>1, <1>2 DEF MatchInv

(* Every step keeps MatchInv. *)
LEMMA MatchStep == TypeOK /\ AnnounceInv /\ MatchInv /\ [Next]_vars => MatchInv'
  <1> SUFFICES ASSUME TypeOK, AnnounceInv, MatchInv, [Next]_vars PROVE MatchInv'
    OBVIOUS
  <1>1. /\ ThreadsOK
        /\ thread \in [Threads -> ThreadType]
        /\ probed \in [Ids -> Nat]
    BY DEF TypeOK, ThreadsOK
  <1>2. ASSUME NEW t \in Threads,
               \/ \E id \in Ids : RuntimeEnter(t, id)
               \/ \E id \in Ids, k \in 0 .. MaxKernels : DriverEnter(t, id, k)
               \/ \E k \in 0 .. MaxKernels : NestedDriverEnter(t, k)
        PROVE  MatchInv'
    <2>1. \A u \in Threads : thread'[u].pc = "insert" => thread'[u] = thread[u]
      <3>1. CASE \E id \in Ids : RuntimeEnter(t, id)
        BY <1>1, <3>1 DEF RuntimeEnter, ThreadType
      <3>2. ASSUME NEW id \in Ids, NEW k \in 0 .. MaxKernels,
                   NEW nested \in BOOLEAN, Launch(t, id, k, nested)
            PROVE  /\ thread'[t].pc # "insert"
                   /\ \A u \in Threads \ {t} : thread'[u] = thread[u]
        BY <1>1, <3>2 DEF Launch, ThreadType
      <3>3. thread[t].pc = "runtime" => thread[t].id \in Ids
        BY DEF TypeOK
      <3>4. QED
        BY <1>2, <3>1, <3>2, <3>3 DEF DriverEnter, NestedDriverEnter
    <2>2. QED
      BY <1>2, <2>1, NothingMatched
      DEF RuntimeEnter, DriverEnter, NestedDriverEnter, Launch, bufVars, history
  <1>3. ASSUME NEW t \in Threads, DriverExit(t) \/ RuntimeExit(t) PROVE MatchInv'
    <2>1. CASE Returns(t)
      BY <1>1, <1>3, <2>1, ReturnsView, NothingMatched
      DEF DriverExit, RuntimeExit, ExitUnchanged, bufVars, history
    <2>2. CASE thread' = [thread EXCEPT ![t].pc = "load"]
      BY <1>1, <1>3, <2>2, MoveView, NothingMatched
      DEF DriverExit, RuntimeExit, ExitUnchanged, ThreadPCs, bufVars, history
    <2>3. QED
      BY <1>3, <2>1, <2>2 DEF DriverExit, RuntimeExit, Admit
  <1>4. ASSUME NEW t \in Threads,
               Load(t) \/ Store(t) \/ CheckFlush(t) \/ FlushAll(t)
        PROVE  MatchInv'
    <2>1. CASE Returns(t)
      BY <1>1, <1>4, <2>1, ReturnsView, NothingMatched
      DEF Load, Store, CheckFlush, FlushAll, bufVars, history
    <2>2. CASE thread' = [thread EXCEPT ![t].pc = "flush"]
      BY <1>1, <1>4, <2>2, MoveView, NothingMatched
      DEF Load, Store, CheckFlush, FlushAll, ThreadPCs, bufVars, history
    <2>3. CASE Load(t) \/ Store(t)
      <3>1. \A u \in Threads : thread'[u].pc = "insert" => thread'[u] = thread[u]
        BY <1>1, <2>3 DEF Load, Store, ThreadType
      <3>2. QED
        BY <2>3, <3>1, NothingMatched DEF Load, Store, bufVars, history
    <2>4. QED
      BY <1>4, <2>1, <2>2, <2>3 DEF CheckFlush, FlushAll
  <1>5. ASSUME NEW t \in Threads, Probe(t) PROVE MatchInv'
    <2>1. /\ thread[t].id \in Ids
          /\ probed[thread[t].id] = 0
      BY <1>5 DEF Probe, Moves, TypeOK, AnnounceInv, NotYetProbed, BeforeProbe
    <2>2. /\ \A u \in Threads \ {t} : thread'[u] = thread[u]
          /\ thread'[t].id = thread[t].id
      BY <1>1, <1>5 DEF Probe, Moves, ThreadType
    <2>3. \A id \in Ids : probed'[id] = IF id = thread[t].id THEN 1 ELSE probed[id]
      BY <1>1, <1>5, <2>1 DEF Probe
    <2>4. \A id : Unmatched(id)' <=> Unmatched(id)
      BY <1>5 DEF Probe, bufVars, Unmatched
    <2>5. PlainMatchedOnce'
      BY <1>5 DEF Probe, MatchInv, PlainMatchedOnce
    <2>6. Unmatched(thread[t].id)
      BY <2>1 DEF MatchInv
    <2>7. \A u \in Threads : thread[u].pc # "idle" => thread[u].id \in Ids
      BY DEF TypeOK
    <2>8. QED
      BY <2>1, <2>2, <2>3, <2>4, <2>5, <2>6, <2>7 DEF MatchInv
  <1>6. ASSUME NEW t \in Threads, Insert(t) PROVE MatchInv'
    <2>1. /\ thread[t].pc = "insert"
          /\ thread[t].id \in Ids
          /\ probed[thread[t].id] # 0
          /\ Unmatched(thread[t].id)
          /\ \A u \in Threads \ {t} : Busy(u) => thread[u].id # thread[t].id
      BY <1>6 DEF Insert, Moves, TypeOK, MatchInv, AnnounceInv, IdsAreUsedOnce, Busy
    <2>2. /\ \A u \in Threads \ {t} : thread'[u] = thread[u]
          /\ thread'[t].pc = "check"
      BY <1>1, <1>6 DEF Insert, Moves, ThreadType
    <2>3. /\ filter' \cup DOMAIN map' \subseteq filter \cup DOMAIN map \cup {thread[t].id}
          /\ filter' \subseteq filter \cup {thread[t].id}
          /\ executed' = executed /\ probed' = probed
      BY <1>6 DEF Insert, Inserted, history
    <2>4. \A id : Unmatched(id) /\ id # thread[t].id => Unmatched(id)'
      BY <2>3 DEF Unmatched
    <2>5. PlainMatchedOnce'
      BY <2>1, <2>3 DEF MatchInv, PlainMatchedOnce, Unmatched
    <2>6. ASSUME NEW u \in Threads, thread'[u].pc = "insert"
          PROVE  (probed[thread[u].id] # 0 /\ Unmatched(thread[u].id))'
      <3>1. u # t /\ thread'[u] = thread[u] /\ Busy(u)
        BY <2>2, <2>6 DEF Busy
      <3>2. thread[u].id # thread[t].id
        BY <2>1, <3>1
      <3>3. probed[thread[u].id] # 0 /\ Unmatched(thread[u].id)
        BY <2>6, <3>1 DEF MatchInv
      <3>4. \A id : id = thread[u].id => Unmatched(id)'
        BY <2>4, <3>2, <3>3
      <3>5. \A id : id = thread[u].id => (probed[id] # 0 /\ Unmatched(id))'
        BY <2>3, <3>3, <3>4
      <3>6. QED
        BY <3>1, <3>5 DEF Unmatched
    <2>7. QED
      BY <2>1, <2>3, <2>4, <2>5, <2>6 DEF MatchInv
  <1>7. ASSUME NEW w \in Workers, NEW r \in worker[w].todo, EmitRecord(w, r)
        PROVE  MatchInv'
    <2>1. /\ r.id \in filter \cup DOMAIN map
          /\ thread' = thread /\ probed' = probed
          /\ filter' = filter \ {r.id} /\ executed' = executed \cup {r}
          /\ DOMAIN map' = DOMAIN map
      BY <1>7 DEF EmitRecord, MarkedSeen, appVars
    <2>2. \A id : Unmatched(id) => Unmatched(id)'
      BY <2>1 DEF Unmatched
    <2>3. r.id \in PlainIds => r.id \in filter
      BY <2>1, IdsAssumption DEF TypeOK, IsMap
    <2>4. PlainMatchedOnce'
      BY <2>1, <2>3 DEF MatchInv, PlainMatchedOnce
    <2>5. QED
      BY <2>1, <2>2, <2>4 DEF MatchInv
  <1>8. ASSUME NEW w \in Workers,
               \/ \E todo \in SUBSET recorded : FetchCycle(w, todo)
               \/ CycleStart(w) \/ SendRest(w) \/ CycleEnd(w) \/ ResetOutstanding(w)
               \/ \E r \in worker[w].todo : FilterRecord(w, r)
        PROVE  MatchInv'
    <2>1. /\ filter' = filter /\ DOMAIN map' \subseteq DOMAIN map
          /\ thread' = thread /\ executed' = executed /\ probed' = probed
      BY <1>8
      DEF FetchCycle, CycleStart, CycleStarted, SendRest, CycleEnd, CycleEnded,
          ResetOutstanding, FilterRecord, appVars, history
    <2>2. QED
      BY <2>1, NothingMatched
  <1>9. CASE ToggleConsumer \/ (\E r \in running : KernelEnds(r)) \/ UNCHANGED vars
    BY <1>9, NothingMatched
    DEF ToggleConsumer, KernelEnds, vars, appVars, bufVars, history
  <1>10. QED
    BY <1>2, <1>3, <1>4, <1>5, <1>6, <1>7, <1>8, <1>9 DEF Next

(* MatchInv is an invariant. *)
LEMMA MatchInvariant == Spec => []MatchInv
  <1>1. Init => MatchInv
    BY DEF Init, Idle, MatchInv, Unmatched, PlainMatchedOnce
  <1>2. QED
    BY <1>1, MatchStep, TypeCorrect, AnnounceInvariant, PTL DEF Spec

(* No orphans: a kernel event never precedes the correlation event of its  *)
(* launch, for any number of threads, workers and kernels.                 *)
THEOREM NoOrphans == Spec => []CorrelatedBeforeExecuted
  <1>1. TypeOK /\ MatchInv => CorrelatedBeforeExecuted
    <2> SUFFICES ASSUME TypeOK, MatchInv, NEW r \in executed PROVE probed[r.id] > 0
      BY DEF CorrelatedBeforeExecuted
    <2>1. r.id \in Ids /\ probed[r.id] \in Nat
      BY DEF TypeOK, Records
    <2>2. probed[r.id] # 0
      BY <2>1 DEF MatchInv, Unmatched
    <2>3. QED
      BY <2>1, <2>2
  <1>2. QED
    BY <1>1, TypeCorrect, MatchInvariant, PTL

(* A plain launch is matched by one record only.                           *)
THEOREM PlainLaunchesMatchedOnce == Spec => []PlainMatchedOnce
  BY MatchInvariant, PTL DEF MatchInv

-----------------------------------------------------------------------------
(***************************************************************************)
(* Correlation implements GraphTracker.                                    *)
(*                                                                         *)
(* GraphTracker counts the records of a launch that are still to come from *)
(* its insertion on.  That the count only goes down, and by one with each  *)
(* record, needs to know where records are: on the GPU, with CUPTI or in   *)
(* the hands of one buffer thread, never in two places; and that no record *)
(* of an id is on its way before the one launch of that id.                *)
(***************************************************************************)
OnePlace ==
  /\ running \cap recorded = {}
  /\ \A w \in Workers : worker[w].todo \cap (running \cup recorded) = {}
  /\ \A w, x \in Workers : w # x => worker[w].todo \cap worker[x].todo = {}

(* A buffer thread leaves its loop with every record looked at. *)
TodoDone ==
  \A w \in Workers : worker[w].pc \notin {"starting", "records"} => worker[w].todo = {}

NestedHasLaunched == \A t \in Threads : thread[t].nested => thread[t].launched

(* The runtime call has not made its driver launch yet. *)
BeforeLaunch(t) == thread[t].pc = "runtime" /\ ~thread[t].launched

NothingBeforeLaunch ==
  \A r \in Records : Undelivered(r) =>
    /\ r.id \notin fresh
    /\ \A t \in Threads : BeforeLaunch(t) => thread[t].id # r.id

(* Each record of a launch is in one place, and none precedes it. *)
DeliveryInv == OnePlace /\ TodoDone /\ NestedHasLaunched /\ NothingBeforeLaunch

(* A step that moves no record and no launch keeps DeliveryInv. *)
LEMMA NothingDelivered ==
  ASSUME DeliveryInv, running' = running, recorded' = recorded,
         \A w \in Workers : worker'[w].todo = worker[w].todo, TodoDone',
         fresh' \subseteq fresh,
         \A t \in Threads : thread'[t].nested => thread'[t].launched,
         \A t \in Threads : BeforeLaunch(t)' =>
           \/ BeforeLaunch(t) /\ thread'[t].id = thread[t].id
           \/ thread'[t].id \in fresh
  PROVE  DeliveryInv'
  <1>1. OnePlace'
    BY DEF DeliveryInv, OnePlace
  <1>2. NestedHasLaunched'
    BY DEF NestedHasLaunched
  <1>3. \A r : Undelivered(r)' <=> Undelivered(r)
    BY DEF Undelivered
  <1>4. NothingBeforeLaunch'
    BY <1>3 DEF DeliveryInv, NothingBeforeLaunch
  <1>5. QED
    BY <1>1, <1>2, <1>4 DEF DeliveryInv

(* A step of one thread that goes on with its call, or returns. *)
LEMMA OneThreadGoesOn ==
  ASSUME DeliveryInv, NEW t \in Threads,
         \A u \in Threads \ {t} : thread'[u] = thread[u],
         ~thread'[t].nested,
         thread'[t].pc = "runtime" =>
           thread[t].nested /\ (thread'[t].launched <=> thread[t].launched),
         running' = running, recorded' = recorded, worker' = worker, fresh' = fresh
  PROVE  DeliveryInv'
  <1>1. \A u \in Threads : thread'[u].nested => thread'[u].launched
    BY DEF DeliveryInv, NestedHasLaunched
  <1>2. ~BeforeLaunch(t)'
    BY DEF DeliveryInv, NestedHasLaunched, BeforeLaunch
  <1>3. \A u \in Threads : BeforeLaunch(u)' =>
          BeforeLaunch(u) /\ thread'[u].id = thread[u].id
    BY <1>2 DEF BeforeLaunch
  <1>4. QED
    BY <1>1, <1>3, NothingDelivered DEF DeliveryInv, TodoDone

(* A launch of an id that has no records yet. *)
LEMMA LaunchDelivers ==
  ASSUME TypeOK, AnnounceInv, DeliveryInv,
         NEW t \in Threads, NEW id \in Ids, NEW k \in 0 .. MaxKernels,
         NEW nested \in BOOLEAN, Launch(t, id, k, nested),
         fresh' \subseteq fresh, id \notin fresh',
         \A u \in Threads \ {t} : Busy(u) => thread[u].id # id,
         \A r \in Records : Undelivered(r) => r.id # id
  PROVE  DeliveryInv'
  <1>1. /\ running' = running \cup {[id |-> id, n |-> j] : j \in 1 .. k}
        /\ recorded' = recorded /\ worker' = worker
        /\ thread \in [Threads -> ThreadType]
        /\ running \subseteq Records /\ recorded \subseteq Records
        /\ \A w \in Workers : worker[w].todo \subseteq Records
    BY DEF Launch, TypeOK, bufVars, WorkerType
  <1>2. DEFINE new == {[id |-> id, n |-> j] : j \in 1 .. k}
  <1>3. new \subseteq Records /\ \A r \in new : r.id = id
    BY DEF Records
  <1>4. \A r \in new : ~Undelivered(r)
    BY <1>3
  <1>5. OnePlace'
    BY <1>1, <1>4 DEF DeliveryInv, OnePlace, Undelivered
  <1>6. /\ \A u \in Threads \ {t} : thread'[u] = thread[u]
        /\ thread'[t].pc = "driver" /\ thread'[t].launched
    BY <1>1 DEF Launch, ThreadType
  <1>7. NestedHasLaunched'
    BY <1>6 DEF DeliveryInv, NestedHasLaunched
  <1>8. \A r : Undelivered(r)' => Undelivered(r) \/ r \in new
    BY <1>1 DEF Undelivered
  <1>9. \A u \in Threads : BeforeLaunch(u)' =>
          u # t /\ BeforeLaunch(u) /\ thread'[u] = thread[u] /\ Busy(u)
    BY <1>6 DEF BeforeLaunch, Busy
  <1>10. NothingBeforeLaunch'
    <2> SUFFICES ASSUME NEW r \in Records, Undelivered(r)'
                 PROVE  /\ r.id \notin fresh'
                        /\ \A u \in Threads : BeforeLaunch(u)' => thread'[u].id # r.id
      BY DEF NothingBeforeLaunch
    <2>1. CASE r \in new
      BY <1>3, <1>9, <2>1
    <2>2. CASE Undelivered(r)
      BY <1>9, <2>2 DEF DeliveryInv, NothingBeforeLaunch
    <2>3. QED
      BY <1>8, <2>1, <2>2
  <1>11. QED
    BY <1>1, <1>5, <1>7, <1>10 DEF DeliveryInv, TodoDone

(* Every step keeps DeliveryInv. *)
LEMMA DeliveryStep == TypeOK /\ AnnounceInv /\ DeliveryInv /\ [Next]_vars => DeliveryInv'
  <1> SUFFICES ASSUME TypeOK, AnnounceInv, DeliveryInv, [Next]_vars PROVE DeliveryInv'
    OBVIOUS
  <1>1. /\ ThreadsOK
        /\ thread \in [Threads -> ThreadType]
        /\ worker \in [Workers -> WorkerType]
        /\ \A t \in Threads : thread[t].nested => thread[t].pc = "driver"
    BY DEF TypeOK, ThreadsOK, AnnounceInv, NestedUnderRuntime
  <1>2. ASSUME NEW t \in Threads, NEW id \in Ids, RuntimeEnter(t, id)
        PROVE  DeliveryInv'
    <2>1. /\ \A u \in Threads \ {t} : thread'[u] = thread[u]
          /\ thread'[t].id = id /\ id \in fresh
          /\ thread'[t].nested <=> thread[t].nested
          /\ ~thread[t].nested
      BY <1>1, <1>2 DEF RuntimeEnter, ThreadType
    <2>2. \A u \in Threads : thread'[u].nested => thread'[u].launched
      BY <2>1 DEF DeliveryInv, NestedHasLaunched
    <2>3. \A u \in Threads : BeforeLaunch(u)' =>
            \/ BeforeLaunch(u) /\ thread'[u].id = thread[u].id
            \/ thread'[u].id \in fresh
      BY <2>1 DEF BeforeLaunch
    <2>4. QED
      BY <1>2, <2>2, <2>3, NothingDelivered
      DEF RuntimeEnter, bufVars, DeliveryInv, TodoDone
  <1>3. ASSUME NEW t \in Threads, NEW id \in Ids, NEW k \in 0 .. MaxKernels,
               DriverEnter(t, id, k)
        PROVE  DeliveryInv'
    <2>1. /\ Launch(t, id, k, FALSE) /\ fresh' = fresh \ {id} /\ id \in fresh
      BY <1>3 DEF DriverEnter
    <2>2. \A u \in Threads \ {t} : Busy(u) => thread[u].id # id
      BY <2>1 DEF AnnounceInv, IdsAreUsedOnce
    <2>3. \A r \in Records : Undelivered(r) => r.id # id
      BY <2>1 DEF DeliveryInv, NothingBeforeLaunch
    <2>4. QED
      BY <2>1, <2>2, <2>3, LaunchDelivers
  <1>4. ASSUME NEW t \in Threads, NEW k \in 0 .. MaxKernels, NestedDriverEnter(t, k)
        PROVE  DeliveryInv'
    <2>1. /\ Launch(t, thread[t].id, k, TRUE) /\ fresh' = fresh
          /\ BeforeLaunch(t) /\ Busy(t) /\ thread[t].id \in Ids
      BY <1>4 DEF NestedDriverEnter, BeforeLaunch, Busy, TypeOK
    <2>2. /\ \A u \in Threads \ {t} : Busy(u) => thread[u].id # thread[t].id
          /\ thread[t].id \notin fresh
      BY <2>1 DEF AnnounceInv, IdsAreUsedOnce
    <2>3. \A r \in Records : Undelivered(r) => r.id # thread[t].id
      BY <2>1 DEF DeliveryInv, NothingBeforeLaunch
    <2>4. QED
      BY <2>1, <2>2, <2>3, LaunchDelivers
  <1>5. ASSUME NEW t \in Threads, Returns(t),
               running' = running, recorded' = recorded, worker' = worker,
               fresh' = fresh
        PROVE  DeliveryInv'
    <2>1. /\ \A u \in Threads \ {t} : thread'[u] = thread[u]
          /\ ~thread'[t].nested
          /\ thread'[t].pc = "runtime" =>
               thread[t].nested /\ (thread'[t].launched <=> thread[t].launched)
      BY <1>1, <1>5, ReturnsView
    <2>2. QED
      BY <1>5, <2>1, OneThreadGoesOn
  <1>6. ASSUME NEW t \in Threads, NEW pc \in ThreadPCs \ {"runtime"},
               thread' = [thread EXCEPT ![t].pc = pc], ~thread[t].nested,
               running' = running, recorded' = recorded, worker' = worker,
               fresh' = fresh
        PROVE  DeliveryInv'
    <2>1. /\ \A u \in Threads \ {t} : thread'[u] = thread[u]
          /\ ~thread'[t].nested /\ thread'[t].pc # "runtime"
      BY <1>1, <1>6, MoveView
    <2>2. QED
      BY <1>6, <2>1, OneThreadGoesOn
  <1>7. ASSUME NEW t \in Threads, DriverExit(t) \/ RuntimeExit(t) PROVE DeliveryInv'
    <2>1. /\ running' = running /\ recorded' = recorded /\ worker' = worker
          /\ fresh' = fresh
      BY <1>7 DEF DriverExit, RuntimeExit, ExitUnchanged, gpuVars, bufVars
    <2>2. Returns(t) \/ (~thread[t].nested /\ thread' = [thread EXCEPT ![t].pc = "load"])
      BY <1>1, <1>7 DEF DriverExit, RuntimeExit, Admit, AnnounceInv, NestedUnderRuntime
    <2>3. QED
      BY <1>5, <1>6, <2>1, <2>2 DEF ThreadPCs
  <1>8. ASSUME NEW t \in Threads, CheckFlush(t) \/ FlushAll(t) PROVE DeliveryInv'
    <2>1. /\ running' = running /\ recorded' = recorded /\ worker' = worker
          /\ fresh' = fresh
      BY <1>8 DEF CheckFlush, FlushAll, gpuVars, bufVars
    <2>2. Returns(t) \/ (~thread[t].nested /\ thread' = [thread EXCEPT ![t].pc = "flush"])
      BY <1>1, <1>8 DEF CheckFlush, FlushAll
    <2>3. QED
      BY <1>5, <1>6, <2>1, <2>2 DEF ThreadPCs
  <1>9. ASSUME NEW t \in Threads, Load(t) \/ Store(t) PROVE DeliveryInv'
    <2>1. /\ running' = running /\ recorded' = recorded /\ worker' = worker
          /\ fresh' = fresh
      BY <1>9 DEF Load, Store, gpuVars, bufVars
    <2>2. /\ \A u \in Threads \ {t} : thread'[u] = thread[u]
          /\ ~thread'[t].nested /\ thread'[t].pc # "runtime"
      BY <1>1, <1>9 DEF Load, Store, ThreadType
    <2>3. QED
      BY <2>1, <2>2, OneThreadGoesOn
  <1>10. ASSUME NEW t \in Threads, Probe(t) \/ Insert(t) PROVE DeliveryInv'
    <2>1. /\ running' = running /\ recorded' = recorded /\ worker' = worker
          /\ fresh' = fresh
      BY <1>10 DEF Probe, Insert, gpuVars, bufVars
    <2>2. /\ ~thread[t].nested
          /\ \E pc \in {"insert", "check"} : thread' = [thread EXCEPT ![t].pc = pc]
      BY <1>1, <1>10 DEF Probe, Insert, Moves
    <2>3. QED
      BY <1>6, <2>1, <2>2 DEF ThreadPCs
  <1>11. ASSUME NEW w \in Workers,
                CycleStart(w) \/ SendRest(w) \/ CycleEnd(w) \/ ResetOutstanding(w)
         PROVE  DeliveryInv'
    <2>1. \A x \in Workers : worker'[x].todo = worker[x].todo
      BY <1>1, <1>11 DEF CycleStart, SendRest, CycleEnd, ResetOutstanding, WorkerType
    <2>2. thread' = thread /\ fresh' = fresh /\ running' = running /\ recorded' = recorded
      BY <1>11 DEF CycleStart, SendRest, CycleEnd, ResetOutstanding, appVars, gpuVars
    <2>3. TodoDone'
      BY <1>1, <1>11
      DEF CycleStart, SendRest, CycleEnd, ResetOutstanding, WorkerType, DeliveryInv,
          TodoDone
    <2>4. QED
      BY <2>1, <2>2, <2>3, NothingDelivered
      DEF DeliveryInv, NestedHasLaunched, BeforeLaunch
  <1>12. CASE ToggleConsumer \/ UNCHANGED vars
    <2>1. /\ thread' = thread /\ fresh' = fresh /\ running' = running
          /\ recorded' = recorded /\ worker' = worker
      BY <1>12 DEF ToggleConsumer, vars, appVars, gpuVars, bufVars
    <2>2. QED
      BY <2>1, NothingDelivered
      DEF DeliveryInv, NestedHasLaunched, BeforeLaunch, TodoDone
  <1>13. ASSUME thread' = thread, fresh' = fresh, OnePlace', TodoDone',
                \A r : Undelivered(r)' => Undelivered(r)
         PROVE  DeliveryInv'
    BY <1>13 DEF DeliveryInv, NestedHasLaunched, NothingBeforeLaunch, BeforeLaunch
  <1>14. ASSUME NEW w \in Workers, NEW todo \in SUBSET recorded, FetchCycle(w, todo)
         PROVE  DeliveryInv'
    <2>1. /\ \A x \in Workers \ {w} : worker'[x] = worker[x]
          /\ worker'[w].todo = todo /\ worker'[w].pc = "starting"
          /\ running' = running /\ recorded' = recorded \ todo
          /\ thread' = thread /\ fresh' = fresh
      BY <1>1, <1>14 DEF FetchCycle, appVars
    <2>2. OnePlace' /\ TodoDone'
      BY <2>1 DEF DeliveryInv, OnePlace, TodoDone
    <2>3. \A r : Undelivered(r)' => Undelivered(r)
      BY <2>1 DEF Undelivered
    <2>4. QED
      BY <1>13, <2>1, <2>2, <2>3
  <1>15. ASSUME NEW w \in Workers, NEW r \in worker[w].todo,
                FilterRecord(w, r) \/ EmitRecord(w, r)
         PROVE  DeliveryInv'
    <2>1. /\ \A x \in Workers \ {w} : worker'[x] = worker[x]
          /\ worker'[w].todo = worker[w].todo \ {r}
          /\ worker'[w].pc = "records"
          /\ running' = running /\ recorded' = recorded
          /\ thread' = thread /\ fresh' = fresh
      BY <1>1, <1>15 DEF FilterRecord, EmitRecord, WorkerType, appVars, gpuVars
    <2>2. OnePlace' /\ TodoDone'
      BY <2>1 DEF DeliveryInv, OnePlace, TodoDone
    <2>3. \A q : Undelivered(q)' => Undelivered(q)
      BY <2>1 DEF Undelivered
    <2>4. QED
      BY <1>13, <2>1, <2>2, <2>3
  <1>16. ASSUME NEW r \in running, KernelEnds(r) PROVE DeliveryInv'
    <2>1. /\ running' = running \ {r}
          /\ recorded' = recorded \cup {r} \/ recorded' = recorded
          /\ worker' = worker /\ thread' = thread /\ fresh' = fresh
      BY <1>16 DEF KernelEnds, appVars, bufVars
    <2>2. OnePlace' /\ TodoDone'
      BY <2>1 DEF DeliveryInv, OnePlace, TodoDone
    <2>3. \A q : Undelivered(q)' => Undelivered(q)
      BY <2>1 DEF Undelivered
    <2>4. QED
      BY <1>13, <2>1, <2>2, <2>3
  <1>17. QED
    BY <1>2, <1>3, <1>4, <1>7, <1>8, <1>9, <1>10, <1>11, <1>12, <1>14, <1>15, <1>16
    DEF Next

(* DeliveryInv is an invariant. *)
LEMMA DeliveryInvariant == Spec => []DeliveryInv
  <1>1. Init => DeliveryInv
    BY DEF Init, Idle, DeliveryInv, OnePlace, TodoDone, NestedHasLaunched,
           NothingBeforeLaunch, Undelivered
  <1>2. QED
    BY <1>1, DeliveryStep, TypeCorrect, AnnounceInvariant, PTL DEF Spec

-----------------------------------------------------------------------------
(* A launch has at most MaxKernels records, all counted. *)
LEMMA RecordsCounted ==
  ASSUME NEW id
  PROVE  /\ IsFiniteSet(RecordsOf(id))
         /\ Cardinality(RecordsOf(id)) \in 0 .. MaxKernels
  <1>1. IsFiniteSet(1 .. MaxKernels) /\ Cardinality(1 .. MaxKernels) = MaxKernels
    BY FS_Interval
  <1>2. RecordsOf(id) \in SUBSET (1 .. MaxKernels)
    BY DEF RecordsOf
  <1>3. QED
    BY <1>1, <1>2, FS_Subset, FS_CardinalityType

(* One record less on its way is one less to come of its launch only. *)
LEMMA OneRecordLess ==
  ASSUME NEW r \in Records, Undelivered(r),
         \A q : Undelivered(q)' <=> Undelivered(q) /\ q # r
  PROVE  /\ \A id : id # r.id => RecordsOf(id)' = RecordsOf(id)
         /\ Cardinality(RecordsOf(r.id)) > 0
         /\ Cardinality(RecordsOf(r.id)') = Cardinality(RecordsOf(r.id)) - 1
  <1>1. r.n \in 1 .. MaxKernels /\ r = [id |-> r.id, n |-> r.n]
    BY DEF Records
  <1>2. \A id : id # r.id => RecordsOf(id)' = RecordsOf(id)
    BY DEF RecordsOf
  <1>3. r.n \in RecordsOf(r.id)
    BY <1>1 DEF RecordsOf
  <1>4. RecordsOf(r.id)' = RecordsOf(r.id) \ {r.n}
    BY <1>1 DEF RecordsOf
  <1>5. /\ IsFiniteSet(RecordsOf(r.id) \ {r.n})
        /\ Cardinality(RecordsOf(r.id) \ {r.n}) = Cardinality(RecordsOf(r.id)) - 1
    BY <1>3, RecordsCounted, FS_RemoveElement
  <1>6. /\ Cardinality(RecordsOf(r.id) \ {r.n}) \in Nat
        /\ Cardinality(RecordsOf(r.id)) \in Int
    BY <1>5, RecordsCounted, FS_CardinalityType
  <1>7. QED
    BY <1>2, <1>4, <1>5, <1>6

(* A step that leaves the map's side of the program alone. *)
LEMMA MapSideUnchanged ==
  ASSUME map' = map, current_cycle' = current_cycle, g_bufferCycle' = g_bufferCycle,
         begun' = begun, TrackerWorkers' = TrackerWorkers,
         \A id \in GraphIds : AwaitsInsertion(id)' <=> AwaitsInsertion(id),
         \A id \in GraphIds : ~AwaitsInsertion(id) => RecordsOf(id)' = RecordsOf(id)
  PROVE  UNCHANGED Tracker!vars
  <1>1. NotInserted' = NotInserted
    BY DEF NotInserted
  <1>2. ToCome' = ToCome
    BY DEF ToCome
  <1>3. QED
    BY <1>1, <1>2 DEF Tracker!vars

(* Threads that neither reach their insertion nor leave it. *)
LEMMA NobodyInserts ==
  ASSUME probed' = probed,
         \A t \in Threads : thread'[t].pc = "insert" \/ thread[t].pc = "insert"
                              => thread'[t] = thread[t]
  PROVE  \A id : AwaitsInsertion(id)' <=> AwaitsInsertion(id)
  BY DEF AwaitsInsertion

(* A record on its way that is dropped or delivered. *)
LEMMA RecordGone ==
  ASSUME TypeOK, NEW r \in Records, Undelivered(r),
         \A q : Undelivered(q)' <=> Undelivered(q) /\ q # r,
         \A id : AwaitsInsertion(id)' <=> AwaitsInsertion(id)
  PROVE  /\ NotInserted' = NotInserted
         /\ r.id \in NotInserted \cup PlainIds => ToCome' = ToCome
         /\ r.id \in GraphIds \ NotInserted =>
              /\ ToCome[r.id] > 0
              /\ ToCome' = [ToCome EXCEPT ![r.id] = @ - 1]
  <1>1. NotInserted' = NotInserted
    BY DEF NotInserted
  <1>2. \A id : id # r.id => RecordsOf(id)' = RecordsOf(id)
    BY OneRecordLess
  <1>3. /\ Cardinality(RecordsOf(r.id)) > 0
        /\ Cardinality(RecordsOf(r.id)') = Cardinality(RecordsOf(r.id)) - 1
    BY OneRecordLess
  <1>4. r.id \in NotInserted \cup PlainIds => ToCome' = ToCome
    BY <1>2, IdsAssumption DEF ToCome, NotInserted
  <1>5. r.id \in GraphIds \ NotInserted =>
          /\ ToCome[r.id] > 0
          /\ ToCome' = [ToCome EXCEPT ![r.id] = @ - 1]
    BY <1>2, <1>3 DEF ToCome, NotInserted
  <1>6. QED
    BY <1>1, <1>4, <1>5

(* check_and_mark_seen of an id that is not in the map changes nothing. *)
LEMMA MarkedSeenAbsent ==
  ASSUME NEW S, NEW m, IsMap(m, S), NEW id, id \notin DOMAIN m, NEW c
  PROVE  MarkedSeen(m, id, c) = m
  BY DEF MarkedSeen, IsMap

(* What each step of the callbacks and of the buffer threads is to the map. *)
LEMMA TrackerStep ==
  TypeOK /\ AnnounceInv /\ MatchInv /\ DeliveryInv /\ [Next]_vars
    => [Tracker!Next]_(Tracker!vars)
  <1> SUFFICES ASSUME TypeOK, AnnounceInv, MatchInv, DeliveryInv, [Next]_vars
               PROVE  [Tracker!Next]_(Tracker!vars)
    OBVIOUS
  <1>1. /\ ThreadsOK
        /\ thread \in [Threads -> ThreadType]
        /\ worker \in [Workers -> WorkerType]
        /\ \A w \in Workers : worker[w].todo \subseteq Records
        /\ \A t \in Threads : thread[t].nested => thread[t].pc = "driver"
        /\ IsMap(map, GraphIds)
    BY DEF TypeOK, ThreadsOK, AnnounceInv, NestedUnderRuntime, WorkerType
  <1>2. ASSUME bufVars' = bufVars, begun' = begun, probed' = probed,
               running' = running, recorded' = recorded,
               \A t \in Threads : thread'[t].pc = "insert" \/ thread[t].pc = "insert"
                                    => thread'[t] = thread[t]
        PROVE  UNCHANGED Tracker!vars
    <2>1. \A id : AwaitsInsertion(id)' <=> AwaitsInsertion(id)
      BY <1>2, NobodyInserts
    <2>2. \A id : RecordsOf(id)' = RecordsOf(id)
      BY <1>2 DEF RecordsOf, Undelivered, bufVars
    <2>3. TrackerWorkers' = TrackerWorkers
      BY <1>2 DEF TrackerWorkers, bufVars
    <2>4. QED
      BY <1>2, <2>1, <2>2, <2>3, MapSideUnchanged DEF bufVars
  <1>3. ASSUME NEW t \in Threads, NEW id \in Ids, RuntimeEnter(t, id)
        PROVE  UNCHANGED Tracker!vars
    <2>1. /\ \A u \in Threads \ {t} : thread'[u] = thread[u]
          /\ thread[t].pc = "idle" /\ thread'[t].pc = "runtime"
      BY <1>1, <1>3 DEF RuntimeEnter, ThreadType
    <2>2. QED
      BY <1>2, <1>3, <2>1 DEF RuntimeEnter, bufVars, history
  <1>4. ASSUME NEW t \in Threads, NEW id \in Ids, NEW k \in 0 .. MaxKernels,
               NEW nested \in BOOLEAN, Launch(t, id, k, nested),
               thread[t].pc # "insert", AwaitsInsertion(id)
        PROVE  UNCHANGED Tracker!vars
    <2>1. /\ \A u \in Threads \ {t} : thread'[u] = thread[u]
          /\ thread'[t].pc = "driver"
      BY <1>1, <1>4 DEF Launch, ThreadType
    <2>2. /\ bufVars' = bufVars /\ begun' = begun /\ probed' = probed
          /\ recorded' = recorded
          /\ running' = running \cup {[id |-> id, n |-> j] : j \in 1 .. k}
      BY <1>4 DEF Launch, bufVars, history
    <2>3. \A i : AwaitsInsertion(i)' <=> AwaitsInsertion(i)
      BY <1>4, <2>1, <2>2, NobodyInserts
    <2>4. \A i : i # id => RecordsOf(i)' = RecordsOf(i)
      BY <2>2 DEF RecordsOf, Undelivered, bufVars
    <2>5. TrackerWorkers' = TrackerWorkers
      BY <2>2 DEF TrackerWorkers, bufVars
    <2>6. QED
      BY <1>4, <2>2, <2>3, <2>4, <2>5, MapSideUnchanged DEF bufVars
  <1>5. ASSUME NEW t \in Threads, NEW id \in Ids, NEW k \in 0 .. MaxKernels,
               DriverEnter(t, id, k)
        PROVE  UNCHANGED Tracker!vars
    <2>1. AwaitsInsertion(id)
      BY <1>5 DEF DriverEnter, AnnounceInv, NotYetProbed, AwaitsInsertion
    <2>2. QED
      BY <1>4, <1>5, <2>1 DEF DriverEnter
  <1>6. ASSUME NEW t \in Threads, NEW k \in 0 .. MaxKernels, NestedDriverEnter(t, k)
        PROVE  UNCHANGED Tracker!vars
    <2>1. thread[t].pc = "runtime" /\ thread[t].id \in Ids
      BY <1>6 DEF NestedDriverEnter, TypeOK
    <2>2. AwaitsInsertion(thread[t].id)
      BY <2>1 DEF AnnounceInv, NotYetProbed, AwaitsInsertion, BeforeProbe
    <2>3. QED
      BY <1>4, <1>6, <2>1, <2>2 DEF NestedDriverEnter
  <1>7. ASSUME NEW t \in Threads, DriverExit(t) \/ RuntimeExit(t)
        PROVE  UNCHANGED Tracker!vars
    <2>1. /\ \A u \in Threads \ {t} : thread'[u] = thread[u]
          /\ thread[t].pc # "insert" /\ thread'[t].pc # "insert"
      BY <1>1, <1>7, MoveView, ReturnsView DEF DriverExit, RuntimeExit, Admit, ThreadPCs
    <2>2. QED
      BY <1>2, <1>7, <2>1
      DEF DriverExit, RuntimeExit, ExitUnchanged, gpuVars, history
  <1>8. ASSUME NEW t \in Threads, Load(t) \/ Store(t) \/ CheckFlush(t) \/ FlushAll(t)
        PROVE  UNCHANGED Tracker!vars
    <2>1. /\ \A u \in Threads \ {t} : thread'[u] = thread[u]
          /\ thread[t].pc # "insert" /\ thread'[t].pc # "insert"
      <3>1. CASE Load(t) \/ Store(t)
        BY <1>1, <3>1 DEF Load, Store, ThreadType
      <3>2. CASE CheckFlush(t) \/ FlushAll(t)
        BY <1>1, <3>2, MoveView, ReturnsView DEF CheckFlush, FlushAll, ThreadPCs
      <3>3. QED
        BY <1>8, <3>1, <3>2
    <2>2. QED
      BY <1>2, <1>8, <2>1 DEF Load, Store, CheckFlush, FlushAll, gpuVars, history
  <1>9. ASSUME NEW t \in Threads, Probe(t)
        PROVE  UNCHANGED Tracker!vars
    <2>1. /\ \A u \in Threads \ {t} : thread'[u] = thread[u]
          /\ thread[t].pc = "probe" /\ thread'[t].pc = "insert"
          /\ thread'[t].id = thread[t].id /\ thread[t].id \in Ids
      BY <1>1, <1>9, MoveView DEF Probe, Moves, ThreadPCs, ThreadsOK
    <2>2. probed[thread[t].id] = 0
      BY <2>1 DEF AnnounceInv, NotYetProbed, BeforeProbe
    <2>3. \A id \in Ids \ {thread[t].id} : probed'[id] = probed[id]
      BY <1>9 DEF Probe, TypeOK
    <2>4. \A id \in GraphIds : AwaitsInsertion(id)' <=> AwaitsInsertion(id)
      BY <2>1, <2>2, <2>3 DEF AwaitsInsertion, Ids
    <2>5. \A id : RecordsOf(id)' = RecordsOf(id)
      BY <1>9 DEF Probe, RecordsOf, Undelivered, bufVars, gpuVars
    <2>6. TrackerWorkers' = TrackerWorkers
      BY <1>9 DEF Probe, TrackerWorkers, bufVars
    <2>7. QED
      BY <1>9, <2>4, <2>5, <2>6, MapSideUnchanged DEF Probe, bufVars
  <1>10. ASSUME NEW t \in Threads, Insert(t)
         PROVE  Tracker!Next \/ UNCHANGED Tracker!vars
    <2>0. PICK me \in Ids : me = thread[t].id
      BY <1>10 DEF Insert, Moves, TypeOK
    <2>1. /\ \A u \in Threads \ {t} : thread'[u] = thread[u]
          /\ thread[t].pc = "insert" /\ thread'[t].pc = "check"
      BY <1>1, <1>10, MoveView DEF Insert, Moves, ThreadPCs
    <2>2. /\ probed[me] # 0 /\ me \notin DOMAIN map
      BY <2>0, <2>1 DEF MatchInv, Unmatched
    <2>3. \A u \in Threads \ {t} : thread[u].pc = "insert" => thread[u].id # me
      BY <2>0, <2>1 DEF AnnounceInv, IdsAreUsedOnce, Busy
    <2>4. /\ probed' = probed /\ begun' = begun /\ current_cycle' = current_cycle
          /\ g_bufferCycle' = g_bufferCycle /\ worker' = worker
          /\ running' = running /\ recorded' = recorded
      BY <1>10 DEF Insert, gpuVars, history
    <2>5. AwaitsInsertion(me) /\ ~AwaitsInsertion(me)'
      BY <2>0, <2>1, <2>2, <2>3, <2>4 DEF AwaitsInsertion
    <2>6. \A id : id # me => (AwaitsInsertion(id)' <=> AwaitsInsertion(id))
      BY <2>0, <2>1, <2>4 DEF AwaitsInsertion
    <2>7. \A id : RecordsOf(id)' = RecordsOf(id)
      BY <2>4 DEF RecordsOf, Undelivered
    <2>8. TrackerWorkers' = TrackerWorkers
      BY <2>4 DEF TrackerWorkers
    <2>9. CASE me \in GraphIds
      <3>1. me \in NotInserted /\ NotInserted' = NotInserted \ {me}
        BY <2>5, <2>6, <2>9 DEF NotInserted
      <3>2. map' = Tracker!Inserted(map, me, current_cycle)
        BY <1>10, <2>0, <2>9
        DEF Insert, Inserted, Tracker!Inserted, GraphCorrelationEntry,
            Tracker!GraphCorrelationEntry, Slots, Tracker!Slots
      <3>3. PICK n \in 0 .. MaxKernels : n = Cardinality(RecordsOf(me))
        BY RecordsCounted
      <3>4. ToCome' = [ToCome EXCEPT ![me] = n]
        <4>1. \A id \in GraphIds : ToCome'[id] = IF id = me THEN n ELSE ToCome[id]
          BY <2>5, <2>6, <2>7, <3>3 DEF ToCome
        <4>2. QED
          BY <4>1 DEF ToCome
      <3>5. Tracker!Insert(me)
        BY <2>4, <2>8, <3>1, <3>2, <3>4 DEF Tracker!Insert
      <3>6. QED
        BY <2>9, <3>5 DEF Tracker!Next
    <2>10. CASE me \notin GraphIds
      <3>1. map' = map
        BY <1>10, <2>0, <2>10 DEF Insert
      <3>2. QED
        BY <2>4, <2>6, <2>7, <2>8, <2>10, <3>1, MapSideUnchanged
    <2>11. QED
      BY <2>9, <2>10
  <1>11. ASSUME thread' = thread, probed' = probed
         PROVE  \A id : AwaitsInsertion(id)' <=> AwaitsInsertion(id)
    BY <1>11 DEF AwaitsInsertion
  <1>12. ASSUME NEW w \in Workers, NEW todo \in SUBSET recorded, FetchCycle(w, todo)
         PROVE  Tracker!Next
    <2>1. /\ worker[w].pc = "idle"
          /\ worker' = [worker EXCEPT ![w] =
               [pc |-> "starting", cycle |-> g_bufferCycle, todo |-> todo,
                batchCount |-> 0]]
          /\ g_bufferCycle' = NextCycle(g_bufferCycle) /\ recorded' = recorded \ todo
          /\ map' = map /\ current_cycle' = current_cycle /\ running' = running
          /\ thread' = thread /\ probed' = probed /\ begun' = begun
      BY <1>12 DEF FetchCycle, appVars, history
    <2>2. /\ TrackerWorkers[w].pc = "idle"
          /\ TrackerWorkers' =
               [TrackerWorkers EXCEPT ![w] = [pc |-> "starting", cycle |-> g_bufferCycle]]
      BY <1>1, <2>1 DEF TrackerWorkers, TrackerPC
    <2>3. \A r : Undelivered(r)' <=> Undelivered(r)
      <3>1. /\ \A x \in Workers \ {w} : worker'[x] = worker[x]
            /\ worker'[w].todo = todo
        BY <1>1, <2>1
      <3>2. worker[w].todo = {}
        BY <2>1 DEF DeliveryInv, TodoDone
      <3>3. QED
        BY <2>1, <3>1, <3>2 DEF Undelivered
    <2>4. \A id : RecordsOf(id)' = RecordsOf(id)
      BY <2>3 DEF RecordsOf
    <2>5. NotInserted' = NotInserted /\ ToCome' = ToCome
      BY <1>11, <2>1, <2>4 DEF NotInserted, ToCome
    <2>6. Tracker!FetchCycle(w)
      BY <2>1, <2>2, <2>5 DEF Tracker!FetchCycle, NextCycle, Tracker!NextCycle
    <2>7. QED
      BY <2>6 DEF Tracker!Next
  <1>13. ASSUME running' = running, recorded' = recorded, thread' = thread,
                probed' = probed,
                \A w \in Workers : worker'[w].todo = worker[w].todo
         PROVE  NotInserted' = NotInserted /\ ToCome' = ToCome
    <2>1. \A id : RecordsOf(id)' = RecordsOf(id)
      BY <1>13 DEF RecordsOf, Undelivered
    <2>2. QED
      BY <1>11, <1>13, <2>1 DEF NotInserted, ToCome
  <1>14. ASSUME NEW w \in Workers, CycleStart(w)
         PROVE  Tracker!Next
    <2>1. /\ worker[w].pc = "starting"
          /\ worker' = [worker EXCEPT ![w].pc = "records"]
          /\ current_cycle' = worker[w].cycle
          /\ map' = CycleStarted(map, worker[w].cycle)
          /\ begun' = [i \in GraphIds |-> IF i \in DOMAIN map THEN OneMoreBegun(begun[i])
                                                             ELSE begun[i]]
          /\ g_bufferCycle' = g_bufferCycle
      BY <1>14 DEF CycleStart
    <2>2. /\ running' = running /\ recorded' = recorded /\ thread' = thread
          /\ probed' = probed
      BY <1>14 DEF CycleStart, appVars, gpuVars
    <2>3. NotInserted' = NotInserted /\ ToCome' = ToCome
      BY <1>1, <1>13, <2>1, <2>2 DEF WorkerType
    <2>4. /\ TrackerWorkers[w].pc = "starting"
          /\ TrackerWorkers[w].cycle = worker[w].cycle
          /\ TrackerWorkers' = [TrackerWorkers EXCEPT ![w].pc = "records"]
      BY <1>1, <2>1 DEF TrackerWorkers, TrackerPC, WorkerType
    <2>5. map' = Tracker!CycleStarted(map, TrackerWorkers[w].cycle)
      BY <2>1, <2>4 DEF CycleStarted, Tracker!CycleStarted
    <2>6. Tracker!CycleStart(w)
      BY <2>1, <2>3, <2>4, <2>5
      DEF Tracker!CycleStart, OneMoreBegun, Tracker!OneMoreBegun
    <2>7. QED
      BY <2>6 DEF Tracker!Next
  <1>15. ASSUME NEW w \in Workers, NEW r \in worker[w].todo,
                FilterRecord(w, r) \/ EmitRecord(w, r)
         PROVE  /\ r \in Records /\ Undelivered(r)
                /\ \A q : Undelivered(q)' <=> Undelivered(q) /\ q # r
                /\ \A id : AwaitsInsertion(id)' <=> AwaitsInsertion(id)
                /\ TrackerWorkers' = TrackerWorkers
                /\ TrackerWorkers[w].pc = "records"
                /\ TrackerWorkers[w].cycle = worker[w].cycle
                /\ current_cycle' = current_cycle /\ g_bufferCycle' = g_bufferCycle
                /\ begun' = begun
    <2>1. /\ \A x \in Workers \ {w} : worker'[x] = worker[x]
          /\ worker'[w].todo = worker[w].todo \ {r}
          /\ worker'[w].pc = "records" /\ worker[w].pc = "records"
          /\ worker'[w].cycle = worker[w].cycle
          /\ running' = running /\ recorded' = recorded
      BY <1>1, <1>15 DEF FilterRecord, EmitRecord, WorkerType, gpuVars
    <2>2. /\ thread' = thread /\ probed' = probed /\ begun' = begun
          /\ current_cycle' = current_cycle /\ g_bufferCycle' = g_bufferCycle
      BY <1>15 DEF FilterRecord, EmitRecord, appVars, history
    <2>3. \A q : Undelivered(q)' <=> Undelivered(q) /\ q # r
      BY <2>1 DEF Undelivered, DeliveryInv, OnePlace
    <2>4. TrackerWorkers' = TrackerWorkers
      BY <2>1 DEF TrackerWorkers
    <2>5. /\ TrackerWorkers[w].pc = "records"
          /\ TrackerWorkers[w].cycle = worker[w].cycle
      BY <2>1 DEF TrackerWorkers, TrackerPC
    <2>6. QED
      BY <1>1, <1>11, <2>2, <2>3, <2>4, <2>5 DEF Undelivered
  <1>16. ASSUME NEW w \in Workers, NEW r \in worker[w].todo, FilterRecord(w, r)
         PROVE  Tracker!Next \/ UNCHANGED Tracker!vars
    <2>1. map' = map /\ r.id \notin DOMAIN map
      BY <1>16 DEF FilterRecord
    <2>2. /\ NotInserted' = NotInserted
          /\ r.id \in NotInserted \cup PlainIds => ToCome' = ToCome
          /\ r.id \in GraphIds \ NotInserted =>
               /\ ToCome[r.id] > 0
               /\ ToCome' = [ToCome EXCEPT ![r.id] = @ - 1]
      BY <1>15, <1>16, RecordGone
    <2>3. CASE r.id \in GraphIds \ NotInserted
      <3>1. map' = Tracker!MarkedSeen(map, r.id, TrackerWorkers[w].cycle)
        BY <1>1, <2>1, MarkedSeenAbsent DEF MarkedSeen, Tracker!MarkedSeen
      <3>2. Tracker!KernelRecord(w, r.id)
        BY <1>15, <1>16, <2>2, <2>3, <3>1 DEF Tracker!KernelRecord
      <3>3. QED
        BY <2>3, <3>2 DEF Tracker!Next
    <2>4. CASE r.id \in NotInserted \cup PlainIds
      BY <1>15, <1>16, <2>1, <2>2, <2>4 DEF Tracker!vars
    <2>5. QED
      BY <1>15, <1>16, <2>3, <2>4 DEF Records, Ids
  <1>17. ASSUME NEW w \in Workers, NEW r \in worker[w].todo, EmitRecord(w, r)
         PROVE  Tracker!Next \/ UNCHANGED Tracker!vars
    <2>1. /\ map' = MarkedSeen(map, r.id, worker[w].cycle)
          /\ r.id \in filter \cup DOMAIN map /\ r.id \in Ids
      BY <1>15, <1>17 DEF EmitRecord, Records
    <2>2. /\ NotInserted' = NotInserted
          /\ r.id \in NotInserted \cup PlainIds => ToCome' = ToCome
          /\ r.id \in GraphIds \ NotInserted =>
               /\ ToCome[r.id] > 0
               /\ ToCome' = [ToCome EXCEPT ![r.id] = @ - 1]
      BY <1>15, <1>17, RecordGone
    <2>3. CASE r.id \in GraphIds
      <3>1. r.id \notin NotInserted
        BY <2>1, <2>3 DEF MatchInv, Unmatched, NotInserted, AwaitsInsertion
      <3>2. map' = Tracker!MarkedSeen(map, r.id, TrackerWorkers[w].cycle)
        BY <1>15, <1>17, <2>1 DEF MarkedSeen, Tracker!MarkedSeen
      <3>3. Tracker!KernelRecord(w, r.id)
        BY <1>15, <1>17, <2>2, <2>3, <3>1, <3>2 DEF Tracker!KernelRecord
      <3>4. QED
        BY <2>3, <3>3 DEF Tracker!Next
    <2>4. CASE r.id \in PlainIds
      <3>1. r.id \notin DOMAIN map
        BY <1>1, <2>4 DEF IsMap
      <3>2. map' = map
        BY <1>1, <2>1, <3>1, MarkedSeenAbsent
      <3>3. QED
        BY <1>15, <1>17, <2>2, <2>4, <3>2 DEF Tracker!vars
    <2>5. QED
      BY <2>1, <2>3, <2>4 DEF Ids
  <1>18. ASSUME NEW w \in Workers, SendRest(w) \/ ResetOutstanding(w)
         PROVE  UNCHANGED Tracker!vars
    <2>1. /\ map' = map /\ current_cycle' = current_cycle /\ begun' = begun
          /\ g_bufferCycle' = g_bufferCycle /\ running' = running
          /\ recorded' = recorded /\ thread' = thread /\ probed' = probed
      BY <1>18 DEF SendRest, ResetOutstanding, appVars, gpuVars, history
    <2>2. \A x \in Workers : /\ worker'[x].todo = worker[x].todo
                             /\ worker'[x].cycle = worker[x].cycle
                             /\ TrackerPC(worker'[x].pc) = TrackerPC(worker[x].pc)
      BY <1>1, <1>18 DEF SendRest, ResetOutstanding, WorkerType, TrackerPC
    <2>3. TrackerWorkers' = TrackerWorkers
      BY <2>2 DEF TrackerWorkers
    <2>4. NotInserted' = NotInserted /\ ToCome' = ToCome
      BY <1>13, <2>1, <2>2
    <2>5. QED
      BY <2>1, <2>3, <2>4 DEF Tracker!vars
  <1>19. ASSUME NEW w \in Workers, CycleEnd(w)
         PROVE  Tracker!Next
    <2>1. /\ worker[w].pc = "ending"
          /\ worker' = [worker EXCEPT ![w].pc = "resetting"]
          /\ map' = CycleEnded(map, current_cycle)
          /\ current_cycle' = current_cycle /\ g_bufferCycle' = g_bufferCycle
          /\ running' = running /\ recorded' = recorded /\ thread' = thread
          /\ probed' = probed /\ begun' = begun
      BY <1>19 DEF CycleEnd, appVars, gpuVars, history
    <2>2. NotInserted' = NotInserted /\ ToCome' = ToCome
      BY <1>1, <1>13, <2>1 DEF WorkerType
    <2>3. /\ TrackerWorkers[w].pc = "records"
          /\ TrackerWorkers' = [TrackerWorkers EXCEPT ![w].pc = "idle"]
      BY <1>1, <2>1 DEF TrackerWorkers, TrackerPC, WorkerType
    <2>4. map' = Tracker!CycleEnded(map, current_cycle)
      BY <2>1 DEF CycleEnded, Tracker!CycleEnded, ShouldRemove, Tracker!ShouldRemove,
                  Age, Tracker!Age, Slots, Tracker!Slots
    <2>5. Tracker!CycleEnd(w)
      BY <2>1, <2>2, <2>3, <2>4 DEF Tracker!CycleEnd
    <2>6. QED
      BY <2>5 DEF Tracker!Next
  <1>20. ASSUME NEW r \in running, KernelEnds(r)
         PROVE  Tracker!Next \/ UNCHANGED Tracker!vars
    <2>1. /\ bufVars' = bufVars /\ begun' = begun /\ running' = running \ {r}
          /\ thread' = thread /\ probed' = probed /\ r \in Records
      BY <1>20 DEF KernelEnds, appVars, history, TypeOK
    <2>2. \A id : AwaitsInsertion(id)' <=> AwaitsInsertion(id)
      BY <1>11, <2>1
    <2>3. TrackerWorkers' = TrackerWorkers
      BY <2>1 DEF TrackerWorkers, bufVars
    <2>4. CASE recorded' = recorded \cup {r}
      <3>1. \A id : RecordsOf(id)' = RecordsOf(id)
        BY <2>1, <2>4, <1>20 DEF RecordsOf, Undelivered, bufVars
      <3>2. QED
        BY <2>1, <2>2, <2>3, <3>1, MapSideUnchanged DEF bufVars
    <2>5. CASE recorded' = recorded
      <3>1. Undelivered(r) /\ \A q : Undelivered(q)' <=> Undelivered(q) /\ q # r
        BY <1>20, <2>1, <2>5 DEF Undelivered, bufVars, DeliveryInv, OnePlace
      <3>2. /\ NotInserted' = NotInserted
            /\ r.id \in NotInserted \cup PlainIds => ToCome' = ToCome
            /\ r.id \in GraphIds \ NotInserted =>
                 /\ ToCome[r.id] > 0
                 /\ ToCome' = [ToCome EXCEPT ![r.id] = @ - 1]
        BY <2>1, <2>2, <3>1, RecordGone
      <3>3. CASE r.id \in GraphIds \ NotInserted
        <4>1. Tracker!Lost(r.id)
          BY <2>1, <2>3, <3>2, <3>3 DEF Tracker!Lost, bufVars
        <4>2. QED
          BY <3>3, <4>1 DEF Tracker!Next
      <3>4. CASE r.id \in NotInserted \cup PlainIds
        BY <2>1, <2>3, <3>2, <3>4 DEF Tracker!vars, bufVars
      <3>5. QED
        BY <2>1, <3>3, <3>4 DEF Records, Ids
    <2>6. QED
      BY <1>20, <2>4, <2>5 DEF KernelEnds
  <1>21. CASE ToggleConsumer \/ UNCHANGED vars
    BY <1>2, <1>21 DEF ToggleConsumer, vars, appVars, gpuVars, history
  <1>22. QED
    BY <1>3, <1>5, <1>6, <1>7, <1>8, <1>9, <1>10, <1>12, <1>14, <1>16, <1>17, <1>18,
       <1>19, <1>20, <1>21 DEF Next

(* Before the first call no launch is inserted and no record is to come. *)
LEMMA TrackerInit == Init => Tracker!Init
  <1> SUFFICES ASSUME Init PROVE Tracker!Init
    OBVIOUS
  <1>1. \A id \in GraphIds : AwaitsInsertion(id)
    BY DEF Init, AwaitsInsertion, Ids
  <1>2. NotInserted = GraphIds /\ ToCome = [i \in GraphIds |-> 0]
    BY <1>1 DEF NotInserted, ToCome
  <1>3. TrackerWorkers = [w \in Workers |-> [pc |-> "idle", cycle |-> 0]]
    BY DEF Init, TrackerWorkers, TrackerPC
  <1>4. QED
    BY <1>2, <1>3 DEF Init, Tracker!Init, GraphCorrelationEntry

(* The whole program, whatever its threads and CUPTI do, is one of the     *)
(* callers that GraphTracker stands for.                                   *)
THEOREM TrackerImplemented == Spec => ImplementsTracker
  <1>1. TypeOK /\ AnnounceInv /\ MatchInv /\ DeliveryInv /\ [Next]_vars
          => (UNCHANGED Tracker!vars \/ Tracker!Next)
    BY TrackerStep
  <1>2. [UNCHANGED Tracker!vars \/ Tracker!Next]_(Tracker!vars)
          <=> (UNCHANGED Tracker!vars \/ Tracker!Next)
    OBVIOUS
  <1>3. QED
    BY <1>1, <1>2, TrackerInit, TypeCorrect, AnnounceInvariant, MatchInvariant,
       DeliveryInvariant, PTL
    DEF Spec, ImplementsTracker

-----------------------------------------------------------------------------
(* What is proved of GraphTracker is so of the map in the whole program.   *)
Proved == INSTANCE GraphTrackerProofs WITH
  Ids <- GraphIds, worker <- TrackerWorkers, toCome <- ToCome, fresh <- NotInserted

(* Proved names the specification that Tracker names. *)
LEMMA SameTracker ==
  /\ Tracker!Init <=> Proved!Init
  /\ [Tracker!Next]_(Tracker!vars) <=> [Proved!Next]_(Proved!vars)
  <1>1. Tracker!Init <=> Proved!Init
    BY DEF Tracker!Init, Proved!Init, Tracker!GraphCorrelationEntry,
           Proved!GraphCorrelationEntry, Tracker!Slots, Proved!Slots
  <1>2. UNCHANGED Tracker!vars <=> UNCHANGED Proved!vars
    BY DEF Tracker!vars, Proved!vars
  <1>3. ASSUME NEW id PROVE Tracker!Insert(id) <=> Proved!Insert(id)
    BY DEF Tracker!Insert, Proved!Insert, Tracker!Inserted, Proved!Inserted,
           Tracker!GraphCorrelationEntry, Proved!GraphCorrelationEntry,
           Tracker!Slots, Proved!Slots
  <1>4. ASSUME NEW id PROVE Tracker!Lost(id) <=> Proved!Lost(id)
    BY DEF Tracker!Lost, Proved!Lost
  <1>5. ASSUME NEW w PROVE Tracker!FetchCycle(w) <=> Proved!FetchCycle(w)
    BY DEF Tracker!FetchCycle, Proved!FetchCycle, Tracker!NextCycle, Proved!NextCycle
  <1>6. ASSUME NEW w PROVE Tracker!CycleStart(w) <=> Proved!CycleStart(w)
    BY DEF Tracker!CycleStart, Proved!CycleStart, Tracker!CycleStarted,
           Proved!CycleStarted, Tracker!OneMoreBegun, Proved!OneMoreBegun
  <1>7. ASSUME NEW w, NEW id
        PROVE  Tracker!KernelRecord(w, id) <=> Proved!KernelRecord(w, id)
    BY DEF Tracker!KernelRecord, Proved!KernelRecord, Tracker!MarkedSeen,
           Proved!MarkedSeen
  <1>8. ASSUME NEW w PROVE Tracker!CycleEnd(w) <=> Proved!CycleEnd(w)
    BY DEF Tracker!CycleEnd, Proved!CycleEnd, Tracker!CycleEnded, Proved!CycleEnded,
           Tracker!ShouldRemove, Proved!ShouldRemove, Tracker!Age, Proved!Age,
           Tracker!Slots, Proved!Slots
  <1>9. Tracker!Next <=> Proved!Next
    BY <1>3, <1>4, <1>5, <1>6, <1>7, <1>8 DEF Tracker!Next, Proved!Next
  <1>10. QED
    BY <1>1, <1>2, <1>9

(* The program behaves as GraphTracker says. *)
LEMMA TrackerBehaviour == Spec => Proved!Spec
  <1>1. QED
    BY SameTracker, TrackerInit, TrackerStep, TypeCorrect, AnnounceInvariant,
       MatchInvariant, DeliveryInvariant, PTL
    DEF Spec, Proved!Spec

(* cycle_end, called by whichever thread, throws no launch away that no    *)
(* complete buffer could have brought kernels of.                          *)
THEOREM EntriesSurviveTwoBuffers == Spec => Tracker!TwoBuffersBeforeRemoval
  <1>1. Proved!Spec => Proved!TwoBuffersBeforeRemoval
    BY Proved!RemovalAfterTwoBuffers, CycleModAssumption, MaxAgeAssumption,
       BoundsAssumption
  <1>2. [\A id \in GraphIds : Proved!Removed(id) => begun[id] >= 2]_(Proved!vars)
          => [\A id \in GraphIds : Tracker!Removed(id) => begun[id] >= 2]_(Tracker!vars)
    BY DEF Tracker!vars, Proved!vars, Tracker!Removed, Proved!Removed
  <1>3. QED
    BY <1>1, <1>2, TrackerBehaviour, PTL
    DEF Proved!TwoBuffersBeforeRemoval, Tracker!TwoBuffersBeforeRemoval

(* With one thread in completeBuffer at a time, a launch whose kernels have *)
(* not come yet is not forgotten before more than MaxAge buffers.           *)
THEOREM UnseenLaunchesKept ==
  ASSUME NEW w, Workers = {w}
  PROVE  Spec => Tracker!UnseenLeavesOnlyOld
  <1>1. Proved!Spec => Proved!UnseenLeavesOnlyOld
    BY Proved!UnseenRemovedOnlyOld, CycleModAssumption, MaxAgeAssumption,
       BoundsAssumption
  <1>2. [\A id \in GraphIds : Proved!Removed(id) /\ ~map[id].ever_seen_kernel
                              => begun[id] > MaxAge]_(Proved!vars)
          => [\A id \in GraphIds : Tracker!Removed(id) /\ ~map[id].ever_seen_kernel
                                   => begun[id] > MaxAge]_(Tracker!vars)
    BY DEF Tracker!vars, Proved!vars, Tracker!Removed, Proved!Removed
  <1>3. QED
    BY <1>1, <1>2, TrackerBehaviour, PTL
    DEF Proved!UnseenLeavesOnlyOld, Tracker!UnseenLeavesOnlyOld

(* ... and the map of the whole program keeps the promise of GraphQuiet.   *)
THEOREM QuietImplemented ==
  ASSUME NEW w, Workers = {w}
  PROVE  Spec => Proved!ImplementsQuiet
  <1>1. Proved!Spec => Proved!ImplementsQuiet
    BY Proved!Refinement, CycleModAssumption, MaxAgeAssumption, BoundsAssumption
  <1>2. QED
    BY <1>1, TrackerBehaviour, PTL

=============================================================================
