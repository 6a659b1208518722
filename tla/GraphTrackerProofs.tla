------------------------- MODULE GraphTrackerProofs -------------------------
(***************************************************************************)
(* Theorems about GraphTracker, for every set of ids and of workers, every *)
(* even cycle modulus and every age limit the assumptions allow.           *)
(***************************************************************************)
EXTENDS GraphTracker, TLAPS

USE CycleModAssumption, MaxAgeAssumption

-----------------------------------------------------------------------------
(***************************************************************************)
(* The arithmetic of the wrapping cycle counter.                           *)
(***************************************************************************)

(* The increment of a cycle either adds one or wraps to zero.              *)
LEMMA NextCycleValue ==
  \A c \in Cycles : /\ NextCycle(c) = IF c = CycleMod - 1 THEN 0 ELSE c + 1
                    /\ NextCycle(c) \in Cycles
  BY DEF Cycles, NextCycle

(* The wrap keeps the parities alternating, because CycleMod is even.      *)
LEMMA NextCycleParity ==
  \A c \in Cycles : NextCycle(c) % 2 = 1 - (c % 2)
  <1> SUFFICES ASSUME NEW c \in Cycles PROVE NextCycle(c) % 2 = 1 - (c % 2)
    OBVIOUS
  <1>1. c \in Int /\ CycleMod \in Int /\ CycleMod % 2 = 0
    BY DEF Cycles
  <1>2. CASE c = CycleMod - 1
    <2>1. c % 2 = 1
      BY ONLY <1>1, <1>2
    <2>2. QED
      BY <1>2, <2>1, NextCycleValue
  <1>3. CASE c # CycleMod - 1
    <2>1. (c + 1) % 2 = 1 - (c % 2)
      BY ONLY <1>1
    <2>2. QED
      BY <1>3, <2>1, NextCycleValue
  <1>4. QED
    BY <1>2, <1>3

(* The distance between two cycles, and how it grows.                      *)
LEMMA DistanceValue ==
  \A c, i \in Cycles :
    /\ (c - i) % CycleMod = IF i <= c THEN c - i ELSE c - i + CycleMod
    /\ (c - i) % CycleMod \in Cycles
  BY DEF Cycles

(* The distance to the next cycle is one more, until it wraps. *)
LEMMA DistanceNext ==
  ASSUME NEW c \in Cycles, NEW i \in Cycles,
         (c - i) % CycleMod <= MaxAge
  PROVE  (NextCycle(c) - i) % CycleMod = ((c - i) % CycleMod) + 1
  <1>1. PICK n \in Cycles : n = NextCycle(c)
    BY NextCycleValue
  <1>2. n = IF c = CycleMod - 1 THEN 0 ELSE c + 1
    BY <1>1, NextCycleValue
  <1>3. /\ (c - i) % CycleMod = IF i <= c THEN c - i ELSE c - i + CycleMod
        /\ (n - i) % CycleMod = IF i <= n THEN n - i ELSE n - i + CycleMod
    BY <1>1, DistanceValue
  <1>4. QED
    BY <1>1, <1>2, <1>3 DEF Cycles

(* A cycle and its predecessor have slots. *)
LEMMA SlotType == \A c \in Cycles : c % 2 \in Slots /\ 1 - (c % 2) \in Slots
  BY DEF Cycles, Slots

-----------------------------------------------------------------------------
(***************************************************************************)
(* What the map's operations return.                                       *)
(***************************************************************************)

(* A new entry is an entry. *)
LEMMA NewEntryType ==
  ASSUME NEW c \in Cycles PROVE GraphCorrelationEntry(c) \in Entry
  BY DEF GraphCorrelationEntry, Entry, SlotStates

(* insert keeps the type of the map. *)
LEMMA InsertedType ==
  ASSUME NEW S, NEW m, IsMap(m, S), NEW id \in S, NEW c \in Cycles
  PROVE  IsMap(Inserted(m, id, c), S)
  BY NewEntryType DEF IsMap, Inserted

(* cycle_start keeps the type of the map. *)
LEMMA CycleStartedType ==
  ASSUME NEW S, NEW m, IsMap(m, S), NEW c \in Cycles
  PROVE  /\ IsMap(CycleStarted(m, c), S)
         /\ DOMAIN CycleStarted(m, c) = DOMAIN m
         /\ \A i \in DOMAIN m :
              /\ \A s \in Slots : CycleStarted(m, c)[i].state[s] =
                   IF s = c % 2 THEN "CYCLE_CLEARED" ELSE m[i].state[s]
              /\ CycleStarted(m, c)[i].ever_seen_kernel <=> m[i].ever_seen_kernel
              /\ CycleStarted(m, c)[i].insertion_cycle = m[i].insertion_cycle
  BY SlotType DEF IsMap, CycleStarted, Entry, SlotStates

(* check_and_mark_seen keeps the type of the map. *)
LEMMA MarkedSeenType ==
  ASSUME NEW S, NEW m, IsMap(m, S), NEW id, NEW c \in Cycles
  PROVE  /\ IsMap(MarkedSeen(m, id, c), S)
         /\ DOMAIN MarkedSeen(m, id, c) = DOMAIN m
         /\ \A i \in DOMAIN m :
              /\ i # id => MarkedSeen(m, id, c)[i] = m[i]
              /\ i = id =>
                   /\ \A s \in Slots : MarkedSeen(m, id, c)[i].state[s] =
                        IF s = c % 2 THEN "KERNEL_SEEN" ELSE m[i].state[s]
                   /\ MarkedSeen(m, id, c)[i].ever_seen_kernel
                   /\ MarkedSeen(m, id, c)[i].insertion_cycle =
                        m[i].insertion_cycle
  BY SlotType DEF IsMap, MarkedSeen, Entry, SlotStates

(* cycle_end keeps the type of the map. *)
LEMMA CycleEndedType ==
  ASSUME NEW S, NEW m, IsMap(m, S), NEW c \in Cycles
  PROVE  /\ IsMap(CycleEnded(m, c), S)
         /\ \A i \in DOMAIN CycleEnded(m, c) :
              /\ i \in DOMAIN m /\ CycleEnded(m, c)[i] = m[i]
              /\ ~ShouldRemove(m[i], c)
  BY DEF IsMap, CycleEnded

USE MaxKernelsAssumption

-----------------------------------------------------------------------------
(* Type correctness, for any number of workers.                            *)
THEOREM TypeCorrect == Spec => []TypeOK
  <1>1. Init => TypeOK
    BY NewEntryType DEF Init, TypeOK, IsMap, Cycles, PCs
  <1>2. TypeOK /\ [Next]_vars => TypeOK'
    <2> SUFFICES ASSUME TypeOK, [Next]_vars PROVE TypeOK'
      OBVIOUS
    <2>0. IsMap(map, Ids)
      BY DEF TypeOK
    <2>1. ASSUME NEW id \in Ids, Insert(id) PROVE TypeOK'
      <3>1. IsMap(map', Ids)
        BY <2>0, <2>1, InsertedType DEF TypeOK, Insert
      <3>2. QED
        BY <2>1, <3>1 DEF TypeOK, Insert, IsMap
    <2>2. ASSUME NEW w \in Workers, FetchCycle(w) PROVE TypeOK'
      BY <2>2, NextCycleValue DEF TypeOK, FetchCycle, PCs
    <2>3. ASSUME NEW w \in Workers, CycleStart(w) PROVE TypeOK'
      <3>1. worker[w].cycle \in Cycles
        BY DEF TypeOK
      <3>2. IsMap(map', Ids)
        BY <2>0, <2>3, <3>1, CycleStartedType DEF CycleStart
      <3>3. begun' \in [Ids -> 0 .. (MaxAge + 1)]
        BY <2>3 DEF TypeOK, CycleStart, OneMoreBegun
      <3>4. QED
        BY <2>3, <3>1, <3>2, <3>3 DEF TypeOK, CycleStart, IsMap, PCs
    <2>4. ASSUME NEW w \in Workers, NEW id \in Ids, KernelRecord(w, id)
          PROVE  TypeOK'
      <3>1. worker[w].cycle \in Cycles
        BY DEF TypeOK
      <3>2. IsMap(map', Ids)
        BY <2>0, <2>4, <3>1, MarkedSeenType DEF KernelRecord
      <3>3. toCome' \in [Ids -> 0 .. MaxKernels]
        BY <2>4 DEF TypeOK, KernelRecord
      <3>4. QED
        BY <2>4, <3>2, <3>3 DEF TypeOK, KernelRecord, IsMap
    <2>5. ASSUME NEW w \in Workers, CycleEnd(w) PROVE TypeOK'
      <3>1. IsMap(map', Ids)
        BY <2>0, <2>5, CycleEndedType DEF TypeOK, CycleEnd
      <3>2. QED
        BY <2>5, <3>1 DEF TypeOK, CycleEnd, IsMap, PCs
    <2>6. ASSUME NEW id \in Ids, Lost(id) PROVE TypeOK'
      BY <2>6 DEF TypeOK, Lost, IsMap
    <2>7. CASE UNCHANGED vars
      BY <2>7 DEF TypeOK, vars
    <2>8. QED
      BY <2>1, <2>2, <2>3, <2>4, <2>5, <2>6, <2>7 DEF Next
  <1>3. QED
    BY <1>1, <1>2, PTL DEF Spec

-----------------------------------------------------------------------------
(***************************************************************************)
(* Two buffers before removal, for any number of workers.                  *)
(*                                                                         *)
(* The action property follows from what a cleared slot says: one cleared  *)
(* slot means a cycle_start since the insertion, two cleared slots mean    *)
(* two of them.                                                            *)
(***************************************************************************)
ClearedMeansBegun ==
  \A id \in DOMAIN map :
    /\ (\E s \in Slots : Cleared(map[id], s)) => begun[id] >= 1
    /\ (\A s \in Slots : Cleared(map[id], s)) => begun[id] >= 2

(* ClearedMeansBegun is an invariant. *)
LEMMA ClearedMeansBegunInvariant == Spec => []ClearedMeansBegun
  <1>1. Init => ClearedMeansBegun
    BY DEF Init, ClearedMeansBegun
  <1>2. TypeOK /\ ClearedMeansBegun /\ [Next]_vars => ClearedMeansBegun'
    <2> SUFFICES ASSUME TypeOK, ClearedMeansBegun, [Next]_vars,
                        NEW id \in DOMAIN map'
                 PROVE  ClearedMeansBegun!(id)'
      BY DEF ClearedMeansBegun
    <2>0. IsMap(map, Ids)
      BY DEF TypeOK
    <2>1. ASSUME NEW i \in Ids, Insert(i) PROVE ClearedMeansBegun!(id)'
      BY <2>1 DEF Insert, Inserted, GraphCorrelationEntry, Cleared,
                  ClearedMeansBegun, Slots
    <2>2. ASSUME NEW w \in Workers, FetchCycle(w) PROVE ClearedMeansBegun!(id)'
      BY <2>2 DEF FetchCycle, ClearedMeansBegun, Cleared
    <2>3. ASSUME NEW w \in Workers, CycleStart(w) PROVE ClearedMeansBegun!(id)'
      <3>1. worker[w].cycle \in Cycles /\ id \in Ids /\ begun[id] \in Nat
        BY <2>0, <2>3 DEF TypeOK, IsMap, CycleStart, CycleStarted
      <3>2. /\ id \in DOMAIN map
            /\ \A s \in Slots : map'[id].state[s] =
                 IF s = worker[w].cycle % 2 THEN "CYCLE_CLEARED"
                                            ELSE map[id].state[s]
        BY <2>0, <2>3, <3>1, CycleStartedType DEF CycleStart
      <3>3. begun'[id] = OneMoreBegun(begun[id])
        BY <2>3, <3>1, <3>2 DEF CycleStart
      <3>4. begun'[id] >= 1
        BY <3>1, <3>3 DEF OneMoreBegun
      <3>5. ASSUME \A s \in Slots : Cleared(map'[id], s) PROVE begun'[id] >= 2
        <4>1. \E s \in Slots : Cleared(map[id], s)
          <5>1. PICK s \in Slots : s # worker[w].cycle % 2
            BY DEF Slots
          <5>2. map'[id].state[s] = map[id].state[s]
            BY <3>2, <5>1
          <5>3. QED
            BY <3>5, <5>1, <5>2 DEF Cleared
        <4>2. QED
          BY <3>1, <3>2, <3>3, <4>1 DEF OneMoreBegun, ClearedMeansBegun
      <3>6. QED
        BY <3>4, <3>5
    <2>4. ASSUME NEW w \in Workers, NEW i \in Ids, KernelRecord(w, i)
          PROVE  ClearedMeansBegun!(id)'
      <3>1. /\ worker[w].cycle \in Cycles
            /\ map' = MarkedSeen(map, i, worker[w].cycle)
        BY <2>4 DEF TypeOK, KernelRecord
      <3>2. /\ id \in DOMAIN map
            /\ id # i => map'[id] = map[id]
            /\ id = i => \A s \in Slots : map'[id].state[s] =
                 IF s = worker[w].cycle % 2 THEN "KERNEL_SEEN"
                                            ELSE map[id].state[s]
        BY <2>0, <3>1, MarkedSeenType
      <3>4. \A s \in Slots : Cleared(map'[id], s) => Cleared(map[id], s)
        BY <3>2 DEF Cleared
      <3>5. QED
        BY <2>4, <3>2, <3>4 DEF KernelRecord, ClearedMeansBegun
    <2>5. ASSUME NEW w \in Workers, CycleEnd(w) PROVE ClearedMeansBegun!(id)'
      <3>0. current_cycle \in Cycles /\ map' = CycleEnded(map, current_cycle)
        BY <2>5 DEF TypeOK, CycleEnd
      <3>1. id \in DOMAIN map /\ map'[id] = map[id]
        BY <2>0, <3>0, CycleEndedType
      <3>2. QED
        BY <2>5, <3>1 DEF CycleEnd, ClearedMeansBegun, Cleared
    <2>6. CASE (\E i \in Ids : Lost(i)) \/ UNCHANGED vars
      BY <2>6 DEF Lost, vars, ClearedMeansBegun, Cleared
    <2>7. QED
      BY <2>1, <2>2, <2>3, <2>4, <2>5, <2>6 DEF Next
  <1>3. QED
    BY <1>1, <1>2, TypeCorrect, PTL DEF Spec

(* Only cycle_end removes an entry, and only one with two cleared slots.   *)
LEMMA RemovalNeedsTwoCleared ==
  ASSUME TypeOK, [Next]_vars, NEW id \in Ids, Removed(id)
  PROVE  /\ \A s \in Slots : Cleared(map[id], s)
         /\ \E w \in Workers : CycleEnd(w)
  <1>0. IsMap(map, Ids)
    BY DEF TypeOK
  <1>1. ASSUME NEW i \in Ids, Insert(i) PROVE FALSE
    BY <1>1 DEF Insert, Inserted, Removed
  <1>2. ASSUME NEW w \in Workers, FetchCycle(w) PROVE FALSE
    BY <1>2 DEF FetchCycle, Removed
  <1>3. ASSUME NEW w \in Workers, CycleStart(w) PROVE FALSE
    BY <1>3 DEF CycleStart, CycleStarted, Removed
  <1>4. ASSUME NEW w \in Workers, NEW i \in Ids, KernelRecord(w, i) PROVE FALSE
    BY <1>4 DEF KernelRecord, MarkedSeen, Removed
  <1>5. ASSUME NEW w \in Workers, CycleEnd(w)
        PROVE  \A s \in Slots : Cleared(map[id], s)
    BY <1>5 DEF CycleEnd, CycleEnded, ShouldRemove, Removed, Cleared
  <1>6. ~UNCHANGED vars /\ \A i \in Ids : ~Lost(i)
    BY DEF Lost, vars, Removed
  <1>7. QED
    BY <1>1, <1>2, <1>3, <1>4, <1>5, <1>6 DEF Next

(* No entry is removed before two buffers have begun since its insertion,  *)
(* whatever the number of threads in completeBuffer and their order.       *)
THEOREM RemovalAfterTwoBuffers == Spec => TwoBuffersBeforeRemoval
  <1>1. TypeOK /\ ClearedMeansBegun /\ [Next]_vars
          => [\A id \in Ids : Removed(id) => begun[id] >= 2]_vars
    BY RemovalNeedsTwoCleared DEF ClearedMeansBegun, Removed
  <1>2. QED
    BY <1>1, TypeCorrect, ClearedMeansBegunInvariant, PTL
    DEF Spec, TwoBuffersBeforeRemoval

-----------------------------------------------------------------------------
(***************************************************************************)
(* One worker: GraphTracker implements GraphQuiet.                         *)
(*                                                                         *)
(* The invariant relates the two cycle counters to the worker's program    *)
(* counter, and the slots of an entry that has seen no kernel to its age:  *)
(* from age 1 on the slot of the latest cycle is cleared, from age 2 on    *)
(* both are, so cycle_end cannot let the age grow beyond MaxAge and the    *)
(* subtraction of the cycles cannot wrap.                                  *)
(***************************************************************************)
CountersAgree(w) ==
  LET pc == worker[w].pc
      cycle == worker[w].cycle
  IN  /\ pc = "idle" => g_bufferCycle \in {current_cycle, NextCycle(current_cycle)}
      /\ pc = "starting" => /\ g_bufferCycle = NextCycle(cycle)
                            /\ cycle \in {current_cycle, NextCycle(current_cycle)}
      /\ pc = "records" => /\ g_bufferCycle = NextCycle(cycle)
                           /\ cycle = current_cycle

(* No buffer has been started: nothing can have touched an entry.          *)
PristineBeforeStart ==
  NotStarted => \A id \in DOMAIN map :
                  /\ \A s \in Slots : ~Cleared(map[id], s)
                  /\ ~map[id].ever_seen_kernel
                  /\ map[id].insertion_cycle = current_cycle

UnseenEntriesYoung(w) ==
  \A id \in DOMAIN map :
    ~map[id].ever_seen_kernel =>
      LET age == Age(map[id], current_cycle) IN
      /\ age <= MaxAge + 1
      /\ worker[w].pc # "records" => age <= MaxAge
      /\ age >= 1 => Cleared(map[id], current_cycle % 2)
      /\ age >= 2 => \A s \in Slots : Cleared(map[id], s)

FreshUntracked == DOMAIN map \cap fresh = {}

(* What holds of the map when one worker processes every buffer. *)
OneWorkerInv(w) ==
  /\ CountersAgree(w)
  /\ PristineBeforeStart
  /\ UnseenEntriesYoung(w)
  /\ FreshUntracked

(* Before and after the first cycle_start, seen from the only worker.      *)
LEMMA NotStartedOneWorker ==
  ASSUME NEW w, Workers = {w}
  PROVE  NotStarted <=> \/ worker[w].pc = "idle" /\ g_bufferCycle = current_cycle
                        \/ worker[w].pc = "starting" /\ worker[w].cycle = current_cycle
  BY DEF NotStarted

(* Two consecutive cycles are never the same. *)
LEMMA NextCycleDiffers == \A c \in Cycles : NextCycle(c) # c
  BY NextCycleValue DEF Cycles

(* With one worker OneWorkerInv is an invariant. *)
LEMMA OneWorkerInvariant ==
  ASSUME NEW w, Workers = {w}
  PROVE  Spec => []OneWorkerInv(w)
  <1>1. Init => OneWorkerInv(w)
    BY DEF Init, OneWorkerInv, CountersAgree, PristineBeforeStart,
           UnseenEntriesYoung, FreshUntracked
  <1>2. TypeOK /\ OneWorkerInv(w) /\ [Next]_vars => OneWorkerInv(w)'
    <2> SUFFICES ASSUME TypeOK, OneWorkerInv(w), [Next]_vars
                 PROVE  OneWorkerInv(w)'
      OBVIOUS
    <2>0. /\ IsMap(map, Ids) /\ w \in Workers
          /\ worker \in [Workers -> [pc : PCs, cycle : Cycles]]
          /\ current_cycle \in Cycles /\ g_bufferCycle \in Cycles
      BY DEF TypeOK
    <2>1. ASSUME NEW i \in Ids, Insert(i) PROVE OneWorkerInv(w)'
      <3>1. CountersAgree(w)'
        BY <2>1 DEF Insert, OneWorkerInv, CountersAgree
      <3>2. FreshUntracked'
        BY <2>1 DEF Insert, Inserted, OneWorkerInv, FreshUntracked
      <3>3. ASSUME NEW id \in DOMAIN map'
            PROVE  \/ id \in DOMAIN map /\ map'[id] = map[id]
                   \/ map'[id] = GraphCorrelationEntry(current_cycle)
        BY <2>1 DEF Insert, Inserted
      <3>4. Age(GraphCorrelationEntry(current_cycle), current_cycle) = 0
        BY <2>0 DEF Age, GraphCorrelationEntry, Cycles
      <3>5. PristineBeforeStart'
        BY <2>1, <3>3 DEF Insert, OneWorkerInv, PristineBeforeStart, NotStarted,
                          GraphCorrelationEntry, Cleared, Slots
      <3>6. UnseenEntriesYoung(w)'
        BY <2>1, <3>3, <3>4 DEF Insert, OneWorkerInv, UnseenEntriesYoung, Cleared,
                                Age
      <3>7. QED
        BY <3>1, <3>2, <3>5, <3>6 DEF OneWorkerInv
    <2>2. ASSUME FetchCycle(w) PROVE OneWorkerInv(w)'
      <3>1. /\ worker'[w] = [pc |-> "starting", cycle |-> g_bufferCycle]
            /\ worker[w].pc = "idle"
            /\ g_bufferCycle' = NextCycle(g_bufferCycle)
            /\ UNCHANGED <<map, current_cycle, fresh>>
        BY <2>0, <2>2 DEF FetchCycle
      <3>2. CountersAgree(w)'
        BY <3>1 DEF OneWorkerInv, CountersAgree
      <3>3. NotStarted' => NotStarted
        BY <3>1, NotStartedOneWorker DEF NotStarted
      <3>4. PristineBeforeStart'
        BY <3>1, <3>3 DEF OneWorkerInv, PristineBeforeStart, Cleared
      <3>5. UnseenEntriesYoung(w)'
        BY <3>1 DEF OneWorkerInv, UnseenEntriesYoung, Cleared, Age
      <3>6. QED
        BY <3>1, <3>2, <3>4, <3>5 DEF OneWorkerInv, FreshUntracked
    <2>3. ASSUME CycleStart(w) PROVE OneWorkerInv(w)'
      <3>1. PICK c \in Cycles : c = worker[w].cycle
        BY <2>0
      <3>2. /\ worker[w].pc = "starting"
            /\ worker'[w].pc = "records" /\ worker'[w].cycle = c
            /\ current_cycle' = c
            /\ map' = CycleStarted(map, c)
            /\ g_bufferCycle' = g_bufferCycle /\ fresh' = fresh
        BY <2>0, <2>3, <3>1 DEF CycleStart
      <3>3. CountersAgree(w)'
        BY <3>1, <3>2 DEF OneWorkerInv, CountersAgree
      <3>4. ~NotStarted'
        BY <3>2, <2>0 DEF NotStarted
      <3>5. c \in {current_cycle, NextCycle(current_cycle)}
        BY <3>1, <3>2 DEF OneWorkerInv, CountersAgree
      <3>6. DOMAIN map' = DOMAIN map
        BY <3>2 DEF CycleStarted
      <3>7. ASSUME NEW id \in DOMAIN map, ~map'[id].ever_seen_kernel
            PROVE  LET age == Age(map'[id], c) IN
                   /\ age <= MaxAge + 1
                   /\ age >= 1 => Cleared(map'[id], c % 2)
                   /\ age >= 2 => \A s \in Slots : Cleared(map'[id], s)
        <4>0. IsMap(map, Ids) /\ map' = CycleStarted(map, c)
          BY <2>0, <3>2
        <4>1. /\ \A s \in Slots : map'[id].state[s] =
                   IF s = c % 2 THEN "CYCLE_CLEARED" ELSE map[id].state[s]
              /\ map'[id].insertion_cycle = map[id].insertion_cycle
          BY <4>0, CycleStartedType
        <4>2. ~map[id].ever_seen_kernel
          BY <2>0, <3>2, <3>7, CycleStartedType
        <4>3. PICK ins \in Cycles : ins = map[id].insertion_cycle
          BY <2>0 DEF IsMap, Entry
        <4>4. Cleared(map'[id], c % 2)
          BY <4>1, SlotType DEF Cleared
        <4>5. CASE c = current_cycle
          <5>1. NotStarted
            BY <3>1, <3>2, <4>5, NotStartedOneWorker
          <5>2. ins = c
            BY <4>3, <4>5, <5>1 DEF OneWorkerInv, PristineBeforeStart
          <5>3. Age(map'[id], c) = 0
            BY <4>1, <4>3, <5>2 DEF Age, Cycles
          <5>4. QED
            BY <5>3, <4>4
        <4>6. CASE c = NextCycle(current_cycle)
          <5>1. /\ (current_cycle - ins) % CycleMod <= MaxAge
                /\ (current_cycle - ins) % CycleMod >= 1
                     => Cleared(map[id], current_cycle % 2)
            BY <3>2, <4>2, <4>3 DEF OneWorkerInv, UnseenEntriesYoung, Age
          <5>2. Age(map'[id], c) = ((current_cycle - ins) % CycleMod) + 1
            BY <2>0, <4>1, <4>3, <4>6, <5>1, DistanceNext DEF Age
          <5>3. (current_cycle - ins) % CycleMod \in Nat
            BY <2>0, DistanceValue DEF Cycles
          <5>4. ASSUME (current_cycle - ins) % CycleMod >= 1
                PROVE  \A s \in Slots : Cleared(map'[id], s)
            <6>1. c % 2 = 1 - (current_cycle % 2)
              BY <2>0, <4>6, NextCycleParity
            <6>2. \A s \in Slots : s # c % 2 => s = current_cycle % 2
              BY <2>0, <6>1, SlotType DEF Slots, Cycles
            <6>3. QED
              BY <4>1, <5>1, <5>4, <6>2 DEF Cleared
          <5>5. QED
            BY <4>4, <5>1, <5>2, <5>3, <5>4
        <4>7. QED
          BY <3>5, <4>5, <4>6
      <3>8. UnseenEntriesYoung(w)'
        BY <3>2, <3>6, <3>7 DEF UnseenEntriesYoung, Cleared, Age
      <3>9. QED
        BY <3>2, <3>3, <3>4, <3>6, <3>8
        DEF OneWorkerInv, PristineBeforeStart, FreshUntracked
    <2>4. ASSUME NEW i \in Ids, KernelRecord(w, i) PROVE OneWorkerInv(w)'
      <3>1. /\ worker[w].pc = "records"
            /\ worker[w].cycle = current_cycle
            /\ map' = MarkedSeen(map, i, current_cycle)
            /\ UNCHANGED <<current_cycle, g_bufferCycle, worker, fresh>>
        BY <2>4 DEF KernelRecord, OneWorkerInv, CountersAgree
      <3>2. DOMAIN map' = DOMAIN map
        BY <3>1 DEF MarkedSeen
      <3>3. CountersAgree(w)'
        BY <3>1 DEF OneWorkerInv, CountersAgree
      <3>4. ~NotStarted'
        BY <2>0, <3>1 DEF NotStarted
      <3>5. \A id \in DOMAIN map :
              ~map'[id].ever_seen_kernel =>
                /\ ~map[id].ever_seen_kernel
                /\ map'[id] = map[id]
        BY <2>0, <3>1, MarkedSeenType
      <3>6. UnseenEntriesYoung(w)'
        BY <3>1, <3>2, <3>5 DEF OneWorkerInv, UnseenEntriesYoung, Cleared, Age
      <3>7. QED
        BY <3>1, <3>2, <3>3, <3>4, <3>6
        DEF OneWorkerInv, PristineBeforeStart, FreshUntracked
    <2>5. ASSUME CycleEnd(w) PROVE OneWorkerInv(w)'
      <3>1. /\ worker[w].pc = "records"
            /\ worker'[w].pc = "idle"
            /\ map' = CycleEnded(map, current_cycle)
            /\ UNCHANGED <<current_cycle, g_bufferCycle, fresh>>
        BY <2>0, <2>5 DEF CycleEnd
      <3>2. \A id \in DOMAIN map' :
              /\ id \in DOMAIN map /\ map'[id] = map[id]
              /\ ~ShouldRemove(map[id], current_cycle)
        BY <2>0, <3>1, CycleEndedType
      <3>3. g_bufferCycle = NextCycle(current_cycle)
        BY <3>1 DEF OneWorkerInv, CountersAgree
      <3>4. CountersAgree(w)'
        BY <3>1, <3>3 DEF CountersAgree
      <3>5. ~NotStarted'
        BY <2>0, <3>1, <3>3, NextCycleDiffers DEF NotStarted
      <3>6. ASSUME NEW id \in DOMAIN map', ~map'[id].ever_seen_kernel
            PROVE  Age(map[id], current_cycle) <= MaxAge
        <4>1. Age(map[id], current_cycle) \in Cycles
          BY <2>0, <3>2, DistanceValue DEF Age, IsMap, Entry
        <4>2. Age(map[id], current_cycle) >= 2
                => \A s \in Slots : Cleared(map[id], s)
          BY <3>2, <3>6 DEF OneWorkerInv, UnseenEntriesYoung
        <4>3. ~((\A s \in Slots : Cleared(map[id], s))
                /\ Age(map[id], current_cycle) > MaxAge)
          BY <3>2 DEF ShouldRemove, Cleared
        <4>4. QED
          BY <4>1, <4>2, <4>3 DEF Cycles
      <3>7. UnseenEntriesYoung(w)'
        BY <3>1, <3>2, <3>6 DEF OneWorkerInv, UnseenEntriesYoung, Cleared, Age
      <3>8. FreshUntracked'
        BY <3>1, <3>2 DEF OneWorkerInv, FreshUntracked
      <3>9. QED
        BY <3>4, <3>5, <3>7, <3>8 DEF OneWorkerInv, PristineBeforeStart
    <2>6. CASE (\E i \in Ids : Lost(i)) \/ UNCHANGED vars
      BY <2>6 DEF Lost, vars, OneWorkerInv, CountersAgree, PristineBeforeStart,
                  UnseenEntriesYoung, FreshUntracked, NotStarted, Cleared, Age
    <2>7. QED
      BY <2>1, <2>2, <2>3, <2>4, <2>5, <2>6 DEF Next
  <1>3. QED
    BY <1>1, <1>2, TypeCorrect, PTL DEF Spec

-----------------------------------------------------------------------------
(***************************************************************************)
(* One worker: an entry that never had a kernel waits for its age.  The    *)
(* history begun counts at least as many buffers as the wrapping age does. *)
(***************************************************************************)
BegunCoversAge ==
  \A id \in DOMAIN map :
    ~map[id].ever_seen_kernel => begun[id] >= Age(map[id], current_cycle)

(* How cycle_start ages an entry: by nothing before the first buffer of    *)
(* all, by one afterwards.                                                 *)
LEMMA CycleStartAges ==
  ASSUME NEW w, Workers = {w}, TypeOK, OneWorkerInv(w), CycleStart(w),
         NEW id \in DOMAIN map, ~map[id].ever_seen_kernel
  PROVE  /\ Age(map[id], current_cycle) \in 0 .. MaxAge
         /\ Age(map'[id], current_cycle') \in
              {Age(map[id], current_cycle), Age(map[id], current_cycle) + 1}
  <1>1. /\ IsMap(map, Ids) /\ w \in Workers /\ current_cycle \in Cycles
        /\ worker[w].cycle \in Cycles
    BY DEF TypeOK
  <1>2. PICK ins \in Cycles : ins = map[id].insertion_cycle
    BY <1>1 DEF IsMap, Entry
  <1>3. PICK c \in Cycles : c = worker[w].cycle
    BY <1>1
  <1>4. /\ worker[w].pc = "starting" /\ current_cycle' = c
        /\ map' = CycleStarted(map, c)
    BY <1>3 DEF CycleStart
  <1>5. c = current_cycle \/ c = NextCycle(current_cycle)
    BY <1>3, <1>4 DEF OneWorkerInv, CountersAgree
  <1>6. map'[id].insertion_cycle = ins
    BY <1>1, <1>2, <1>4, CycleStartedType
  <1>7. (current_cycle - ins) % CycleMod \in 0 .. MaxAge
    <2>1. (current_cycle - ins) % CycleMod \in Cycles
      BY <1>1, DistanceValue
    <2>2. (current_cycle - ins) % CycleMod <= MaxAge
      BY <1>2, <1>4 DEF OneWorkerInv, UnseenEntriesYoung, Age
    <2>3. QED
      BY <2>1, <2>2 DEF Cycles
  <1>8. (NextCycle(current_cycle) - ins) % CycleMod
          = ((current_cycle - ins) % CycleMod) + 1
    BY <1>1, <1>7, DistanceNext
  <1>9. QED
    BY <1>2, <1>4, <1>5, <1>6, <1>7, <1>8 DEF Age

(* With one worker BegunCoversAge is an invariant. *)
LEMMA BegunCoversAgeInvariant ==
  ASSUME NEW w, Workers = {w}
  PROVE  Spec => []BegunCoversAge
  <1>1. Init => BegunCoversAge
    BY DEF Init, BegunCoversAge
  <1>2. TypeOK /\ OneWorkerInv(w) /\ BegunCoversAge /\ [Next]_vars => BegunCoversAge'
    <2> SUFFICES ASSUME TypeOK, OneWorkerInv(w), BegunCoversAge, [Next]_vars,
                        NEW id \in DOMAIN map', ~map'[id].ever_seen_kernel
                 PROVE  begun'[id] >= Age(map'[id], current_cycle')
      BY DEF BegunCoversAge
    <2>1. /\ IsMap(map, Ids) /\ w \in Workers /\ current_cycle \in Cycles
          /\ begun \in [Ids -> 0 .. (MaxAge + 1)]
      BY DEF TypeOK
    <2>2. ASSUME NEW i \in Ids, Insert(i)
          PROVE  begun'[id] >= Age(map'[id], current_cycle')
      <3>1. CASE id \in DOMAIN map
        BY <2>2, <3>1 DEF Insert, Inserted, BegunCoversAge, Age
      <3>2. CASE id \notin DOMAIN map
        <4>1. id = i /\ map'[id] = GraphCorrelationEntry(current_cycle)
          BY <2>2, <3>2 DEF Insert, Inserted
        <4>2. Age(GraphCorrelationEntry(current_cycle), current_cycle) = 0
          BY <2>1 DEF Age, GraphCorrelationEntry, Cycles
        <4>3. QED
          BY <2>1, <2>2, <4>1, <4>2 DEF Insert
      <3>3. QED
        BY <3>1, <3>2
    <2>3. ASSUME CycleStart(w)
          PROVE  begun'[id] >= Age(map'[id], current_cycle')
      <3>1. id \in DOMAIN map /\ id \in Ids /\ ~map[id].ever_seen_kernel
        <4>1. worker[w].cycle \in Cycles /\ map' = CycleStarted(map, worker[w].cycle)
          BY <2>1, <2>3 DEF TypeOK, CycleStart
        <4>2. QED
          BY <2>1, <4>1, CycleStartedType DEF IsMap
      <3>2. begun'[id] = OneMoreBegun(begun[id]) /\ begun[id] \in 0 .. (MaxAge + 1)
        BY <2>1, <2>3, <3>1 DEF CycleStart
      <3>3. begun[id] >= Age(map[id], current_cycle)
        BY <3>1 DEF BegunCoversAge
      <3>4. /\ Age(map[id], current_cycle) \in 0 .. MaxAge
            /\ Age(map'[id], current_cycle') \in
                 {Age(map[id], current_cycle), Age(map[id], current_cycle) + 1}
        BY <2>3, <3>1, CycleStartAges
      <3>5. QED
        BY <3>2, <3>3, <3>4 DEF OneMoreBegun
    <2>4. ASSUME NEW i \in Ids, KernelRecord(w, i)
          PROVE  begun'[id] >= Age(map'[id], current_cycle')
      <3>1. worker[w].cycle \in Cycles /\ map' = MarkedSeen(map, i, worker[w].cycle)
        BY <2>1, <2>4 DEF TypeOK, KernelRecord
      <3>2. id \in DOMAIN map /\ map'[id] = map[id]
        BY <2>1, <3>1, MarkedSeenType
      <3>3. QED
        BY <2>4, <3>2 DEF KernelRecord, BegunCoversAge
    <2>5. ASSUME CycleEnd(w)
          PROVE  begun'[id] >= Age(map'[id], current_cycle')
      BY <2>5 DEF CycleEnd, CycleEnded, BegunCoversAge
    <2>6. CASE FetchCycle(w) \/ (\E i \in Ids : Lost(i)) \/ UNCHANGED vars
      BY <2>6 DEF FetchCycle, Lost, vars, BegunCoversAge
    <2>7. QED
      BY <2>2, <2>3, <2>4, <2>5, <2>6 DEF Next
  <1>3. QED
    BY <1>1, <1>2, TypeCorrect, OneWorkerInvariant, PTL DEF Spec

(* One buffer at a time, an entry that never had a kernel is not thrown    *)
(* away before more than MaxAge buffers have begun, through every wrap of  *)
(* the cycle counter.  With two workers this is false.                     *)
THEOREM UnseenRemovedOnlyOld ==
  ASSUME NEW w, Workers = {w}
  PROVE  Spec => UnseenLeavesOnlyOld
  <1>1. ASSUME TypeOK, OneWorkerInv(w), BegunCoversAge, [Next]_vars,
               NEW id \in Ids, Removed(id), ~map[id].ever_seen_kernel
        PROVE  begun[id] > MaxAge
    <2>1. CycleEnd(w) /\ IsMap(map, Ids) /\ current_cycle \in Cycles
          /\ begun[id] \in Nat /\ id \in DOMAIN map
      BY <1>1, RemovalNeedsTwoCleared DEF TypeOK, Removed
    <2>2. ShouldRemove(map[id], current_cycle)
      BY <1>1, <2>1 DEF CycleEnd, CycleEnded, Removed
    <2>3. Age(map[id], current_cycle) > MaxAge
      BY <1>1, <2>2 DEF ShouldRemove
    <2>4. Age(map[id], current_cycle) \in Cycles
      BY <2>1, DistanceValue DEF Age, IsMap, Entry
    <2>5. QED
      BY <1>1, <2>1, <2>3, <2>4 DEF BegunCoversAge, Cycles
  <1>2. TypeOK /\ OneWorkerInv(w) /\ BegunCoversAge /\ [Next]_vars
          => [\A id \in Ids : Removed(id) /\ ~map[id].ever_seen_kernel
                                => begun[id] > MaxAge]_vars
    BY <1>1
  <1>3. QED
    BY <1>2, TypeCorrect, OneWorkerInvariant, BegunCoversAgeInvariant, PTL
    DEF Spec, UnseenLeavesOnlyOld

-----------------------------------------------------------------------------
(* The refinement mapping of GraphTracker, by name.                        *)
Tracked == [i \in DOMAIN map |-> QuietView(map[i])]
Open == \E w \in Workers : worker[w].pc = "records"
Started == ~NotStarted

(* cycle_start is the beginning of a quiet buffer for every entry.         *)
LEMMA CycleStartBegins ==
  ASSUME NEW w, Workers = {w}, TypeOK, OneWorkerInv(w), CycleStart(w)
  PROVE  Quiet!Begin
  <1>0. /\ IsMap(map, Ids)
        /\ current_cycle \in Cycles /\ worker[w].cycle \in Cycles
    BY DEF TypeOK
  <1>1. PICK c \in Cycles : c = worker[w].cycle
    BY <1>0
  <1>2. /\ worker[w].pc = "starting" /\ worker'[w].pc = "records"
        /\ current_cycle' = c
        /\ map' = CycleStarted(map, c)
    BY <1>1 DEF CycleStart, TypeOK
  <1>3. c = current_cycle \/ c = NextCycle(current_cycle)
    BY <1>1, <1>2 DEF OneWorkerInv, CountersAgree
  <1>4. NotStarted <=> c = current_cycle
    BY <1>1, <1>2, NotStartedOneWorker
  <1>5. ~Open /\ Open' /\ Started'
    BY <1>2 DEF Open, Started, NotStarted
  <1>6. DOMAIN map' = DOMAIN map
    BY <1>2 DEF CycleStarted
  <1>7. ASSUME NEW i \in DOMAIN map
        PROVE  QuietView(map[i])' =
                 [quiet |-> TRUE, quietBefore |-> QuietView(map[i]).quiet,
                  seen |-> QuietView(map[i]).seen,
                  waited |-> IF QuietView(map[i]).seen \/ ~Started
                             THEN QuietView(map[i]).waited
                             ELSE QuietView(map[i]).waited + 1]
    <2>0. IsMap(map, Ids) /\ map' = CycleStarted(map, c)
      BY <1>0, <1>2
    <2>1. \A s \in Slots : map'[i].state[s] =
             IF s = c % 2 THEN "CYCLE_CLEARED" ELSE map[i].state[s]
      BY <2>0, CycleStartedType
    <2>2. map'[i].ever_seen_kernel = map[i].ever_seen_kernel
      BY <2>0 DEF CycleStarted, IsMap, Entry
    <2>3. map'[i].insertion_cycle = map[i].insertion_cycle
      BY <2>0, CycleStartedType
    <2>4. Cleared(map'[i], c % 2)
      BY <2>1, SlotType DEF Cleared
    <2>5. Cleared(map'[i], 1 - (c % 2)) <=> Cleared(map[i], current_cycle % 2)
      <3>1. CASE c = current_cycle
        <4>1. \A s \in Slots : ~Cleared(map[i], s)
          BY <1>4, <3>1 DEF OneWorkerInv, PristineBeforeStart
        <4>2. 1 - (c % 2) \in Slots /\ c % 2 \in Slots /\ 1 - (c % 2) # c % 2
          BY SlotType DEF Slots, Cycles
        <4>3. QED
          BY <2>1, <3>1, <4>1, <4>2 DEF Cleared
      <3>2. CASE c = NextCycle(current_cycle)
        <4>1. /\ 1 - (c % 2) \in Slots /\ 1 - (c % 2) # c % 2
              /\ 1 - (c % 2) = current_cycle % 2
          BY <1>0, <3>2, NextCycleParity, SlotType DEF Slots, Cycles
        <4>2. QED
          BY <2>1, <4>1 DEF Cleared
      <3>3. QED
        BY <1>3, <3>1, <3>2
    <2>6. ~map[i].ever_seen_kernel =>
            Age(map'[i], c) = IF Started THEN Age(map[i], current_cycle) + 1
                                         ELSE Age(map[i], current_cycle)
      <3>1. PICK ins \in Cycles : ins = map[i].insertion_cycle
        BY <1>0 DEF IsMap, Entry
      <3>2. CASE c = current_cycle
        BY <1>4, <2>3, <3>2 DEF Age, Started
      <3>3. CASE c # current_cycle /\ ~map[i].ever_seen_kernel
        <4>1. Age(map[i], current_cycle) <= MaxAge
          BY <1>2, <3>3 DEF OneWorkerInv, UnseenEntriesYoung
        <4>2. (current_cycle - ins) % CycleMod <= MaxAge
          BY <3>1, <4>1 DEF Age
        <4>3. (NextCycle(current_cycle) - ins) % CycleMod
                = ((current_cycle - ins) % CycleMod) + 1
          BY <1>0, <4>2, DistanceNext
        <4>4. QED
          BY <1>3, <1>4, <2>3, <3>1, <3>3, <4>3 DEF Age, Started
      <3>4. QED
        BY <3>2, <3>3
    <2>7. /\ QuietView(map[i]).quiet = Cleared(map[i], current_cycle % 2)
          /\ QuietView(map[i]).seen = map[i].ever_seen_kernel
          /\ QuietView(map[i]).waited =
               IF map[i].ever_seen_kernel THEN 0 ELSE Age(map[i], current_cycle)
      BY DEF QuietView
    <2>8. Cleared(map'[i], c % 2) = TRUE
      BY <2>4
    <2>9. Cleared(map'[i], 1 - (c % 2)) = QuietView(map[i]).quiet
      BY <2>5, <2>7 DEF Cleared
    <2>10. map[i].ever_seen_kernel \in BOOLEAN
      BY <1>0 DEF IsMap, Entry
    <2>11. (IF map'[i].ever_seen_kernel THEN 0 ELSE Age(map'[i], c)) =
             IF QuietView(map[i]).seen \/ ~Started
             THEN QuietView(map[i]).waited ELSE QuietView(map[i]).waited + 1
      BY <2>2, <2>6, <2>7, <2>10
    <2>12. QED
      BY <1>2, <2>2, <2>7, <2>8, <2>9, <2>11, Zenon DEF QuietView
  <1>8. QED
    BY <1>5, <1>6, <1>7 DEF Quiet!Begin, Quiet!OneMore, Tracked, Open, Started

(* Buffer after buffer, the two-slot map implements GraphQuiet: an entry   *)
(* goes after two quiet buffers, however the cycle counter wraps.          *)
THEOREM Refinement ==
  ASSUME NEW w, Workers = {w}
  PROVE  Spec => ImplementsQuiet
  <1>1. Init => Quiet!QInit
    BY NotStartedOneWorker DEF Init, Quiet!QInit
  <1>2. TypeOK /\ OneWorkerInv(w) /\ [Next]_vars => [Quiet!QNext]_(Quiet!qvars)
    <2> SUFFICES ASSUME TypeOK, OneWorkerInv(w), [Next]_vars
                 PROVE  [Quiet!QNext]_(Quiet!qvars)
      OBVIOUS
    <2>0. /\ IsMap(map, Ids) /\ w \in Workers
          /\ current_cycle \in Cycles
      BY DEF TypeOK
    <2>1. ASSUME NEW i \in Ids, Insert(i) PROVE Quiet!Track(i)
      <3>1. /\ DOMAIN map' = DOMAIN map \cup {i}
            /\ i \notin DOMAIN map
            /\ \A j \in DOMAIN map : map'[j] = map[j]
            /\ map'[i] = GraphCorrelationEntry(current_cycle)
        BY <2>1 DEF Insert, Inserted, OneWorkerInv, FreshUntracked
      <3>2. UNCHANGED <<current_cycle, g_bufferCycle, worker>>
        BY <2>1 DEF Insert
      <3>3. QuietView(map[i])' = Quiet!NoNews
        <4>1. Age(GraphCorrelationEntry(current_cycle), current_cycle) = 0
          BY <2>0 DEF Age, GraphCorrelationEntry, Cycles
        <4>2. \A s \in Slots : ~Cleared(GraphCorrelationEntry(current_cycle), s)
          BY DEF GraphCorrelationEntry, Cleared
        <4>4. /\ Cleared(map'[i], current_cycle' % 2) = FALSE
              /\ Cleared(map'[i], 1 - (current_cycle' % 2)) = FALSE
          BY <2>0, <3>1, <3>2, <4>2, SlotType
        <4>5. map'[i].ever_seen_kernel = FALSE
          BY <3>1 DEF GraphCorrelationEntry
        <4>6. (IF map'[i].ever_seen_kernel THEN 0 ELSE Age(map'[i], current_cycle')) = 0
          BY <3>1, <3>2, <4>1
        <4>7. QED
          BY <4>4, <4>5, <4>6, Zenon DEF QuietView, Quiet!NoNews
      <3>4. \A j \in DOMAIN map : QuietView(map[j])' = QuietView(map[j])
        BY <3>1, <3>2 DEF QuietView, Cleared, Age
      <3>5. Tracked' = [j \in DOMAIN Tracked \cup {i} |->
                          IF j \in DOMAIN Tracked THEN Tracked[j] ELSE Quiet!NoNews]
        BY <3>1, <3>3, <3>4 DEF Tracked
      <3>6. UNCHANGED <<Open, Started>>
        BY <3>2 DEF Open, Started, NotStarted
      <3>7. QED
        BY <3>1, <3>5, <3>6 DEF Quiet!Track, Tracked, Open, Started
    <2>2. ASSUME FetchCycle(w) PROVE UNCHANGED Quiet!qvars
      <3>1. /\ worker[w].pc = "idle"
            /\ worker'[w] = [pc |-> "starting", cycle |-> g_bufferCycle]
            /\ UNCHANGED <<map, current_cycle>>
        BY <2>0, <2>2 DEF FetchCycle, TypeOK
      <3>2. UNCHANGED Tracked
        BY <3>1 DEF Tracked, QuietView, Cleared, Age
      <3>3. ~Open /\ ~Open'
        BY <3>1 DEF Open
      <3>4. Started' <=> Started
        BY <3>1 DEF Started, NotStarted
      <3>5. QED
        BY <3>2, <3>3, <3>4 DEF Quiet!qvars, Tracked, Open, Started
    <2>3. ASSUME CycleStart(w) PROVE Quiet!Begin
      BY <2>3, CycleStartBegins
    <2>4. ASSUME NEW i \in Ids, KernelRecord(w, i)
          PROVE  Quiet!Kernel(i) \/ UNCHANGED Quiet!qvars
      <3>1. /\ worker[w].pc = "records"
            /\ worker[w].cycle = current_cycle
            /\ UNCHANGED <<current_cycle, g_bufferCycle, worker>>
        BY <2>4 DEF KernelRecord, OneWorkerInv, CountersAgree
      <3>2. IsMap(map, Ids) /\ map' = MarkedSeen(map, i, current_cycle)
        BY <2>0, <2>4, <3>1 DEF KernelRecord
      <3>3. DOMAIN map' = DOMAIN map
        BY <3>2 DEF MarkedSeen
      <3>4. \A j \in DOMAIN map : j # i => map'[j] = map[j]
        BY <2>0, <3>2, MarkedSeenType
      <3>5. \A j \in DOMAIN map : j # i => QuietView(map[j])' = QuietView(map[j])
        BY <3>1, <3>4 DEF QuietView, Cleared, Age
      <3>6. Open /\ UNCHANGED <<Open, Started>>
        BY <2>0, <3>1 DEF Open, Started, NotStarted
      <3>7. CASE i \notin DOMAIN map
        BY <3>3, <3>5, <3>6, <3>7 DEF Quiet!qvars, Open, Started
      <3>8. CASE i \in DOMAIN map
        <4>1. /\ \A s \in Slots : map'[i].state[s] =
                   IF s = current_cycle % 2 THEN "KERNEL_SEEN" ELSE map[i].state[s]
              /\ map'[i].ever_seen_kernel
          BY <2>0, <3>2, <3>8, MarkedSeenType
        <4>2. QuietView(map[i])' =
                [quiet |-> FALSE, quietBefore |-> QuietView(map[i]).quietBefore,
                 seen |-> TRUE, waited |-> 0]
          <5>1. Cleared(map'[i], current_cycle' % 2) = FALSE
            BY <2>0, <3>1, <4>1, SlotType DEF Cleared
          <5>2. Cleared(map'[i], 1 - (current_cycle' % 2))
                  = QuietView(map[i]).quietBefore
            <6>1. /\ 1 - (current_cycle % 2) \in Slots
                  /\ 1 - (current_cycle % 2) # current_cycle % 2
              BY <2>0, SlotType DEF Slots, Cycles
            <6>2. QED
              BY <3>1, <4>1, <6>1 DEF Cleared, QuietView
          <5>3. map'[i].ever_seen_kernel = TRUE
            BY <4>1, <3>2, <3>8 DEF MarkedSeen, IsMap, Entry
          <5>4. (IF map'[i].ever_seen_kernel
                 THEN 0 ELSE Age(map'[i], current_cycle')) = 0
            BY <4>1
          <5>5. QED
            BY <5>1, <5>2, <5>3, <5>4, Zenon DEF QuietView
        <4>3. Tracked' = [Tracked EXCEPT ![i] =
                [quiet |-> FALSE, quietBefore |-> @.quietBefore,
                 seen |-> TRUE, waited |-> 0]]
          BY <3>3, <3>5, <3>8, <4>2 DEF Tracked
        <4>4. QED
          BY <3>6, <3>8, <4>3 DEF Quiet!Kernel, Tracked, Open, Started
      <3>9. QED
        BY <3>7, <3>8
    <2>5. ASSUME CycleEnd(w) PROVE Quiet!End
      <3>1. /\ worker[w].pc = "records" /\ worker'[w].pc = "idle"
            /\ worker[w].cycle = current_cycle
            /\ UNCHANGED <<current_cycle, g_bufferCycle>>
            /\ map' = CycleEnded(map, current_cycle)
        BY <2>5 DEF CycleEnd, TypeOK, OneWorkerInv, CountersAgree
      <3>2. g_bufferCycle = NextCycle(current_cycle)
        BY <3>1 DEF OneWorkerInv, CountersAgree
      <3>3. Open /\ ~Open'
        BY <2>0, <3>1 DEF Open
      <3>4. Started /\ Started'
        BY <2>0, <3>1, <3>2, NextCycleDiffers DEF Started, NotStarted
      <3>5. ASSUME NEW j \in DOMAIN map
            PROVE  ShouldRemove(map[j], current_cycle) <=> Quiet!Done(QuietView(map[j]))
        <4>1. (\A s \in Slots : Cleared(map[j], s)) <=>
                Cleared(map[j], current_cycle % 2) /\ Cleared(map[j], 1 - (current_cycle % 2))
          BY <2>0 DEF Slots, Cycles
        <4>2. QED
          BY <4>1 DEF ShouldRemove, Quiet!Done, QuietView, Cleared
      <3>6. Tracked' = [j \in {k \in DOMAIN Tracked : ~Quiet!Done(Tracked[k])}
                          |-> Tracked[j]]
        <4>2. DOMAIN map' = {k \in DOMAIN Tracked : ~Quiet!Done(Tracked[k])}
          BY <3>1, <3>5 DEF CycleEnded, Tracked
        <4>3. \A j \in DOMAIN map' : j \in DOMAIN map /\ map'[j] = map[j]
          BY <3>1 DEF CycleEnded
        <4>4. \A j \in DOMAIN map' : QuietView(map[j])' = Tracked[j]
          BY <3>1, <4>3 DEF QuietView, Cleared, Age, Tracked
        <4>5. QED
          BY <4>2, <4>4 DEF Tracked
      <3>7. QED
        BY <3>3, <3>4, <3>6 DEF Quiet!End, Tracked, Open, Started
    <2>6. CASE (\E i \in Ids : Lost(i)) \/ UNCHANGED vars
      BY <2>6 DEF Lost, vars, Quiet!qvars, QuietView, Cleared, Age, NotStarted
    <2>7. QED
      BY <2>1, <2>2, <2>3, <2>4, <2>5, <2>6 DEF Next, Quiet!QNext
  <1>3. QED
    BY <1>1, <1>2, TypeCorrect, OneWorkerInvariant, PTL
    DEF Spec, ImplementsQuiet, Quiet!QSpec

=============================================================================
