------------------------ MODULE RateControllerProofs ------------------------
(***************************************************************************)
(* Proofs about RateController: for any number of threads, every period    *)
(* and every width of the counters.                                        *)
(***************************************************************************)
EXTENDS RateController, TLAPS

(* Sum and difference stay words, and undo each other.                     *)
LEMMA WordArithmetic ==
  ASSUME NEW a \in Words, NEW b \in Words
  PROVE  Plus(a, b) \in Words /\ Minus(a, b) \in Words /\ Plus(b, Minus(a, b)) = a
BY WordAssumption DEF Words, Plus, Minus

(* The clock and the samples fit a word. *)
LEMMA BoundsAreWords == 0 .. MaxTime \subseteq Words /\ 0 .. MaxSamples \subseteq Words
BY WordAssumption DEF Words

-----------------------------------------------------------------------------

(* Whoever is about to exchange the time has seen a period go by.          *)
Waited(t) == thread[t].pc = "exchangeTime" => Elapsed(t) >= Period

(* Whoever is about to exchange the total has loaded no less than has been *)
(* seen, unless it was overtaken.                                          *)
Loaded(t) ==
  thread[t].pc = "exchangeTotal" =>
    /\ thread[t].total <= samplesTotal
    /\ t \notin overtaken => seen <= thread[t].total

(* The last total is what has been seen, unless it was set back.           *)
SeenInv ==
  /\ seen <= samplesTotal
  /\ lastCheckTotal <= seen
  /\ ~late => lastCheckTotal = seen
  /\ \A t \in Threads : Loaded(t)

(* The inductive invariant. *)
IInv == TypeOK /\ SeenInv /\ \A t \in Threads : Waited(t)

(* It holds at first. *)
LEMMA InitIInv == Init => IInv
<1> SUFFICES ASSUME Init PROVE IInv
  OBVIOUS
<1>1. 0 \in Words /\ 0 \in 0 .. MaxTime /\ 0 \in 0 .. MaxSamples /\ 0 \in 0 .. MaxLevel
  BY WordAssumption, TargetAssumption DEF Words
<1>2. thread \in [Threads -> ThreadState]
  BY <1>1 DEF Init, ThreadState, PCs
<1>3. TypeOK
  BY <1>1, <1>2 DEF Init, TypeOK
<1>4. \A t \in Threads : Waited(t)
  BY DEF Init, Waited
<1>5. SeenInv
  BY DEF Init, SeenInv, Loaded
<1> QED  BY <1>3, <1>4, <1>5 DEF IInv

(* What a step of a thread writes, as one record; the other threads, and   *)
(* the shared variables it does not name, are left alone.                  *)
LEMMA ThreadTypes ==
  ASSUME TypeOK, NEW t \in Threads
  PROVE  /\ thread[t] \in ThreadState
         /\ thread[t].now \in Words /\ thread[t].last \in Words
         /\ thread[t].total \in Words /\ thread[t].delta \in Words
         /\ thread[t].oldP \in 0 .. MaxLevel
         /\ Elapsed(t) \in Words
<1>1. thread[t] \in ThreadState
  BY DEF TypeOK
<1>2. thread[t].now \in Words /\ thread[t].last \in Words
        /\ thread[t].total \in Words /\ thread[t].delta \in Words
        /\ thread[t].oldP \in 0 .. MaxLevel
  BY <1>1 DEF ThreadState
<1> QED  BY <1>1, <1>2, WordArithmetic DEF Elapsed

(* A step that goes on to another place with another local.                *)
LEMMA StateUpdates ==
  ASSUME NEW st \in ThreadState, NEW pc \in PCs, NEW x \in Words
  PROVE  /\ [st EXCEPT !.pc = pc, !.now = x] \in ThreadState
         /\ [st EXCEPT !.pc = pc, !.last = x] \in ThreadState
         /\ [st EXCEPT !.pc = pc, !.total = x] \in ThreadState
         /\ [st EXCEPT !.pc = pc, !.delta = x] \in ThreadState
<1>1. [st EXCEPT !.pc = pc, !.now = x] \in ThreadState
  BY DEF ThreadState
<1>2. [st EXCEPT !.pc = pc, !.last = x] \in ThreadState
  BY DEF ThreadState
<1>3. [st EXCEPT !.pc = pc, !.total = x] \in ThreadState
  BY DEF ThreadState
<1>4. [st EXCEPT !.pc = pc, !.delta = x] \in ThreadState
  BY DEF ThreadState
<1> QED  BY <1>1, <1>2, <1>3, <1>4

(* Every step keeps the types. *)
LEMMA TypeStep == TypeOK /\ SeenInv /\ [Next]_vars => TypeOK'
<1> SUFFICES ASSUME TypeOK, SeenInv, [Next]_vars PROVE TypeOK'
  OBVIOUS
<1>1. thread \in [Threads -> ThreadState]
  BY DEF TypeOK
<1>2. CASE Tick
  <2>1. clock' \in 0 .. MaxTime
    BY <1>2, WordAssumption DEF Tick, TypeOK
  <2> QED  BY <1>2, <2>1 DEF Tick, TypeOK, shared, history
<1>3. ASSUME NEW n \in 1 .. MaxSamples, RecordPCSamples(n) PROVE TypeOK'
  <2>1. samplesTotal' \in 0 .. MaxSamples
    BY <1>3, WordAssumption DEF RecordPCSamples, TypeOK
  <2> QED  BY <1>3, <2>1 DEF RecordPCSamples, TypeOK, history
<1>4. ASSUME NEW t \in Threads, ReadClock(t) PROVE TypeOK'
  <2>1. clock \in Words
    BY BoundsAreWords DEF TypeOK
  <2>2. [thread[t] EXCEPT !.pc = "loadLast", !.now = clock] \in ThreadState
    BY <1>1, <2>1, StateUpdates DEF PCs
  <2>3. thread' \in [Threads -> ThreadState]
    BY <1>1, <1>4, <2>2 DEF ReadClock
  <2> QED  BY <1>4, <2>3 DEF ReadClock, TypeOK, shared, history
<1>5. ASSUME NEW t \in Threads, LoadLast(t) PROVE TypeOK'
  <2>1. lastCheckNs \in Words
    BY DEF TypeOK
  <2>2. PICK pc \in {"idle", "exchangeTime"} :
          thread' = [thread EXCEPT ![t].pc = pc, ![t].last = lastCheckNs]
    BY <1>5 DEF LoadLast
  <2>3. [thread[t] EXCEPT !.pc = pc, !.last = lastCheckNs] \in ThreadState
    BY <1>1, <2>1, StateUpdates DEF PCs
  <2>4. thread' \in [Threads -> ThreadState]
    BY <1>1, <2>2, <2>3
  <2> QED  BY <1>5, <2>4 DEF LoadLast, TypeOK, shared, history
<1>6. ASSUME NEW t \in Threads, ExchangeTime(t) PROVE TypeOK'
  <2>1. lastCheckNs' \in Words
    BY <1>6, ThreadTypes DEF ExchangeTime, TypeOK
  <2>2. PICK pc \in {"idle", "loadTotal"} : thread' = [thread EXCEPT ![t].pc = pc]
    BY <1>6 DEF ExchangeTime
  <2>3. thread' \in [Threads -> ThreadState]
    BY <1>1, <2>2 DEF ThreadState, PCs
  <2> QED  BY <1>6, <2>1, <2>3 DEF ExchangeTime, TypeOK, history
<1>7. ASSUME NEW t \in Threads, LoadTotal(t) PROVE TypeOK'
  <2>1. samplesTotal \in Words
    BY BoundsAreWords DEF TypeOK
  <2>2. [thread[t] EXCEPT !.pc = "exchangeTotal", !.total = samplesTotal] \in ThreadState
    BY <1>1, <2>1, StateUpdates DEF PCs
  <2>3. thread' \in [Threads -> ThreadState]
    BY <1>1, <1>7, <2>2 DEF LoadTotal
  <2> QED  BY <1>7, <2>3 DEF LoadTotal, TypeOK, shared, history
<1>8. ASSUME NEW t \in Threads, ExchangeTotal(t) PROVE TypeOK'
  <2>1. Minus(thread[t].total, lastCheckTotal) \in Words /\ lastCheckTotal' \in Words
    BY <1>8, ThreadTypes, WordArithmetic DEF ExchangeTotal, TypeOK
  <2>2. thread' \in [Threads -> ThreadState]
    <3> DEFINE d == Minus(thread[t].total, lastCheckTotal)
    <3>1. [thread[t] EXCEPT !.pc = "adjust", !.delta = d] \in ThreadState
      BY <1>1, <2>1, StateUpdates DEF PCs
    <3> QED  BY <1>1, <1>8, <3>1 DEF ExchangeTotal
  <2>3. seen' \in 0 .. MaxSamples /\ overtaken' \subseteq Threads /\ late' \in BOOLEAN
    <3>1. thread[t].total <= samplesTotal
      BY <1>8 DEF ExchangeTotal, SeenInv, Loaded
    <3>2. thread[t].total \in Nat /\ samplesTotal \in 0 .. MaxSamples
      BY ThreadTypes, WordAssumption DEF Words, TypeOK
    <3>3. thread[t].total \in 0 .. MaxSamples
      BY <3>1, <3>2, WordAssumption
    <3> QED  BY <1>8, <3>3 DEF ExchangeTotal, Exchanged, TypeOK
  <2> QED  BY <1>8, <2>1, <2>2, <2>3 DEF ExchangeTotal, TypeOK
<1>9. ASSUME NEW t \in Threads, Adjust(t) PROVE TypeOK'
  <2>1. probability \in 0 .. MaxLevel
    BY DEF TypeOK
  <2>2. thread' \in [Threads -> ThreadState]
    BY <1>1, <1>9, <2>1 DEF Adjust, ThreadState, PCs
  <2> QED  BY <1>9, <2>2 DEF Adjust, TypeOK, shared, history
<1>10. ASSUME NEW t \in Threads, Store(t) PROVE TypeOK'
  <2>1. thread[t].oldP \in 0 .. MaxLevel
    BY ThreadTypes
  <2>2. probability' \in 0 .. MaxLevel
    BY <1>10, <2>1, TargetAssumption DEF Store, Stepped
  <2>3. thread' \in [Threads -> ThreadState]
    BY <1>1, <1>10 DEF Store, ThreadState, PCs
  <2> QED  BY <1>10, <2>2, <2>3 DEF Store, TypeOK, history
<1>11. CASE UNCHANGED vars
  BY <1>11 DEF vars, shared, history, TypeOK
<1> QED  BY <1>2, <1>3, <1>4, <1>5, <1>6, <1>7, <1>8, <1>9, <1>10, <1>11 DEF Next

-----------------------------------------------------------------------------

(* Every step keeps what is known of the totals. *)
LEMMA SeenStep == TypeOK /\ SeenInv /\ [Next]_vars => SeenInv'
<1> SUFFICES ASSUME TypeOK, SeenInv, [Next]_vars PROVE SeenInv'
  OBVIOUS
<1>1. /\ thread \in [Threads -> ThreadState]
      /\ samplesTotal \in Nat /\ seen \in Nat /\ lastCheckTotal \in Nat
  BY WordAssumption DEF TypeOK, Words
<1>2. ASSUME NEW t \in Threads, ExchangeTotal(t) PROVE SeenInv'
  <2>1. /\ thread[t].total \in Nat /\ thread[t].total <= samplesTotal
        /\ t \notin overtaken => seen <= thread[t].total
    BY <1>2, ThreadTypes, WordAssumption DEF ExchangeTotal, SeenInv, Loaded, Words
  <2>2. lastCheckTotal' = thread[t].total /\ samplesTotal' = samplesTotal
        /\ seen' = IF thread[t].total > seen THEN thread[t].total ELSE seen
    BY <1>2 DEF ExchangeTotal, Exchanged
  <2>3. ~late' => t \notin overtaken
    BY <1>2, Zenon DEF ExchangeTotal, Exchanged
  <2>4. ASSUME NEW u \in Threads PROVE Loaded(u)'
    <3>1. CASE u = t
      BY <1>1, <1>2, <3>1 DEF ExchangeTotal, Loaded, ThreadState
    <3>2. CASE u # t
      <4>1. thread'[u] = thread[u]
        BY <1>1, <1>2, <3>2 DEF ExchangeTotal
      <4>2. thread[u].pc = "exchangeTotal" => u \in overtaken'
        BY <1>2, <3>2 DEF ExchangeTotal, Exchanged
      <4> QED  BY <2>2, <4>1, <4>2 DEF SeenInv, Loaded
    <3> QED  BY <3>1, <3>2
  <2> QED  BY <1>1, <2>1, <2>2, <2>3, <2>4 DEF SeenInv
<1>3. ASSUME NEW t \in Threads, LoadTotal(t) PROVE SeenInv'
  <2>1. UNCHANGED <<shared, history>> /\ thread'[t].total = samplesTotal
        /\ \A u \in Threads \ {t} : thread'[u] = thread[u]
    BY <1>1, <1>3 DEF LoadTotal, ThreadState
  <2>2. \A u \in Threads : Loaded(u)'
    BY <1>1, <2>1 DEF SeenInv, Loaded, shared, history
  <2> QED  BY <2>1, <2>2 DEF SeenInv, shared, history
<1>4. ASSUME NEW t \in Threads,
             ReadClock(t) \/ LoadLast(t) \/ ExchangeTime(t) \/ Adjust(t) \/ Store(t)
      PROVE  SeenInv'
  <2>1. UNCHANGED <<samplesTotal, lastCheckTotal, seen, overtaken, late>>
    BY <1>4
    DEF ReadClock, LoadLast, ExchangeTime, Adjust, Store, shared, history
  <2>2. thread'[t].pc # "exchangeTotal"
        /\ \A u \in Threads \ {t} : thread'[u] = thread[u]
    BY <1>1, <1>4
    DEF ReadClock, LoadLast, ExchangeTime, Adjust, Store, ThreadState
  <2>3. \A u \in Threads : Loaded(u)'
    BY <2>1, <2>2 DEF SeenInv, Loaded
  <2> QED  BY <2>1, <2>3 DEF SeenInv
<1>5. ASSUME NEW n \in 1 .. MaxSamples, RecordPCSamples(n) PROVE SeenInv'
  <2>1. samplesTotal' \in Nat /\ samplesTotal <= samplesTotal'
        /\ UNCHANGED <<lastCheckTotal, seen, overtaken, late, thread>>
    BY <1>1, <1>5 DEF RecordPCSamples, history
  <2>2. ASSUME NEW u \in Threads PROVE Loaded(u)'
    BY <1>1, <2>1, ThreadTypes, WordAssumption DEF SeenInv, Loaded, Words
  <2> QED  BY <1>1, <2>1, <2>2 DEF SeenInv
<1>6. CASE Tick \/ UNCHANGED vars
  BY <1>6 DEF Tick, vars, shared, history, SeenInv, Loaded
<1> QED  BY <1>2, <1>3, <1>4, <1>5, <1>6 DEF Next

(* Every step keeps what a waiting thread has seen. *)
LEMMA WaitStep ==
  ASSUME TypeOK, [Next]_vars, NEW u \in Threads, Waited(u)
  PROVE  Waited(u)'
<1>1. thread \in [Threads -> ThreadState]
  BY DEF TypeOK
<1>2. ASSUME NEW t \in Threads, LoadLast(t) PROVE Waited(u)'
  <2>1. CASE u = t
    <3>1. /\ thread'[u].pc = IF Minus(thread[u].now, lastCheckNs) < Period
                             THEN "idle" ELSE "exchangeTime"
          /\ thread'[u].last = lastCheckNs
          /\ thread'[u].now = thread[u].now
      BY <1>1, <1>2, <2>1 DEF LoadLast, ThreadState
    <3>2. Minus(thread[u].now, lastCheckNs) \in Words
      BY ThreadTypes, WordArithmetic DEF TypeOK
    <3> QED  BY <3>1, <3>2, PeriodAssumption DEF Waited, Elapsed, Words
  <2>2. CASE u # t
    BY <1>1, <1>2, <2>2 DEF LoadLast, Waited, Elapsed
  <2> QED  BY <2>1, <2>2
<1>3. ASSUME NEW t \in Threads,
             ReadClock(t) \/ ExchangeTime(t) \/ LoadTotal(t) \/ ExchangeTotal(t)
               \/ Adjust(t) \/ Store(t)
      PROVE  Waited(u)'
  <2>1. CASE u = t
    <3>1. thread'[u].pc # "exchangeTime"
      BY <1>1, <1>3, <2>1 DEF ReadClock, ExchangeTime, LoadTotal, ExchangeTotal, Adjust,
                               Store, ThreadState
    <3> QED  BY <3>1 DEF Waited
  <2>2. CASE u # t
    <3>1. thread'[u] = thread[u]
      BY <1>1, <1>3, <2>2 DEF ReadClock, ExchangeTime, LoadTotal, ExchangeTotal, Adjust,
                               Store
    <3> QED  BY <3>1 DEF Waited, Elapsed
  <2> QED  BY <2>1, <2>2
<1>4. ASSUME Tick \/ (\E n \in 1 .. MaxSamples : RecordPCSamples(n)) \/ UNCHANGED vars
      PROVE  thread' = thread
  BY <1>4 DEF Tick, RecordPCSamples, vars
<1> QED  BY <1>2, <1>3, <1>4 DEF Next, Waited, Elapsed

(* Every step keeps the inductive invariant. *)
LEMMA StepIInv == IInv /\ [Next]_vars => IInv'
<1> SUFFICES ASSUME IInv, [Next]_vars PROVE IInv'
  OBVIOUS
<1>1. TypeOK /\ SeenInv /\ \A t \in Threads : Waited(t)
  BY DEF IInv
<1>2. TypeOK' /\ SeenInv'
  BY <1>1, TypeStep, SeenStep
<1>3. \A t \in Threads : Waited(t)'
  BY <1>1, WaitStep
<1> QED  BY <1>2, <1>3 DEF IInv

(* The inductive invariant is an invariant. *)
LEMMA AlwaysIInv == Spec => []IInv
BY InitIInv, StepIInv, PTL DEF Spec

-----------------------------------------------------------------------------

(* The variables keep their types; the probability stays in its range.     *)
THEOREM TypeCorrect == Spec => []TypeOK
<1>1. IInv => TypeOK
  BY DEF IInv
<1> QED  BY <1>1, AlwaysIInv, PTL

(* For any number of threads and every width of the counters: an update    *)
(* that no exchange overtakes counts what was recorded since the last one, *)
(* without a wrap, and only in the update after an overtaken one are there *)
(* samples among them that were counted before.                            *)
THEOREM DeltasExact == Spec => DeltaIsNewSamples
<1> DEFINE Exact(t) ==
      thread[t].pc = "exchangeTotal" /\ thread'[t].pc = "adjust" /\ t \notin overtaken =>
        /\ thread'[t].delta + lastCheckTotal = thread[t].total
        /\ ~late => thread'[t].delta + seen = thread[t].total
<1>1. IInv /\ [Next]_vars => [\A t \in Threads : Exact(t)]_vars
  <2> SUFFICES ASSUME IInv, Next, NEW t \in Threads,
                      thread[t].pc = "exchangeTotal", thread'[t].pc = "adjust",
                      t \notin overtaken
               PROVE  /\ thread'[t].delta + lastCheckTotal = thread[t].total
                      /\ ~late => thread'[t].delta + seen = thread[t].total
    OBVIOUS
  <2>1. thread \in [Threads -> ThreadState]
    BY DEF IInv, TypeOK
  <2>2. ExchangeTotal(t)
    <3>1. PICK u \in Threads :
            \/ ReadClock(u) \/ LoadLast(u) \/ ExchangeTime(u) \/ LoadTotal(u)
            \/ ExchangeTotal(u) \/ Adjust(u) \/ Store(u)
      BY DEF Next, Tick, RecordPCSamples
    <3>2. u = t
      BY <2>1, <3>1
      DEF ReadClock, LoadLast, ExchangeTime, LoadTotal, ExchangeTotal, Adjust, Store
    <3> QED
      BY <3>1, <3>2 DEF ReadClock, LoadLast, ExchangeTime, LoadTotal, Adjust, Store
  <2>3. thread'[t].delta = Minus(thread[t].total, lastCheckTotal)
    BY <2>1, <2>2 DEF ExchangeTotal, ThreadState
  <2>4. /\ thread[t].total \in Nat /\ seen \in Nat /\ lastCheckTotal \in Nat
        /\ seen <= thread[t].total /\ lastCheckTotal <= seen
        /\ ~late => lastCheckTotal = seen
    BY ThreadTypes, WordAssumption DEF IInv, SeenInv, Loaded, TypeOK, Words
  <2> QED  BY <2>3, <2>4 DEF Minus
<1> QED  BY <1>1, AlwaysIInv, PTL DEF Spec, DeltaIsNewSamples

(* The only early updates are those that set the time back. *)
THEOREM EarlyUpdatesSetTimeBack == Spec => EarlyOnlyIfOvertaken
<1> DEFINE Late ==
      lastCheckNs' # lastCheckNs =>
        lastCheckNs' >= lastCheckNs + Period \/ lastCheckNs' < lastCheckNs
<1>1. IInv /\ [Next]_vars => [Late]_vars
  <2> SUFFICES ASSUME IInv, Next, lastCheckNs' # lastCheckNs
               PROVE  lastCheckNs' >= lastCheckNs + Period \/ lastCheckNs' < lastCheckNs
    OBVIOUS
  <2>1. PICK t \in Threads : ExchangeTime(t)
    BY DEF Next, Tick, RecordPCSamples, ReadClock, LoadLast, LoadTotal, ExchangeTotal,
           Adjust, Store, shared
  <2>2. /\ thread[t].pc = "exchangeTime" /\ lastCheckNs = thread[t].last
        /\ lastCheckNs' = thread[t].now
    BY <2>1 DEF ExchangeTime
  <2>3. Elapsed(t) >= Period
    BY <2>2 DEF IInv, Waited
  <2>4. thread[t].now \in Words /\ thread[t].last \in Words
    BY ThreadTypes DEF IInv
  <2> QED  BY <2>2, <2>3, <2>4, PeriodAssumption DEF Elapsed, Minus, Words
<1> QED  BY <1>1, AlwaysIInv, PTL DEF Spec, EarlyOnlyIfOvertaken

=============================================================================
