------------------------- MODULE SampleDrainProofs -------------------------
(***************************************************************************)
(* Theorems about SampleDrain, for all threads, buffer and batch sizes and *)
(* numbers of records.                                                     *)
(***************************************************************************)
EXTENDS SampleDrain, TLAPS

USE NobodyAssumption, SizeAssumption

-----------------------------------------------------------------------------
(* A thread that moves, returns or begins: what becomes of the threads.    *)
LEMMA GoToView ==
  ASSUME TypeOK, NEW t \in Threads, NEW pc \in {"getData", "count", "emit", "test"},
         GoTo(t, pc)
  PROVE  /\ thread' \in [Threads -> ThreadState]
         /\ thread'[t].pc = pc /\ thread'[t].next = thread[t].next
         /\ \A u \in Threads \ {t} : thread'[u] = thread[u]
  BY DEF GoTo, TypeOK, ThreadState

(* What returning to the caller leaves: an idle thread, maybe a free mutex. *)
LEMMA ReturnsView ==
  ASSUME TypeOK, NEW t \in Threads, Returns(t)
  PROVE  /\ thread' \in [Threads -> ThreadState]
         /\ thread'[t].pc = "idle"
         /\ \A u \in Threads \ {t} : thread'[u] = thread[u]
         /\ pcSamplingMutex' \in Threads \cup {Nobody}
         /\ window' \in [Threads -> BOOLEAN]
  <1>1. Idle \in ThreadState /\ Idle.pc = "idle"
    BY DEF Idle, ThreadState
  <1>2. QED
    BY <1>1 DEF Returns, TypeOK

(* What the beginning of a drain leaves. *)
LEMMA BeginDrainView ==
  ASSUME TypeOK, NEW t \in Threads, NEW op \in {"collect", "stop", "finalize"},
         BeginDrain(t, op)
  PROVE  /\ thread' \in [Threads -> ThreadState]
         /\ thread'[t].pc = "getData"
         /\ \A u \in Threads \ {t} : thread'[u] = thread[u]
         /\ shared' \in BOOLEAN
  BY DEF BeginDrain, TypeOK, ThreadState

(* What one call of CUPTI hands out. *)
LEMMA ShareFacts ==
  ASSUME NEW waiting \in Nat
  PROVE  /\ Share(waiting) \in 0 .. DataBufferPCCount
         /\ Share(waiting) <= waiting
         /\ Share(waiting) = 0 => waiting = 0
  BY DEF Share

(* Batches lie within the records of a buffer, and get ahead. *)
LEMMA BatchEndFacts ==
  ASSUME TypeOK, NEW next \in Nat, next < outputData.total
  PROVE  /\ BatchEnd(next) \in Nat
         /\ next < BatchEnd(next) /\ BatchEnd(next) <= outputData.total
  BY DEF BatchEnd, TypeOK, OutputData

(* A tally with one more for some records. *)
LEMMA TalliedType ==
  ASSUME NEW tally \in [Records -> Nat], NEW S
  PROVE  Tallied(tally, S) \in [Records -> Nat]
  BY DEF Tallied

(* The next line of a drain, for the types. *)
LEMMA StepType ==
  ASSUME TypeOK, NEW t \in Threads, Step(t)
  PROVE  TypeOK'
  <1>1. CASE GetData(t)
    <2> DEFINE n == Share(produced - handed)
    <2>1. /\ produced - handed \in Nat /\ handed \in Nat /\ produced \in Nat
          /\ n \in 0 .. DataBufferPCCount /\ n <= produced - handed
      BY ShareFacts DEF TypeOK
    <2>2. thread' \in [Threads -> ThreadState]
      BY <1>1, GoToView DEF GetData
    <2>3. outputData' = [first |-> handed + 1, total |-> n,
                         remaining |-> produced - handed - n]
          /\ handed' = handed + n
      BY <1>1 DEF GetData
    <2> HIDE DEF n
    <2>4. outputData' \in OutputData /\ handed' \in 0 .. produced
          /\ outputData'.first + outputData'.total <= handed' + 1
      BY <2>1, <2>3 DEF OutputData
    <2>5. QED
      BY <1>1, <2>2, <2>4 DEF GetData, TypeOK, control, told
  <1>2. CASE GetDataFails(t) \/ (Test(t) /\ Returns(t))
    BY <1>2, ReturnsView DEF GetDataFails, Test, TypeOK, cupti, told, history
  <1>3. CASE Test(t) /\ GoTo(t, "getData") /\ UNCHANGED <<pcSamplingMutex, window>>
    BY <1>3, GoToView DEF Test, TypeOK, cupti, told, history
  <1>4. CASE Count(t)
    BY <1>4, GoToView, TalliedType DEF Count, TypeOK, control, cupti, history
  <1>5. CASE Emit(t)
    <2>1. thread[t] \in ThreadState /\ thread[t].next \in Nat
      BY DEF TypeOK, ThreadState
    <2>2. CASE thread[t].next < outputData.total
      <3>1. BatchEnd(thread[t].next) \in Nat
        BY <2>1, <2>2, BatchEndFacts
      <3>2. thread' = [thread EXCEPT ![t].next = BatchEnd(thread[t].next)]
            /\ emitted' \in [Records -> Nat]
        BY <1>5, <2>2, TalliedType DEF Emit, TypeOK
      <3>3. thread' \in [Threads -> ThreadState]
        <4>1. [thread[t] EXCEPT !.next = BatchEnd(thread[t].next)] \in ThreadState
          BY <2>1, <3>1 DEF ThreadState
        <4>2. QED
          BY <3>2, <4>1 DEF TypeOK
      <3>4. QED
        BY <1>5, <3>2, <3>3 DEF Emit, TypeOK, control, cupti, history
    <2>3. CASE ~(thread[t].next < outputData.total)
      <3>1. thread' = [thread EXCEPT ![t].pc = "test", ![t].next = 0]
            /\ emitted' = emitted
        BY <1>5, <2>3 DEF Emit
      <3>2. thread' \in [Threads -> ThreadState]
        <4>1. [thread[t] EXCEPT !.pc = "test", !.next = 0] \in ThreadState
          BY <2>1 DEF ThreadState
        <4>2. thread' = [thread EXCEPT ![t] = [thread[t] EXCEPT !.pc = "test", !.next = 0]]
          BY <3>1
        <4>3. QED
          BY <4>1, <4>2 DEF TypeOK
      <3>3. QED
        BY <1>5, <3>1, <3>2 DEF Emit, TypeOK, control, cupti, history
    <2>4. QED
      BY <2>2, <2>3
  <1>6. QED
    BY <1>1, <1>2, <1>3, <1>4, <1>5 DEF Step, Test

(* No call makes outputData hold more than it has room for, or CUPTI hand  *)
(* out what it has not gathered, for every number of drains at once.       *)
THEOREM TypeCorrect == Spec => []TypeOK
  <1>1. Init => TypeOK
    <2>1. Idle \in ThreadState /\ [first |-> 0, total |-> 0, remaining |-> 0] \in OutputData
      BY DEF Idle, ThreadState, OutputData
    <2>2. ASSUME Init
          PROVE  /\ produced \in 0 .. MaxRecords /\ handed \in 0 .. produced
                 /\ outputData \in OutputData
                 /\ outputData.first + outputData.total <= handed + 1
      BY <2>1, <2>2 DEF Init
    <2>3. ASSUME Init
          PROVE  /\ thread \in [Threads -> ThreadState]
                 /\ window \in [Threads -> BOOLEAN]
                 /\ counted \in [Records -> Nat] /\ emitted \in [Records -> Nat]
      BY <2>1, <2>3 DEF Init
    <2>4. QED
      BY <2>2, <2>3 DEF Init, TypeOK
  <1>2. TypeOK /\ [Next]_vars => TypeOK'
    <2> SUFFICES ASSUME TypeOK, [Next]_vars PROVE TypeOK'
      OBVIOUS
    <2>1. CASE Produce
      BY <2>1 DEF Produce, TypeOK, control, told, history
    <2>2. ASSUME NEW t \in Threads, Start(t) PROVE TypeOK'
      BY <2>2 DEF Start, TypeOK, cupti, told, history
    <2>3. ASSUME NEW t \in Threads, CollectData(t) PROVE TypeOK'
      BY <2>3, BeginDrainView DEF CollectData, TypeOK, control, cupti, told
    <2>4. ASSUME NEW t \in Threads, Stop(t) PROVE TypeOK'
      BY <2>4, BeginDrainView DEF Stop, TypeOK, cupti, told
    <2>5. ASSUME NEW t \in Threads, Finalize(t) PROVE TypeOK'
      BY <2>5, BeginDrainView DEF Finalize, TypeOK, cupti, told
    <2>6. CASE UNCHANGED vars
      BY <2>6 DEF vars, TypeOK, control, cupti, told, history
    <2>7. QED
      BY <2>1, <2>2, <2>3, <2>4, <2>5, <2>6, StepType DEF Next, Call
  <1>3. QED
    BY <1>1, <1>2, PTL DEF Spec

-----------------------------------------------------------------------------
(***************************************************************************)
(* Nothing stays in CUPTI.                                                 *)
(***************************************************************************)

(* A thread that will call CUPTI again before it returns. *)
WillAskAgain(t) ==
  \/ thread[t].pc = "getData"
  \/ thread[t].pc \in {"count", "emit", "test"} /\ outputData.remaining > 0

(* Once sampling is off, somebody is after the records that still wait.    *)
DrainInv ==
  ~samplingActive /\ ~failed /\ ~unstopped /\ handed < produced =>
    \E t \in Threads : WillAskAgain(t)

(* A stopped window leaves nothing behind unless CUPTI reported an error or*)
(* refused to stop, whoever of any number of threads drains and however    *)
(* they interleave.                                                        *)
THEOREM WindowIsDrained == Spec => []WindowDrained
  <1>1. Init => DrainInv
    BY DEF Init, DrainInv
  <1>2. TypeOK /\ DrainInv /\ [Next]_vars => DrainInv'
    <2> SUFFICES ASSUME TypeOK, DrainInv, [Next]_vars,
                        ~samplingActive', ~failed', ~unstopped', handed' < produced'
                 PROVE  \E t \in Threads : WillAskAgain(t)'
      BY DEF DrainInv
    <2>1. CASE Produce
      BY <2>1 DEF Produce, control
    <2>2. ASSUME NEW t \in Threads, Start(t) PROVE \E u \in Threads : WillAskAgain(u)'
      <3>1. PICK u \in Threads : WillAskAgain(u)
        BY <2>2 DEF Start, DrainInv, TypeOK, cupti, history
      <3>2. QED
        BY <2>2, <3>1 DEF Start, WillAskAgain
    <2>3. ASSUME NEW t \in Threads, CollectData(t) \/ Stop(t) \/ Finalize(t)
          PROVE  \E u \in Threads : WillAskAgain(u)'
      <3>1. CASE \E op \in {"collect", "stop", "finalize"} : BeginDrain(t, op)
        BY <3>1, BeginDrainView DEF WillAskAgain
      <3>2. CASE Stop(t) /\ ~samplingActive
        <4>1. thread' = thread /\ outputData' = outputData /\ failed' = failed
              /\ handed' = handed /\ produced' = produced /\ unstopped' = unstopped
          BY <3>2 DEF Stop
        <4>2. QED
          BY <3>2, <4>1 DEF DrainInv, WillAskAgain
      <3>3. QED
        BY <2>3, <3>1, <3>2 DEF CollectData, Stop, Finalize
    <2>4. ASSUME NEW t \in Threads, GetData(t) PROVE WillAskAgain(t)'
      <3> DEFINE n == Share(produced - handed)
      <3>1. produced - handed \in Nat /\ handed \in Nat /\ produced \in Nat
            /\ n \in Nat /\ n <= produced - handed
        BY ShareFacts DEF TypeOK
      <3>2. outputData'.remaining = produced - handed - n /\ handed' = handed + n
            /\ produced' = produced
        BY <2>4 DEF GetData
      <3>3. outputData'.remaining > 0
        <4> HIDE DEF n
        <4>1. QED
          BY <3>1, <3>2
      <3>4. thread'[t].pc \in {"count", "test"}
        BY <2>4, GoToView DEF GetData
      <3>5. QED
        BY <3>3, <3>4 DEF WillAskAgain
    <2>5. ASSUME NEW t \in Threads, GetDataFails(t) PROVE FALSE
      BY <2>5 DEF GetDataFails
    <2>6. ASSUME NEW t \in Threads, Count(t) \/ Emit(t) \/ Test(t)
          PROVE  \E u \in Threads : WillAskAgain(u)'
      <3>1. PICK u \in Threads : WillAskAgain(u)
        BY <2>6 DEF Count, Emit, Test, DrainInv, control, cupti, history
      <3>2. outputData' = outputData
        BY <2>6 DEF Count, Emit, Test
      <3>3. CASE u # t
        <4>1. thread'[u] = thread[u]
          BY <2>6, <3>3 DEF Count, Emit, Test, GoTo, Returns, TypeOK
        <4>2. QED
          BY <3>1, <3>2, <4>1 DEF WillAskAgain
      <3>4. CASE u = t
        <4>1. thread[t].pc \in {"count", "emit", "test"} /\ outputData.remaining > 0
          BY <2>6, <3>1, <3>4 DEF WillAskAgain, Count, Emit, Test
        <4>2. thread'[t].pc \in {"emit", "test", "getData"}
          BY <2>6, <4>1 DEF Count, Emit, Test, GoTo, TypeOK, ThreadState
        <4>3. QED
          BY <3>2, <4>1, <4>2 DEF WillAskAgain
      <3>5. QED
        BY <3>3, <3>4
    <2>7. CASE UNCHANGED vars
      BY <2>7 DEF vars, control, cupti, history, DrainInv, WillAskAgain
    <2>8. QED
      BY <2>1, <2>2, <2>3, <2>4, <2>5, <2>6, <2>7 DEF Next, Step, Call
  <1>3. TypeOK /\ DrainInv => WindowDrained
    BY DEF TypeOK, DrainInv, WindowDrained, NobodyDrains, Draining, WillAskAgain
  <1>4. QED
    BY <1>1, <1>2, <1>3, TypeCorrect, PTL DEF Spec

-----------------------------------------------------------------------------
(***************************************************************************)
(* Every record once.                                                      *)
(***************************************************************************)

(* The first so many records have been tallied once, and no other. *)
UpTo(tally, last) == \A r \in Records : tally[r] = IF r <= last THEN 1 ELSE 0

InBuffer == outputData.first + outputData.total = handed + 1 /\ outputData.first > 0

(* How far the one drain has got with the buffer. *)
TalliedSoFar(t) ==
  /\ thread[t].pc \in {"getData", "test"} => UpTo(counted, handed) /\ UpTo(emitted, handed)
  /\ thread[t].pc = "count" =>
       /\ InBuffer /\ thread[t].next = 0
       /\ UpTo(counted, outputData.first - 1) /\ UpTo(emitted, outputData.first - 1)
  /\ thread[t].pc = "emit" =>
       /\ InBuffer /\ thread[t].next <= outputData.total
       /\ UpTo(counted, handed)
       /\ UpTo(emitted, outputData.first + thread[t].next - 1)
  /\ thread[t].pc # "emit" => thread[t].next = 0

OnceInv ==
  ~shared =>
    /\ \A t, u \in Threads : Draining(t) /\ Draining(u) => t = u
    /\ NobodyDrains => UpTo(counted, handed) /\ UpTo(emitted, handed)
    /\ \A t \in Threads : TalliedSoFar(t)

(* Records next in turn are tallied. *)
LEMMA TalliedUpTo ==
  ASSUME NEW tally \in [Records -> Nat], NEW a \in Nat, NEW b \in Nat, a <= b,
         NEW S, \A r \in Records : r \in S <=> a < r /\ r <= b,
         UpTo(tally, a)
  PROVE  UpTo(Tallied(tally, S), b)
  <1> SUFFICES ASSUME NEW r \in Records
               PROVE  Tallied(tally, S)[r] = IF r <= b THEN 1 ELSE 0
    BY DEF UpTo
  <1>1. tally[r] = IF r <= a THEN 1 ELSE 0
    BY DEF UpTo
  <1>2. Tallied(tally, S)[r] = tally[r] + (IF r \in S THEN 1 ELSE 0)
    BY DEF Tallied
  <1>3. r \in Nat /\ (r \in S <=> a < r /\ r <= b)
    BY DEF Records
  <1>4. QED
    BY <1>1, <1>2, <1>3

(* The records in the places of a stretch of outputData. *)
LEMMA PlacesFacts ==
  ASSUME TypeOK, NEW from \in Nat, NEW to \in Nat, outputData.first > 0
  PROVE  \A r \in Records :
           r \in Places(from, to) <=>
             outputData.first + from - 1 < r /\ r <= outputData.first + to - 1
  <1> SUFFICES ASSUME NEW r \in Records
               PROVE  r \in Places(from, to) <=>
                        outputData.first + from - 1 < r /\ r <= outputData.first + to - 1
    OBVIOUS
  <1>1. outputData.first \in Nat /\ r \in Nat
    BY DEF TypeOK, OutputData, Records
  <1>2. ASSUME r \in Places(from, to)
        PROVE  outputData.first + from - 1 < r /\ r <= outputData.first + to - 1
    BY <1>1, <1>2 DEF Places
  <1>3. ASSUME outputData.first + from - 1 < r, r <= outputData.first + to - 1
        PROVE  r \in Places(from, to)
    <2>1. r - outputData.first \in from .. to - 1
      BY <1>1, <1>3
    <2>2. r = outputData.first + (r - outputData.first)
      BY <1>1
    <2>3. QED
      BY <2>1, <2>2 DEF Places
  <1>4. QED
    BY <1>2, <1>3

(* One line of the only drain. *)
LEMMA StepOnce ==
  ASSUME TypeOK, OnceInv, NEW t \in Threads, Step(t), ~shared
  PROVE  OnceInv'
  <1>1. /\ \A u \in Threads \ {t} : thread[u].pc = "idle" /\ thread'[u] = thread[u]
        /\ \A u \in Threads \ {t} : TalliedSoFar(u)
        /\ TalliedSoFar(t) /\ thread[t].pc # "idle"
        /\ thread \in [Threads -> ThreadState] /\ thread[t] \in ThreadState
    <2>1. Draining(t)
      BY DEF Step, GetData, GetDataFails, Count, Emit, Test, Draining
    <2>2. \A u \in Threads \ {t} : thread'[u] = thread[u]
      BY DEF Step, GetData, GetDataFails, Count, Emit, Test, GoTo, Returns, TypeOK
    <2>3. QED
      BY <2>1, <2>2 DEF OnceInv, Draining, TypeOK
  <1>2. ASSUME TalliedSoFar(t)',
               thread'[t].pc = "idle" =>
                 UpTo(counted', handed') /\ UpTo(emitted', handed')
        PROVE  OnceInv'
    <2>1. \A u \in Threads \ {t} : TalliedSoFar(u)'
      BY <1>1 DEF TalliedSoFar
    <2>2. NobodyDrains' => thread'[t].pc = "idle"
      BY DEF NobodyDrains, Draining
    <2>3. \A u, v \in Threads : Draining(u)' /\ Draining(v)' => u = v
      BY <1>1 DEF Draining
    <2>4. QED
      BY <1>2, <2>1, <2>2, <2>3 DEF OnceInv
  <1>3. Idle.pc = "idle" /\ Idle.next = 0
    BY DEF Idle
  <1>4. outputData.first \in Nat /\ outputData.total \in Nat /\ handed \in Nat
        /\ produced - handed \in Nat /\ thread[t].next \in Nat
        /\ counted \in [Records -> Nat] /\ emitted \in [Records -> Nat]
    BY <1>1 DEF TypeOK, OutputData, ThreadState
  <1>5. CASE GetData(t)
    <2> DEFINE n == Share(produced - handed)
    <2>1. n \in Nat
      BY <1>4, ShareFacts
    <2>2. /\ outputData'.first = handed + 1 /\ outputData'.total = n /\ handed' = handed + n
          /\ counted' = counted /\ emitted' = emitted
          /\ thread[t].pc = "getData"
      BY <1>5 DEF GetData, told
    <2>3. thread'[t].pc = (IF n = 0 THEN "test" ELSE "count")
          /\ thread'[t].next = thread[t].next
      <3>1. GoTo(t, IF n = 0 THEN "test" ELSE "count")
        BY <1>5 DEF GetData
      <3> HIDE DEF n
      <3>2. QED
        BY <1>1, <3>1 DEF GoTo, ThreadState
    <2>4. UpTo(counted, handed) /\ UpTo(emitted, handed) /\ thread[t].next = 0
      BY <1>1, <2>2 DEF TalliedSoFar
    <2>5. TalliedSoFar(t)'
      <3> HIDE DEF n
      <3>1. handed + 1 - 1 = handed /\ (n = 0 => handed + n = handed)
        BY <1>4, <2>1
      <3>2. InBuffer'
        BY <1>4, <2>1, <2>2 DEF InBuffer
      <3>3. CASE n = 0
        BY <2>2, <2>3, <2>4, <3>1, <3>3 DEF TalliedSoFar
      <3>4. CASE n # 0
        <4>1. /\ thread'[t].pc = "count" /\ thread'[t].next = 0
              /\ outputData'.first - 1 = handed
          BY <1>4, <2>2, <2>3, <2>4, <3>4
        <4>2. QED
          BY <2>2, <2>4, <3>2, <4>1 DEF TalliedSoFar
      <3>5. QED
        BY <3>3, <3>4
    <2>6. QED
      BY <1>2, <2>2, <2>3, <2>5
  <1>6. CASE GetDataFails(t) \/ (Test(t) /\ Returns(t))
    <2>1. thread'[t] = Idle /\ counted' = counted /\ emitted' = emitted /\ handed' = handed
          /\ thread[t].pc \in {"getData", "test"}
      BY <1>1, <1>6 DEF GetDataFails, Test, Returns, told, cupti
    <2>2. UpTo(counted, handed) /\ UpTo(emitted, handed)
      BY <1>1, <2>1 DEF TalliedSoFar
    <2>3. TalliedSoFar(t)'
      BY <1>3, <2>1 DEF TalliedSoFar
    <2>4. QED
      BY <1>2, <2>1, <2>2, <2>3
  <1>7. CASE Test(t) /\ GoTo(t, "getData")
    <2>1. thread'[t].pc = "getData" /\ thread'[t].next = thread[t].next
          /\ counted' = counted /\ emitted' = emitted
          /\ handed' = handed /\ thread[t].pc = "test"
      BY <1>1, <1>7 DEF Test, GoTo, ThreadState, told, cupti
    <2>2. TalliedSoFar(t)'
      BY <1>1, <2>1 DEF TalliedSoFar
    <2>3. QED
      BY <1>2, <2>1, <2>2
  <1>8. CASE Count(t)
    <2>1. thread'[t].pc = "emit" /\ thread'[t].next = thread[t].next
          /\ outputData' = outputData /\ handed' = handed /\ emitted' = emitted
          /\ counted' = Tallied(counted, Places(0, outputData.total))
          /\ thread[t].pc = "count"
      BY <1>1, <1>8 DEF Count, GoTo, ThreadState, cupti
    <2>2. InBuffer /\ thread[t].next = 0 /\ UpTo(counted, outputData.first - 1)
          /\ UpTo(emitted, outputData.first - 1)
      BY <1>1, <2>1 DEF TalliedSoFar
    <2>3. outputData.first > 0 /\ outputData.first + outputData.total - 1 = handed
          /\ outputData.first + 0 - 1 = outputData.first - 1
          /\ outputData.first - 1 \in Nat /\ outputData.first - 1 <= handed
      BY <1>4, <2>2 DEF InBuffer
    <2>4. \A r \in Records :
            r \in Places(0, outputData.total) <=> outputData.first - 1 < r /\ r <= handed
      BY <1>4, <2>3, PlacesFacts
    <2>5. UpTo(counted', handed)
      BY <1>4, <2>1, <2>2, <2>3, <2>4, TalliedUpTo
    <2>6. TalliedSoFar(t)'
      <3>1. InBuffer'
        BY <2>1, <2>2 DEF InBuffer
      <3>2. QED
        BY <1>4, <2>1, <2>2, <2>3, <2>5, <3>1 DEF TalliedSoFar
    <2>7. QED
      BY <1>2, <2>1, <2>6
  <1>9. CASE Emit(t)
    <2>1. InBuffer /\ thread[t].next <= outputData.total /\ UpTo(counted, handed)
          /\ UpTo(emitted, outputData.first + thread[t].next - 1)
          /\ thread[t].pc = "emit"
      BY <1>1, <1>9 DEF TalliedSoFar, Emit
    <2>2. outputData' = outputData /\ handed' = handed /\ counted' = counted
      BY <1>9 DEF Emit, cupti
    <2>3. InBuffer'
      BY <2>1, <2>2 DEF InBuffer
    <2>4. CASE thread[t].next < outputData.total
      <3> DEFINE end == BatchEnd(thread[t].next)
      <3>1. end \in Nat /\ thread[t].next < end /\ end <= outputData.total
        BY <1>4, <2>4, BatchEndFacts
      <3>2. thread'[t].pc = "emit" /\ thread'[t].next = end
            /\ emitted' = Tallied(emitted, Places(thread[t].next, end))
        BY <1>1, <1>9, <2>1, <2>4 DEF Emit, ThreadState
      <3> HIDE DEF end
      <3>3. outputData.first + thread[t].next - 1 \in Nat
            /\ outputData.first + end - 1 \in Nat
            /\ outputData.first + thread[t].next - 1 <= outputData.first + end - 1
            /\ outputData.first > 0
        BY <1>4, <2>1, <3>1 DEF InBuffer
      <3>4. UpTo(emitted', outputData.first + end - 1)
        <4>1. \A r \in Records :
                r \in Places(thread[t].next, end) <=>
                  /\ outputData.first + thread[t].next - 1 < r
                  /\ r <= outputData.first + end - 1
          BY <1>4, <3>1, <3>3, PlacesFacts
        <4>2. QED
          BY <1>4, <2>1, <3>2, <3>3, <4>1, TalliedUpTo
      <3>5. TalliedSoFar(t)'
        BY <2>1, <2>2, <2>3, <3>1, <3>2, <3>4 DEF TalliedSoFar
      <3>6. QED
        BY <1>2, <3>2, <3>5
    <2>5. CASE ~(thread[t].next < outputData.total)
      <3>1. thread'[t].pc = "test" /\ thread'[t].next = 0 /\ emitted' = emitted
        BY <1>1, <1>9, <2>5 DEF Emit, ThreadState
      <3>2. outputData.first + thread[t].next - 1 = handed
        BY <1>4, <2>1, <2>5 DEF InBuffer
      <3>3. TalliedSoFar(t)'
        BY <2>1, <2>2, <3>1, <3>2 DEF TalliedSoFar
      <3>4. QED
        BY <1>2, <3>1, <3>3
    <2>6. QED
      BY <2>4, <2>5
  <1>10. QED
    BY <1>5, <1>6, <1>7, <1>8, <1>9 DEF Step, Test

(* As long as no two drains have been under way at once, every record that *)
(* leaves CUPTI is counted once and in one batch, whatever the sizes of    *)
(* buffer and batch.                                                       *)
THEOREM OnceUnlessBufferShared == Spec => []OnceUnlessShared
  <1>1. Init => OnceInv
    <2> SUFFICES ASSUME Init PROVE OnceInv
      OBVIOUS
    <2>1. UpTo(counted, handed) /\ UpTo(emitted, handed)
      BY DEF Init, UpTo, Records
    <2>2. \A t \in Threads : thread[t].pc = "idle" /\ thread[t].next = 0
      BY DEF Init, Idle
    <2>3. QED
      BY <2>1, <2>2 DEF OnceInv, Draining, TalliedSoFar
  <1>2. TypeOK /\ OnceInv /\ [Next]_vars => OnceInv'
    <2> SUFFICES ASSUME TypeOK, OnceInv, [Next]_vars PROVE OnceInv'
      OBVIOUS
    <2>1. ASSUME thread' = thread, handed' = handed, outputData' = outputData,
                 counted' = counted, emitted' = emitted, shared' = shared
          PROVE  OnceInv'
      BY <2>1
      DEF OnceInv, Draining, NobodyDrains, UpTo, TalliedSoFar, InBuffer
    <2>2. CASE Produce
      BY <2>1, <2>2 DEF Produce, told, history
    <2>3. ASSUME NEW t \in Threads, Start(t) PROVE OnceInv'
      BY <2>1, <2>3 DEF Start, cupti, told, history
    <2>4. CASE UNCHANGED vars
      BY <2>1, <2>4 DEF vars, cupti, told, history
    <2>5. ASSUME NEW t \in Threads, CollectData(t) \/ Stop(t) \/ Finalize(t)
          PROVE  OnceInv'
      <3>1. CASE Stop(t) /\ ~samplingActive
        BY <2>1, <3>1 DEF Stop, cupti, told
      <3>2. ASSUME NEW op \in {"collect", "stop", "finalize"}, BeginDrain(t, op), ~shared',
                   UNCHANGED <<handed, outputData, told>>
            PROVE  OnceInv'
        <4>1. ~shared /\ \A u \in Threads : ~Draining(u)
          BY <3>2 DEF BeginDrain
        <4>2. UpTo(counted, handed) /\ UpTo(emitted, handed)
              /\ \A u \in Threads : TalliedSoFar(u) /\ thread[u].pc = "idle"
          BY <4>1 DEF OnceInv, NobodyDrains, Draining
        <4>3. thread'[t].pc = "getData" /\ thread'[t].next = 0
              /\ \A u \in Threads \ {t} : thread'[u] = thread[u]
          BY <3>2 DEF BeginDrain, TypeOK
        <4>4. \A u \in Threads : TalliedSoFar(u)'
          BY <3>2, <4>2, <4>3 DEF TalliedSoFar, told
        <4>5. \A u, v \in Threads : Draining(u)' /\ Draining(v)' => u = v
          BY <4>2, <4>3 DEF Draining
        <4>6. ~NobodyDrains'
          BY <4>3 DEF NobodyDrains, Draining
        <4>7. QED
          BY <4>4, <4>5, <4>6 DEF OnceInv
      <3>3. CASE shared'
        BY <3>3 DEF OnceInv
      <3>4. QED
        BY <2>5, <3>1, <3>2, <3>3 DEF CollectData, Stop, Finalize, cupti
    <2>6. ASSUME NEW t \in Threads, Step(t) PROVE OnceInv'
      <3>1. CASE shared
        BY <2>6, <3>1
        DEF Step, GetData, GetDataFails, Count, Emit, Test, history, OnceInv
      <3>2. CASE ~shared
        BY <2>6, <3>2, StepOnce
      <3>3. QED
        BY <3>1, <3>2
    <2>7. QED
      BY <2>2, <2>3, <2>4, <2>5, <2>6 DEF Next, Call
  <1>3. TypeOK /\ OnceInv => OnceUnlessShared
    BY DEF OnceInv, OnceUnlessShared, EveryRecordOnce, UpTo, Records
  <1>4. QED
    BY <1>1, <1>2, <1>3, TypeCorrect, PTL DEF Spec

-----------------------------------------------------------------------------
(***************************************************************************)
(* Why a drain ends.                                                       *)
(***************************************************************************)

(* What the second loop has still to go through.                           *)
Left(t) == IF thread[t].next < outputData.total THEN outputData.total - thread[t].next ELSE 0

(* How many steps a drain has left at most, if CUPTI hands out nothing more*)
(* to anybody.                                                             *)
Rank(t) ==
  IF thread[t].pc = "count" THEN DataBufferPCCount + 5
  ELSE IF thread[t].pc = "emit" THEN Left(t) + 4
  ELSE IF thread[t].pc = "test" THEN (IF outputData.remaining > 0 THEN 3 ELSE 1)
  ELSE IF thread[t].pc = "getData" THEN 2 ELSE 0

(* Records are handed out to somebody, or a drain has no more steps left   *)
(* than before, and less if it is the one that goes on.                    *)
GetsOn(t) ==
  \/ handed' > handed
  \/ /\ handed' = handed
     /\ thread'[t] = thread[t] => Rank(t)' <= Rank(t)
     /\ thread'[t] # thread[t] => Rank(t)' < Rank(t)
DrainsGetOn == [][\A t \in Threads : Draining(t) => GetsOn(t)]_vars

(* The steps left are a number, and few. *)
LEMMA RankType ==
  ASSUME TypeOK, NEW t \in Threads
  PROVE  Rank(t) \in 0 .. DataBufferPCCount + 5 /\ Left(t) \in 0 .. DataBufferPCCount
  <1>1. /\ thread[t].next \in Nat /\ outputData.total \in 0 .. DataBufferPCCount
        /\ outputData.remaining \in Nat
    BY DEF TypeOK, ThreadState, OutputData
  <1>2. Left(t) \in 0 .. DataBufferPCCount
    BY <1>1 DEF Left
  <1>3. QED
    BY <1>2 DEF Rank

(* A drain that somebody else's step leaves where it is.                   *)
LEMMA OthersGetOn ==
  ASSUME TypeOK, NEW t \in Threads, thread'[t] = thread[t], handed' = handed,
         \/ outputData' = outputData
         \/ outputData'.total = 0 /\ outputData'.remaining = 0
  PROVE  GetsOn(t)
  <1>1. /\ thread[t].next \in Nat /\ outputData.total \in 0 .. DataBufferPCCount
        /\ outputData.remaining \in Nat /\ handed \in Nat
        /\ Left(t) \in 0 .. DataBufferPCCount /\ Rank(t) \in 0 .. DataBufferPCCount + 5
    BY RankType DEF TypeOK, ThreadState, OutputData
  <1>2. CASE outputData' = outputData
    BY <1>1, <1>2 DEF Rank, Left, GetsOn
  <1>3. CASE outputData'.total = 0 /\ outputData'.remaining = 0
    <2>1. Left(t)' = 0
      BY <1>1, <1>3 DEF Left
    <2>2. Rank(t)' <= Rank(t)
      BY <1>1, <1>3, <2>1 DEF Rank
    <2>3. QED
      BY <2>2 DEF GetsOn
  <1>4. QED
    BY <1>2, <1>3

(* What DrainEnds rests on, for all threads and sizes of buffer and batch: *)
(* a drain goes on no longer than CUPTI hands records out.  Between two    *)
(* calls that do, of whichever thread, every drain takes few steps, on a   *)
(* remainder that another thread's call left behind too, and while all     *)
(* calls fail.                                                             *)
THEOREM DrainsGoOnOnlyForRecords == Spec => DrainsGetOn
  <1>1. TypeOK /\ TypeOK' /\ [Next]_vars => (\A t \in Threads : Draining(t) => GetsOn(t))
                                        \/ UNCHANGED vars
    <2> SUFFICES ASSUME TypeOK, TypeOK', Next, NEW t \in Threads, Draining(t)
                 PROVE  GetsOn(t)
      OBVIOUS
    <2>1. CASE Produce
      BY <2>1, OthersGetOn DEF Produce
    <2>2. ASSUME NEW u \in Threads, Call(u) PROVE GetsOn(t)
      <3>1. thread'[t] = thread[t]
        BY <2>2, BeginDrainView DEF Call, Start, CollectData, Stop, Finalize, Draining
      <3>2. UNCHANGED <<handed, outputData>>
        BY <2>2 DEF Call, Start, CollectData, Stop, Finalize, cupti
      <3>3. QED
        BY <3>1, <3>2, OthersGetOn
    <2>3. ASSUME NEW u \in Threads, GetData(u) PROVE GetsOn(t)
      <3> DEFINE n == Share(produced - handed)
      <3>1. /\ produced - handed \in Nat /\ handed \in Nat /\ n \in Nat
            /\ n = 0 => produced - handed = 0
        BY ShareFacts DEF TypeOK
      <3>2. /\ outputData' = [first |-> handed + 1, total |-> n,
                              remaining |-> produced - handed - n]
            /\ handed' = handed + n
            /\ GoTo(u, IF n = 0 THEN "test" ELSE "count")
        BY <2>3 DEF GetData
      <3> HIDE DEF n
      <3>3. CASE n # 0
        BY <3>1, <3>2, <3>3 DEF GetsOn
      <3>4. CASE n = 0
        <4>1. handed' = handed /\ outputData'.total = 0 /\ outputData'.remaining = 0
          BY <3>1, <3>2, <3>4
        <4>2. CASE u # t
          <5>1. thread'[t] = thread[t]
            BY <3>2, <3>4, <4>2, GoToView
          <5>2. QED
            BY <4>1, <5>1, OthersGetOn
        <4>3. CASE u = t
          <5>1. thread[t].pc = "getData" /\ thread'[t].pc = "test"
            BY <2>3, <3>2, <3>4, <4>3, GoToView DEF GetData
          <5>2. Rank(t) = 2 /\ Rank(t)' = 1
            BY <4>1, <5>1 DEF Rank
          <5>3. QED
            BY <4>1, <5>2 DEF GetsOn
        <4>4. QED
          BY <4>2, <4>3
      <3>5. QED
        BY <3>3, <3>4
    <2>4. ASSUME NEW u \in Threads, GetDataFails(u) \/ Count(u) \/ Emit(u) \/ Test(u)
          PROVE  GetsOn(t)
      <3>1. UNCHANGED <<handed, outputData>>
        BY <2>4 DEF GetDataFails, Count, Emit, Test, cupti
      <3>2. CASE u # t
        <4>1. thread'[t] = thread[t]
          BY <2>4, <3>2 DEF GetDataFails, Count, Emit, Test, GoTo, Returns, TypeOK
        <4>2. QED
          BY <3>1, <4>1, OthersGetOn
      <3>3. CASE u = t
        <4>1. Rank(t)' < Rank(t) /\ Rank(t)' \in Nat
          <5>1. /\ thread[t].next \in Nat /\ outputData.total \in 0 .. DataBufferPCCount
                /\ outputData.remaining \in Nat
                /\ Left(t) \in 0 .. DataBufferPCCount
                /\ Left(t)' \in 0 .. DataBufferPCCount
            <6>1. thread[t].next \in Nat /\ thread'[t].next \in Nat
              BY DEF TypeOK, ThreadState
            <6>2. outputData.total \in 0 .. DataBufferPCCount /\ outputData.remaining \in Nat
              BY DEF TypeOK, OutputData
            <6>3. QED
              BY <3>1, <6>1, <6>2 DEF Left
          <5>2. CASE GetDataFails(t) \/ (Test(t) /\ Returns(t))
            <6>1. thread[t].pc \in {"getData", "test"} /\ thread'[t].pc = "idle"
              BY <5>2, ReturnsView DEF GetDataFails, Test
            <6>2. QED
              BY <6>1 DEF Rank
          <5>3. CASE Test(t) /\ outputData.remaining > 0
            <6>1. thread[t].pc = "test" /\ thread'[t].pc = "getData"
              BY <5>3, GoToView DEF Test
            <6>2. QED
              BY <5>3, <6>1 DEF Rank
          <5>4. CASE Count(t)
            <6>1. thread[t].pc = "count" /\ thread'[t].pc = "emit"
              BY <5>4, GoToView DEF Count
            <6>2. QED
              BY <5>1, <6>1 DEF Rank
          <5>5. CASE Emit(t) /\ thread[t].next < outputData.total
            <6>1. thread' = [thread EXCEPT ![t].next = BatchEnd(thread[t].next)]
              BY <5>5 DEF Emit
            <6>2. thread[t].pc = "emit" /\ thread'[t].pc = "emit"
                  /\ thread'[t].next = BatchEnd(thread[t].next)
              BY <5>5, <6>1 DEF Emit, TypeOK, ThreadState
            <6>3. /\ BatchEnd(thread[t].next) \in Nat
                  /\ thread[t].next < BatchEnd(thread[t].next)
              BY <5>1, <5>5, BatchEndFacts
            <6>4. Left(t)' < Left(t)
              BY <3>1, <5>1, <5>5, <6>2, <6>3 DEF Left
            <6>5. QED
              BY <5>1, <6>2, <6>4 DEF Rank
          <5>6. CASE Emit(t) /\ ~(thread[t].next < outputData.total)
            <6>1. thread[t].pc = "emit" /\ thread'[t].pc = "test"
              BY <5>6 DEF Emit, TypeOK, ThreadState
            <6>2. QED
              BY <3>1, <5>1, <6>1 DEF Rank
          <5>7. QED
            BY <2>4, <3>3, <5>2, <5>3, <5>4, <5>5, <5>6 DEF Test
        <4>2. QED
          BY <3>1, <4>1, RankType DEF GetsOn
      <3>4. QED
        BY <3>2, <3>3
    <2>5. QED
      BY <2>1, <2>2, <2>3, <2>4 DEF Next, Step
  <1>2. QED
    BY <1>1, TypeCorrect, PTL DEF Spec, DrainsGetOn

-----------------------------------------------------------------------------
(***************************************************************************)
(* The windows.                                                            *)
(***************************************************************************)

Windows == INSTANCE SamplingWindows
  WITH active <- samplingActive, holder <- pcSamplingMutex

(* pcSamplingMutex is held for as long as a drain of stop is under way.    *)
HolderInv ==
  \A t \in Threads : pcSamplingMutex = t <=> Draining(t) /\ thread[t].op = "stop"

(* HolderInv is an invariant.                                              *)
LEMMA HolderInvariant == Spec => []HolderInv
  <1>1. Init => HolderInv
    <2>1. Init => pcSamplingMutex = Nobody /\ \A t \in Threads : thread[t].pc = "idle"
      BY DEF Init, Idle
    <2>2. QED
      BY <2>1 DEF HolderInv, Draining
  <1>2. TypeOK /\ HolderInv /\ [Next]_vars => HolderInv'
    <2> SUFFICES ASSUME TypeOK, HolderInv, [Next]_vars PROVE HolderInv'
      OBVIOUS
    <2>1. ASSUME UNCHANGED <<pcSamplingMutex, thread>> PROVE HolderInv'
      BY <2>1 DEF HolderInv, Draining
    <2>2. CASE Produce \/ (\E t \in Threads : Start(t)) \/ UNCHANGED vars
      BY <2>1, <2>2 DEF Produce, Start, vars, control
    <2>3. ASSUME NEW t \in Threads, NEW op \in {"collect", "finalize"},
                 BeginDrain(t, op), ~Draining(t), UNCHANGED pcSamplingMutex
          PROVE  HolderInv'
      <3>1. thread'[t].op = op /\ \A u \in Threads \ {t} : thread'[u] = thread[u]
        BY <2>3 DEF BeginDrain, TypeOK
      <3>2. QED
        BY <2>3, <3>1 DEF HolderInv, Draining
    <2>4. ASSUME NEW t \in Threads, CollectData(t) \/ Finalize(t) PROVE HolderInv'
      BY <2>3, <2>4 DEF CollectData, Finalize, control
    <2>5. ASSUME NEW t \in Threads, Stop(t) PROVE HolderInv'
      <3>1. CASE samplingActive
        <4>1. /\ pcSamplingMutex = Nobody /\ pcSamplingMutex' = t
              /\ thread'[t].pc = "getData" /\ thread'[t].op = "stop"
              /\ \A u \in Threads \ {t} : thread'[u] = thread[u]
          BY <2>5, <3>1 DEF Stop, BeginDrain, TypeOK
        <4>2. QED
          BY <4>1 DEF HolderInv, Draining
      <3>2. QED
        BY <2>1, <2>5, <3>1 DEF Stop
    <2>6. ASSUME NEW t \in Threads, Draining(t), Returns(t) PROVE HolderInv'
      <3>1. thread'[t].pc = "idle" /\ \A u \in Threads \ {t} : thread'[u] = thread[u]
        BY <2>6, ReturnsView
      <3>2. IF thread[t].op = "stop" THEN pcSamplingMutex' = Nobody
                                    ELSE pcSamplingMutex' = pcSamplingMutex
        BY <2>6 DEF Returns
      <3>3. QED
        BY <2>6, <3>1, <3>2 DEF HolderInv, Draining
    <2>7. ASSUME NEW t \in Threads, Draining(t), UNCHANGED pcSamplingMutex,
                 thread'[t].op = thread[t].op, thread'[t].pc # "idle",
                 \A u \in Threads \ {t} : thread'[u] = thread[u]
          PROVE  HolderInv'
      BY <2>7 DEF HolderInv, Draining
    <2>8. ASSUME NEW t \in Threads, Step(t) PROVE HolderInv'
      <3>1. Draining(t)
        BY <2>8 DEF Step, GetData, GetDataFails, Count, Emit, Test, Draining
      <3>2. CASE GetDataFails(t) \/ (Test(t) /\ Returns(t))
        BY <2>6, <3>1, <3>2 DEF GetDataFails
      <3>3. CASE GetData(t) \/ Count(t) \/ Emit(t) \/ (Test(t) /\ ~Returns(t))
        <4>1. /\ UNCHANGED pcSamplingMutex
              /\ thread'[t].op = thread[t].op /\ thread'[t].pc # "idle"
              /\ \A u \in Threads \ {t} : thread'[u] = thread[u]
          BY <3>3 DEF GetData, Count, Emit, Test, GoTo, control, TypeOK, ThreadState
        <4>2. QED
          BY <2>7, <3>1, <4>1
      <3>4. QED
        BY <2>8, <3>2, <3>3 DEF Step
    <2>9. QED
      BY <2>2, <2>4, <2>5, <2>8 DEF Next, Call
  <1>3. QED
    BY <1>1, <1>2, TypeCorrect, PTL DEF Spec

(* With all its drains the program keeps to SamplingWindows: a drain that  *)
(* closes a window holds everybody off who would open or close one, and no *)
(* other drain touches windows, whatever CUPTI answers.                    *)
THEOREM WindowsImplemented == Spec => Windows!WSpec
  <1>1. Init => Windows!WInit
    BY DEF Init, Windows!WInit
  <1>2. TypeOK /\ HolderInv /\ [Next]_vars => [Windows!WNext]_Windows!wvars
    <2> SUFFICES ASSUME TypeOK, HolderInv, [Next]_vars
                 PROVE  Windows!WNext \/ UNCHANGED <<window, samplingActive, pcSamplingMutex>>
      BY DEF Windows!wvars
    <2>1. ASSUME NEW t \in Threads, Start(t) PROVE Windows!Opens(t)
      BY <2>1 DEF Start, Windows!Opens, TypeOK
    <2>2. ASSUME NEW t \in Threads, Stop(t)
          PROVE  Windows!SwitchesOff(t) \/ Windows!FindsItOff(t)
      BY <2>2 DEF Stop, Windows!SwitchesOff, Windows!FindsItOff
    <2>3. ASSUME NEW t \in Threads, Finalize(t) PROVE Windows!Ends
      <3>1. pcSamplingMutex = Nobody
        BY <2>3 DEF Finalize, HolderInv, TypeOK
      <3>2. QED
        BY <2>3, <3>1 DEF Finalize, Windows!Ends
    <2>4. ASSUME NEW t \in Threads, Draining(t), Returns(t), UNCHANGED samplingActive
          PROVE  Windows!Closes(t) \/ UNCHANGED <<window, samplingActive, pcSamplingMutex>>
      BY <2>4 DEF Returns, HolderInv, Windows!Closes
    <2>5. ASSUME NEW t \in Threads, Step(t)
          PROVE  Windows!Closes(t) \/ UNCHANGED <<window, samplingActive, pcSamplingMutex>>
      BY <2>4, <2>5 DEF Step, GetData, GetDataFails, Count, Emit, Test, Draining, control
    <2>6. CASE Produce \/ (\E t \in Threads : CollectData(t)) \/ UNCHANGED vars
      BY <2>6 DEF Produce, CollectData, vars, control
    <2>7. QED
      BY <2>1, <2>2, <2>3, <2>5, <2>6 DEF Next, Call, Windows!WNext
  <1>3. QED
    BY <1>1, <1>2, TypeCorrect, HolderInvariant, PTL DEF Spec, Windows!WSpec

(* So SamplingWindows says who ends what: sampling that is on has a thread *)
(* with an open window, and none can be switched on under a closing drain. *)
THEOREM DrainsKeepWindows == Spec => []Windows!WindowsKept
  <1>1. Windows!WInit => Windows!WindowsKept
    BY DEF Windows!WInit, Windows!WindowsKept
  <1>2. window \in [Threads -> BOOLEAN] /\ Windows!WindowsKept
          /\ [Windows!WNext]_Windows!wvars => Windows!WindowsKept'
    <2> SUFFICES ASSUME window \in [Threads -> BOOLEAN], Windows!WindowsKept,
                        [Windows!WNext]_Windows!wvars
                 PROVE  Windows!WindowsKept'
      OBVIOUS
    <2>1. ASSUME NEW t \in Threads, Windows!Opens(t) PROVE Windows!WindowsKept'
      BY <2>1 DEF Windows!Opens, Windows!WindowsKept
    <2>2. ASSUME NEW t \in Threads,
                 Windows!SwitchesOff(t) \/ Windows!FindsItOff(t) \/ Windows!Closes(t)
          PROVE  ~samplingActive'
      BY <2>2
      DEF Windows!SwitchesOff, Windows!FindsItOff, Windows!Closes, Windows!WindowsKept
    <2>3. CASE Windows!Ends
      BY <2>3 DEF Windows!Ends, Windows!WindowsKept
    <2>4. CASE UNCHANGED Windows!wvars
      BY <2>4 DEF Windows!wvars, Windows!WindowsKept
    <2>5. QED
      BY <2>1, <2>2, <2>3, <2>4 DEF Windows!WNext, Windows!WindowsKept
  <1>3. TypeOK => window \in [Threads -> BOOLEAN]
    BY DEF TypeOK
  <1>4. QED
    BY <1>1, <1>2, <1>3, TypeCorrect, WindowsImplemented, PTL DEF Windows!WSpec

=============================================================================
