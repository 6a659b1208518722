-------------------------- MODULE PCSamplingProofs --------------------------
(***************************************************************************)
(* Theorems about PCSampling, for every number of threads and contexts.    *)
(***************************************************************************)
EXTENDS PCSampling, TLAPS

USE NobodyAssumption

-----------------------------------------------------------------------------
(* What a move of one thread's program counter does to the threads.         *)
LEMMA GoToView ==
  ASSUME thread \in [Threads -> ThreadState], NEW t \in Threads, NEW pc \in PCs,
         GoTo(t, pc)
  PROVE  /\ thread' \in [Threads -> ThreadState]
         /\ \A u \in Threads \ {t} : thread'[u] = thread[u]
         /\ thread'[t].pc = pc
         /\ thread'[t].op = thread[t].op
         /\ thread'[t].ctx = thread[t].ctx
  BY DEF GoTo, ThreadState

(* What entering a callback does, field by field. *)
LEMMA CallView ==
  ASSUME thread \in [Threads -> ThreadState], NEW t \in Threads, NEW pc \in PCs,
         NEW op \in Ops, NEW c \in Contexts, Call(t, op, c, pc)
  PROVE  /\ thread' \in [Threads -> ThreadState]
         /\ \A u \in Threads \ {t} : thread'[u] = thread[u]
         /\ thread[t].pc = "idle"
         /\ thread'[t].pc = pc
         /\ thread'[t].op = op
         /\ thread'[t].ctx = c
  BY DEF Call, ThreadState

-----------------------------------------------------------------------------
(* Type correctness, but for the bound on listed, which SetupInv gives.     *)
TypesOK ==
  /\ life \in [Contexts -> {"new", "alive", "gone"}]
  /\ thread \in [Threads -> ThreadState]
  /\ window \in [Threads -> BOOLEAN]
  /\ contextMutex \in Threads \cup {Nobody}
  /\ pcSamplingMutex \in Threads \cup {Nobody}
  /\ samplingActive \in BOOLEAN
  /\ samplingContext \in Contexts
  /\ initialized \subseteq Contexts
  /\ failed \subseteq Contexts
  /\ configured \subseteq Contexts
  /\ listed \in [Contexts -> Nat]
  /\ enabled \subseteq Contexts
  /\ collecting \subseteq Contexts
  /\ unstopped \subseteq Contexts

(* The types hold. *)
LEMMA TypesInvariant == Spec => []TypesOK
  <1>1. Init => TypesOK
    <2> SUFFICES ASSUME Init PROVE TypesOK
      OBVIOUS
    <2>1. PICK c \in Contexts :
            /\ thread = [t \in Threads |-> [pc |-> "idle", op |-> "create", ctx |-> c]]
            /\ samplingContext = c
      BY DEF Init
    <2>2. [pc |-> "idle", op |-> "create", ctx |-> c] \in ThreadState
      BY DEF ThreadState, PCs, Ops
    <2>3. QED
      BY <2>1, <2>2 DEF Init, TypesOK
  <1>2. TypesOK /\ [Next]_vars => TypesOK'
    <2> SUFFICES ASSUME TypesOK, [Next]_vars PROVE TypesOK'
      OBVIOUS
    <2>1. thread \in [Threads -> ThreadState]
      BY DEF TypesOK
    <2>2. ASSUME NEW t \in Threads PROVE Ctx(t) \in Contexts
      BY <2>1 DEF Ctx, ThreadState
    <2>3. ASSUME NEW t \in Threads, NEW pc \in PCs, GoTo(t, pc)
          PROVE  thread' \in [Threads -> ThreadState]
      BY <2>1, <2>3, GoToView
    <2>4. ASSUME NEW t \in Threads, NEW op \in Ops, NEW c \in Contexts, NEW pc \in PCs,
                 Call(t, op, c, pc)
          PROVE  thread' \in [Threads -> ThreadState]
      BY <2>1, <2>4, CallView
    <2>5. ASSUME NEW t \in Threads, NEW c \in Contexts, Callback(t, c) PROVE TypesOK'
      <3>1. {"create", "destroy", "start", "collect", "stop"} \subseteq Ops
            /\ {"initCheck", "finCheck", "startLock", "collect", "stopLock"} \subseteq PCs
        BY DEF Ops, PCs
      <3>2. thread' \in [Threads -> ThreadState]
        BY <2>4, <2>5, <3>1
        DEF Callback, ContextCreated, ContextDestroyStarting, OpenWindow,
            CollectInWindow, CloseWindow
      <3>3. QED
        BY <2>5, <3>2
        DEF Callback, ContextCreated, ContextDestroyStarting, OpenWindow,
            CollectInWindow, CloseWindow, TypesOK, mutexes, sampling, setup, cupti
    <2>6. ASSUME NEW t \in Threads, Start(t) \/ Stop(t) PROVE TypesOK'
      <3>1. thread' \in [Threads -> ThreadState]
        BY <2>3, <2>6 DEF Start, Stop, PCs
      <3>2. collecting' \subseteq Contexts /\ unstopped' \subseteq Contexts
        BY <2>2, <2>6 DEF Start, Stop, CuptiStart, CuptiStop, TypesOK
      <3>3. QED
        BY <2>2, <2>6, <3>1, <3>2 DEF Start, Stop, TypesOK, mutexes, sampling, setup
    <2>7. ASSUME NEW t \in Threads, Collect(t) \/ Lookup(t) \/ GetData(t) \/ Probe(t)
          PROVE  TypesOK'
      <3>1. thread' \in [Threads -> ThreadState]
        BY <2>3, <2>7 DEF Collect, Lookup, GetData, Probe, CollectReturns, PCs
      <3>2. QED
        BY <2>2, <2>7, <3>1
        DEF Collect, Lookup, GetData, Probe, CollectReturns, TypesOK, mutexes,
            sampling, setup, cupti
    <2>8. ASSUME NEW t \in Threads,
                 \/ FinalizeCheck(t) \/ FinalizeLock(t) \/ FinalizeStop(t)
                 \/ FinalizeDisable(t) \/ FinalizeErase(t) \/ FinalizeReturn(t)
          PROVE  TypesOK'
      <3>1. thread' \in [Threads -> ThreadState]
        BY <2>3, <2>8
        DEF FinalizeCheck, FinalizeLock, FinalizeStop, FinalizeDisable, FinalizeErase,
            FinalizeReturn, AfterFinalize, PCs
      <3>2. CASE FinalizeLock(t)
        <4>1. listed' \in [Contexts -> Nat]
          BY <3>2 DEF FinalizeLock, TypesOK
        <4>2. QED
          BY <3>1, <3>2, <4>1 DEF FinalizeLock, TypesOK, sampling, cupti
      <3>3. CASE FinalizeCheck(t) \/ FinalizeStop(t) \/ FinalizeDisable(t)
        BY <2>2, <3>1, <3>3
        DEF FinalizeCheck, FinalizeStop, FinalizeDisable, CuptiStop, TypesOK, mutexes,
            sampling, setup, cupti
      <3>4. CASE FinalizeErase(t) \/ FinalizeReturn(t)
        BY <3>1, <3>4
        DEF FinalizeErase, FinalizeReturn, TypesOK, mutexes, sampling, setup, cupti
      <3>5. QED
        BY <2>8, <3>2, <3>3, <3>4
    <2>9. ASSUME NEW t \in Threads,
                 \/ InitializeCheck(t) \/ InitializeLock(t)
                 \/ InitializeEnable(t) \/ InitializeConfigure(t)
          PROVE  TypesOK'
      <3>1. thread' \in [Threads -> ThreadState]
        BY <2>3, <2>9
        DEF InitializeCheck, InitializeLock, InitializeEnable, InitializeConfigure, PCs
      <3>2. CASE InitializeConfigure(t)
        <4>1. listed' \in [Contexts -> Nat]
          BY <2>2, <3>2 DEF InitializeConfigure, TypesOK
        <4>2. QED
          BY <2>2, <3>1, <3>2, <4>1
          DEF InitializeConfigure, TypesOK, sampling, cupti
      <3>3. CASE InitializeEnable(t)
        BY <2>2, <3>1, <3>3 DEF InitializeEnable, TypesOK, sampling
      <3>4. CASE InitializeCheck(t) \/ InitializeLock(t)
        BY <3>1, <3>4
        DEF InitializeCheck, InitializeLock, TypesOK, mutexes, sampling, setup, cupti
      <3>5. QED
        BY <2>9, <3>2, <3>3, <3>4
    <2>10. CASE UNCHANGED vars
      BY <2>10 DEF vars, TypesOK, mutexes, sampling, setup, cupti
    <2>11. QED
      BY <2>5, <2>6, <2>7, <2>8, <2>9, <2>10 DEF Next, Step
  <1>3. QED
    BY <1>1, <1>2, PTL DEF Spec

-----------------------------------------------------------------------------
(***************************************************************************)
(* Who holds a mutex is where its program counter says, and a thread in    *)
(* stop never gets as far as finalize.                                     *)
(***************************************************************************)
HoldsContextMutex ==
  {"finStop", "finDisable", "finErase", "finReturn", "initEnable", "initConfigure"}

Draining == {"collect", "lookup", "getData", "probe"}

(* The owners of the two mutexes, by program counter. *)
MutexInv ==
  /\ \A t \in Threads :
       /\ contextMutex = t <=> thread[t].pc \in HoldsContextMutex
       /\ pcSamplingMutex = t <=> thread[t].op = "stop" /\ thread[t].pc \in Draining
       /\ thread[t].op = "stop" => thread[t].pc \in Draining \cup {"idle", "stopLock"}
       /\ thread[t].pc = "stopLock" => thread[t].op = "stop"

(* A thread that starts sampling has its window open; while stop drains,    *)
(* sampling is off.                                                        *)
WindowInv ==
  /\ SomeoneWillStop
  /\ \A t \in Threads : thread[t].pc = "startLock" => window[t]
  /\ pcSamplingMutex # Nobody => ~samplingActive

(***************************************************************************)
(* A context is set up or torn down by the holder of contextMutex only.    *)
(***************************************************************************)
SetUp(c) ==
  /\ c \in initialized => c \in enabled
  /\ listed[c] = IF c \in initialized THEN 1 ELSE 0

(* A context is as SetUp says unless the holder of contextMutex works on   *)
(* it.                                                                     *)
SetupInv ==
  /\ initialized \cap failed = {}
  /\ \A c \in Contexts :
       (\A t \in Threads : contextMutex = t => Ctx(t) # c) => SetUp(c)
  /\ \A t \in Threads :
       /\ thread[t].pc \in {"finStop", "finDisable", "finErase", "finReturn"}
            => listed[Ctx(t)] = 0
       /\ thread[t].pc \in {"initEnable", "initConfigure"}
            => /\ Ctx(t) \notin initialized \cup failed
               /\ listed[Ctx(t)] = 0
       /\ thread[t].pc = "initConfigure" => Ctx(t) \in enabled

(* MutexInv is an invariant. *)
LEMMA MutexInvariant == Spec => []MutexInv
  <1>1. Init => MutexInv
    BY DEF Init, MutexInv, HoldsContextMutex, Draining
  <1>2. TypesOK /\ MutexInv /\ [Next]_vars => MutexInv'
    <2> SUFFICES ASSUME TypesOK, MutexInv, [Next]_vars PROVE MutexInv'
      OBVIOUS
    <2>1. thread \in [Threads -> ThreadState]
      BY DEF TypesOK
    <2>2. ASSUME NEW t \in Threads, NEW pc \in PCs, GoTo(t, pc),
                 contextMutex' = IF pc \in HoldsContextMutex THEN t ELSE
                   IF thread[t].pc \in HoldsContextMutex THEN Nobody ELSE contextMutex,
                 pcSamplingMutex' = IF thread[t].op = "stop" /\ pc \in Draining THEN t
                   ELSE IF thread[t].op = "stop" /\ thread[t].pc \in Draining
                   THEN Nobody ELSE pcSamplingMutex,
                 pc \in HoldsContextMutex /\ thread[t].pc \notin HoldsContextMutex
                   => contextMutex = Nobody,
                 thread[t].op = "stop" /\ pc \in Draining /\ thread[t].pc \notin Draining
                   => pcSamplingMutex = Nobody,
                 thread[t].op = "stop" => pc \in Draining \cup {"idle"},
                 pc # "stopLock"
          PROVE  MutexInv'
      <3>1. /\ \A u \in Threads \ {t} : thread'[u] = thread[u]
            /\ thread'[t].pc = pc
            /\ thread'[t].op = thread[t].op
        BY <2>1, <2>2, GoToView
      <3>2. \A u \in Threads : contextMutex' = u <=> thread'[u].pc \in HoldsContextMutex
        BY <2>2, <3>1 DEF MutexInv
      <3>3. \A u \in Threads :
              pcSamplingMutex' = u <=> thread'[u].op = "stop" /\ thread'[u].pc \in Draining
        BY <2>2, <3>1 DEF MutexInv
      <3>4. QED
        BY <2>2, <3>1, <3>2, <3>3 DEF MutexInv
    <2>3. ASSUME NEW t \in Threads, NEW c \in Contexts, Callback(t, c) PROVE MutexInv'
      <3>1. PICK op \in Ops, pc \in {"initCheck", "finCheck", "startLock", "collect", "stopLock"} :
              /\ Call(t, op, c, pc)
              /\ op = "stop" <=> pc = "stopLock"
        BY <2>3
        DEF Callback, ContextCreated, ContextDestroyStarting, OpenWindow,
            CollectInWindow, CloseWindow, Ops
      <3>2. UNCHANGED mutexes
        BY <2>3
        DEF Callback, ContextCreated, ContextDestroyStarting, OpenWindow,
            CollectInWindow, CloseWindow
      <3>3. /\ \A u \in Threads \ {t} : thread'[u] = thread[u]
            /\ thread[t].pc = "idle"
            /\ thread'[t].pc = pc
            /\ thread'[t].op = op
        BY <2>1, <3>1, CallView DEF PCs
      <3>4. QED
        BY <3>1, <3>2, <3>3 DEF MutexInv, mutexes, HoldsContextMutex, Draining
    <2>4. ASSUME NEW t \in Threads, Step(t) PROVE MutexInv'
      <3> USE DEF HoldsContextMutex, Draining, PCs
      <3>1. CASE Start(t)
        BY <2>2, <3>1 DEF Start, MutexInv, mutexes
      <3>2. CASE Stop(t)
        BY <2>2, <3>2 DEF Stop, MutexInv
      <3>3. CASE Collect(t)
        BY <2>2, <3>3 DEF Collect, CollectReturns, MutexInv
      <3>4. CASE Lookup(t)
        BY <2>2, <3>4 DEF Lookup, MutexInv, mutexes
      <3>5. CASE GetData(t)
        BY <2>2, <3>5 DEF GetData, CollectReturns, MutexInv
      <3>6. CASE Probe(t)
        BY <2>2, <3>6 DEF Probe, CollectReturns, MutexInv
      <3>7. CASE FinalizeCheck(t)
        BY <2>2, <3>7 DEF FinalizeCheck, AfterFinalize, MutexInv, mutexes
      <3>8. CASE FinalizeLock(t)
        BY <2>2, <3>8 DEF FinalizeLock, MutexInv
      <3>9. CASE FinalizeStop(t)
        BY <2>2, <3>9 DEF FinalizeStop, MutexInv, mutexes
      <3>10. CASE FinalizeDisable(t)
        BY <2>2, <3>10 DEF FinalizeDisable, MutexInv, mutexes
      <3>11. CASE FinalizeErase(t)
        BY <2>2, <3>11 DEF FinalizeErase, MutexInv, mutexes
      <3>12. CASE FinalizeReturn(t)
        BY <2>2, <3>12 DEF FinalizeReturn, AfterFinalize, MutexInv
      <3>13. CASE InitializeCheck(t)
        BY <2>2, <3>13 DEF InitializeCheck, MutexInv, mutexes
      <3>14. CASE InitializeLock(t)
        BY <2>2, <3>14 DEF InitializeLock, MutexInv
      <3>15. CASE InitializeEnable(t)
        BY <2>2, <3>15 DEF InitializeEnable, MutexInv
      <3>16. CASE InitializeConfigure(t)
        BY <2>2, <3>16 DEF InitializeConfigure, MutexInv
      <3>17. QED
        BY <2>4, <3>1, <3>2, <3>3, <3>4, <3>5, <3>6, <3>7, <3>8, <3>9, <3>10, <3>11,
           <3>12, <3>13, <3>14, <3>15, <3>16 DEF Step
    <2>5. CASE UNCHANGED vars
      BY <2>5 DEF vars, mutexes, MutexInv
    <2>6. QED
      BY <2>3, <2>4, <2>5 DEF Next
  <1>3. QED
    BY <1>1, <1>2, TypesInvariant, PTL DEF Spec

(* No deadlock of the two mutexes, for any number of threads.               *)
THEOREM MutexesInOrder == Spec => []LockOrder
  <1>1. MutexInv => LockOrder
    BY DEF MutexInv, LockOrder, HoldsContextMutex, Draining
  <1>2. QED
    BY <1>1, MutexInvariant, PTL

(* Whom a thread that is about to take a mutex has to wait for.            *)
Awaited(t) ==
  IF thread[t].pc \in {"finLock", "initLock"} THEN contextMutex
  ELSE IF thread[t].pc \in {"startLock", "stopLock", "finStop"} THEN pcSamplingMutex
  ELSE Nobody

GoesOn(t) == t \in Threads /\ thread[t].pc # "idle" /\ Awaited(t) = Nobody

(* A thread inside a callback goes on, or whom it waits for does, or whom  *)
(* that one waits for.                                                     *)
WaitsAreShort ==
  \A t \in Threads : thread[t].pc # "idle" =>
    GoesOn(t) \/ GoesOn(Awaited(t)) \/ GoesOn(Awaited(Awaited(t)))

(* A step is taken by a thread that waits for nobody.                      *)
LEMMA StepsWaitForNobody ==
  ASSUME NEW t \in Threads, Step(t)
  PROVE  thread[t].pc # "idle" /\ Awaited(t) = Nobody
  BY DEF Step, Start, Stop, Collect, Lookup, GetData, Probe, FinalizeCheck, FinalizeLock,
         FinalizeStop, FinalizeDisable, FinalizeErase, FinalizeReturn, InitializeCheck,
         InitializeLock, InitializeEnable, InitializeConfigure, Awaited

(* However many threads reset, stop and destroy at once, the callbacks do  *)
(* not deadlock: no mutex is left locked by a thread that has returned, no *)
(* chain of waiting is longer than two and none is a circle.               *)
THEOREM WaitsEnd == Spec => []WaitsAreShort
  <1>1. TypesOK /\ MutexInv => WaitsAreShort
    <2> SUFFICES ASSUME TypesOK, MutexInv, NEW t \in Threads, thread[t].pc # "idle"
                 PROVE  GoesOn(t) \/ GoesOn(Awaited(t)) \/ GoesOn(Awaited(Awaited(t)))
      BY DEF WaitsAreShort
    <2>1. ASSUME NEW v \in Threads, pcSamplingMutex = v PROVE GoesOn(v)
      BY <2>1 DEF MutexInv, Draining, GoesOn, Awaited
    <2>2. ASSUME NEW u \in Threads, contextMutex = u
          PROVE  GoesOn(u) \/ GoesOn(Awaited(u))
      <3>1. thread[u].pc \in HoldsContextMutex
        BY <2>2 DEF MutexInv
      <3>2. CASE thread[u].pc = "finStop" /\ pcSamplingMutex # Nobody
        BY <2>1, <3>2 DEF TypesOK, Awaited
      <3>3. QED
        BY <3>1, <3>2 DEF HoldsContextMutex, GoesOn, Awaited
    <2>3. CASE thread[t].pc \in {"finLock", "initLock"}
      <3>1. Awaited(t) = contextMutex
        BY <2>3 DEF Awaited
      <3>2. QED
        BY <2>2, <2>3, <3>1 DEF TypesOK, GoesOn
    <2>4. CASE thread[t].pc \in {"startLock", "stopLock", "finStop"}
      <3>1. Awaited(t) = pcSamplingMutex
        BY <2>4 DEF Awaited
      <3>2. QED
        BY <2>1, <2>4, <3>1 DEF TypesOK, GoesOn
    <2>5. QED
      BY <2>3, <2>4 DEF GoesOn, Awaited
  <1>2. QED
    BY <1>1, TypesInvariant, MutexInvariant, PTL

-----------------------------------------------------------------------------
(* WindowInv is an invariant. *)
LEMMA WindowInvariant == Spec => []WindowInv
  <1>1. Init => WindowInv
    BY DEF Init, WindowInv, SomeoneWillStop
  <1>2. TypesOK /\ MutexInv /\ WindowInv /\ [Next]_vars => WindowInv'
    <2> SUFFICES ASSUME TypesOK, MutexInv, WindowInv, [Next]_vars PROVE WindowInv'
      OBVIOUS
    <2>1. thread \in [Threads -> ThreadState]
      BY DEF TypesOK
    <2>2. ASSUME NEW t \in Threads, NEW pc \in PCs \ {"startLock"}, GoTo(t, pc)
          PROVE  \A u \in Threads : thread'[u].pc = "startLock" =>
                   u # t /\ thread[u].pc = "startLock"
      BY <2>1, <2>2, GoToView
    <2>3. ASSUME NEW t \in Threads, NEW c \in Contexts, Callback(t, c) PROVE WindowInv'
      <3>1. CASE OpenWindow(t, c)
        <4>1. \A u \in Threads : thread'[u].pc = "startLock" =>
                u = t \/ thread[u].pc = "startLock"
          BY <2>1, <3>1, CallView DEF OpenWindow, PCs, Ops
        <4>2. \A u \in Threads : window'[u] <=> (u = t \/ window[u])
          BY <3>1 DEF OpenWindow, TypesOK
        <4>3. QED
          BY <3>1, <4>1, <4>2
          DEF OpenWindow, WindowInv, SomeoneWillStop, mutexes, sampling
      <3>2. CASE \/ ContextCreated(t, c) \/ ContextDestroyStarting(t, c)
                 \/ CollectInWindow(t, c) \/ CloseWindow(t, c)
        <4>1. PICK op \in Ops, pc \in PCs \ {"startLock"} : Call(t, op, c, pc)
          BY <3>2
          DEF ContextCreated, ContextDestroyStarting, CollectInWindow, CloseWindow,
              PCs, Ops
        <4>2. \A u \in Threads : thread'[u].pc = "startLock" =>
                thread[u].pc = "startLock"
          BY <2>1, <4>1, CallView
        <4>3. UNCHANGED <<window, mutexes, sampling>>
          BY <3>2
          DEF ContextCreated, ContextDestroyStarting, CollectInWindow, CloseWindow
        <4>4. QED
          BY <4>2, <4>3 DEF WindowInv, SomeoneWillStop, mutexes, sampling
      <3>3. QED
        BY <2>3, <3>1, <3>2 DEF Callback
    <2>4. ASSUME NEW t \in Threads, Start(t) PROVE WindowInv'
      <3>1. window[t] /\ pcSamplingMutex' = Nobody
        BY <2>4 DEF Start, WindowInv, mutexes
      <3>2. \A u \in Threads : thread'[u].pc = "startLock" => thread[u].pc = "startLock"
        BY <2>2, <2>4 DEF Start, PCs
      <3>3. QED
        BY <2>4, <3>1, <3>2 DEF Start, WindowInv, SomeoneWillStop
    <2>5. ASSUME NEW t \in Threads, CollectReturns(t),
                 thread[t].op = "stop" => pcSamplingMutex = t,
                 UNCHANGED sampling
          PROVE  WindowInv'
      <3>1. \A u \in Threads : thread'[u].pc = "startLock" =>
              u # t /\ thread[u].pc = "startLock"
        BY <2>2, <2>5 DEF CollectReturns, PCs
      <3>2. \A u \in Threads \ {t} : window'[u] <=> window[u]
        BY <2>5 DEF CollectReturns, TypesOK
      <3>3. thread[t].op = "stop" => ~samplingActive
        BY <2>5 DEF WindowInv
      <3>4. thread[t].op # "stop" => UNCHANGED <<pcSamplingMutex, window>>
        BY <2>5 DEF CollectReturns
      <3>5. thread[t].op = "stop" => pcSamplingMutex' = Nobody
        BY <2>5 DEF CollectReturns
      <3>6. samplingActive' <=> samplingActive
        BY <2>5 DEF sampling
      <3>7. QED
        BY <3>1, <3>2, <3>3, <3>4, <3>5, <3>6 DEF WindowInv, SomeoneWillStop
    <2>6. ASSUME NEW t \in Threads, Stop(t) PROVE WindowInv'
      <3>1. \A u \in Threads : thread'[u].pc = "startLock" =>
              u # t /\ thread[u].pc = "startLock"
        BY <2>2, <2>6 DEF Stop, PCs
      <3>2. ~samplingActive'
        BY <2>6 DEF Stop
      <3>3. \A u \in Threads \ {t} : window'[u] <=> window[u]
        BY <2>6 DEF Stop, TypesOK
      <3>4. QED
        BY <3>1, <3>2, <3>3 DEF WindowInv, SomeoneWillStop
    <2>7. ASSUME NEW t \in Threads, NEW pc \in PCs \ {"startLock"}, GoTo(t, pc),
                 UNCHANGED <<window, pcSamplingMutex>>,
                 samplingActive' => samplingActive
          PROVE  WindowInv'
      BY <2>2, <2>7 DEF WindowInv, SomeoneWillStop
    <2>8. ASSUME NEW t \in Threads, Collect(t) \/ GetData(t) \/ Probe(t)
          PROVE  WindowInv'
      <3>1. CASE CollectReturns(t)
        <4>1. thread[t].op = "stop" => pcSamplingMutex = t
          BY <2>8 DEF Collect, GetData, Probe, MutexInv, Draining
        <4>2. QED
          BY <2>5, <2>8, <3>1, <4>1 DEF Collect, GetData, Probe
      <3>2. CASE \E pc \in {"lookup", "probe", "finCheck"} :
                   GoTo(t, pc) /\ UNCHANGED <<pcSamplingMutex, window>>
        BY <2>7, <2>8, <3>2 DEF Collect, GetData, Probe, PCs, sampling
      <3>3. QED
        BY <2>8, <3>1, <3>2 DEF Collect, GetData, Probe
    <2>9. ASSUME NEW t \in Threads,
                 \/ Lookup(t)
                 \/ FinalizeCheck(t) \/ FinalizeLock(t) \/ FinalizeStop(t)
                 \/ FinalizeDisable(t) \/ FinalizeErase(t) \/ FinalizeReturn(t)
          PROVE  WindowInv'
      <3>1. PICK pc \in PCs \ {"startLock"} : GoTo(t, pc)
        BY <2>9
        DEF Lookup, FinalizeCheck, FinalizeLock, FinalizeStop, FinalizeDisable,
            FinalizeErase, FinalizeReturn, AfterFinalize, PCs
      <3>2. UNCHANGED <<window, pcSamplingMutex>> /\ (samplingActive' => samplingActive)
        BY <2>9
        DEF Lookup, FinalizeCheck, FinalizeLock, FinalizeStop, FinalizeDisable,
            FinalizeErase, FinalizeReturn, mutexes, sampling
      <3>3. QED
        BY <2>7, <3>1, <3>2
    <2>10. ASSUME NEW t \in Threads,
                  \/ InitializeCheck(t) \/ InitializeLock(t)
                  \/ InitializeEnable(t) \/ InitializeConfigure(t)
           PROVE  WindowInv'
      <3>1. PICK pc \in PCs \ {"startLock"} : GoTo(t, pc)
        BY <2>10
        DEF InitializeCheck, InitializeLock, InitializeEnable, InitializeConfigure, PCs
      <3>2. UNCHANGED <<window, pcSamplingMutex, sampling>>
        BY <2>10
        DEF InitializeCheck, InitializeLock, InitializeEnable, InitializeConfigure,
            mutexes
      <3>3. QED
        BY <2>7, <3>1, <3>2 DEF sampling
    <2>11. CASE UNCHANGED vars
      BY <2>11 DEF vars, mutexes, sampling, WindowInv, SomeoneWillStop
    <2>12. QED
      BY <2>3, <2>4, <2>6, <2>8, <2>9, <2>10, <2>11 DEF Next, Step
  <1>3. QED
    BY <1>1, <1>2, TypesInvariant, MutexInvariant, PTL DEF Spec

(* While sampling is on somebody has a window to close, for any number of   *)
(* threads and contexts.                                                   *)
THEOREM SamplingHasAnOwner == Spec => []SomeoneWillStop
  BY WindowInvariant, PTL DEF WindowInv

-----------------------------------------------------------------------------
(* A step of a thread that has contextMutex before or after it, or finds    *)
(* it free, and touches its own context only.                              *)
LEMMA OwnerStep ==
  ASSUME TypesOK, MutexInv, SetupInv, NEW t \in Threads, NEW pc \in PCs, GoTo(t, pc),
         contextMutex \in {t, Nobody}, contextMutex' \in {t, Nobody},
         \A c \in Contexts \ {Ctx(t)} : /\ c \in initialized' <=> c \in initialized
                                        /\ c \in enabled' <=> c \in enabled
                                        /\ listed'[c] = listed[c],
         initialized' \cap failed' = {},
         contextMutex' = Nobody =>
           /\ Ctx(t) \in initialized' => Ctx(t) \in enabled'
           /\ listed'[Ctx(t)] = IF Ctx(t) \in initialized' THEN 1 ELSE 0,
         pc \in {"finStop", "finDisable", "finErase", "finReturn", "initEnable",
                 "initConfigure"} => listed'[Ctx(t)] = 0,
         pc \in {"initEnable", "initConfigure"} => Ctx(t) \notin initialized' \cup failed',
         pc = "initConfigure" => Ctx(t) \in enabled'
  PROVE  SetupInv'
  <1>1. /\ \A u \in Threads \ {t} : thread'[u] = thread[u]
        /\ thread'[t].pc = pc
        /\ thread'[t].ctx = Ctx(t)
    BY GoToView DEF TypesOK, Ctx
  <1>2. \A u \in Threads \ {t} : thread'[u].pc \notin HoldsContextMutex
    BY <1>1 DEF MutexInv
  <1>3. ASSUME NEW u \in Threads
        PROVE  /\ thread'[u].pc \in {"finStop", "finDisable", "finErase", "finReturn"}
                    => listed'[thread'[u].ctx] = 0
               /\ thread'[u].pc \in {"initEnable", "initConfigure"}
                    => /\ thread'[u].ctx \notin initialized' \cup failed'
                       /\ listed'[thread'[u].ctx] = 0
               /\ thread'[u].pc = "initConfigure" => thread'[u].ctx \in enabled'
    BY <1>1, <1>2 DEF HoldsContextMutex
  <1>4. ASSUME NEW c \in Contexts, \A u \in Threads : contextMutex' = u => thread'[u].ctx # c
        PROVE  /\ c \in initialized' => c \in enabled'
               /\ listed'[c] = IF c \in initialized' THEN 1 ELSE 0
    <2>1. CASE c = Ctx(t)
      BY <1>1, <1>4, <2>1
    <2>2. CASE c # Ctx(t)
      <3>1. SetUp(c)
        BY <2>2 DEF SetupInv
      <3>2. QED
        BY <2>2, <3>1 DEF SetUp
    <2>3. QED
      BY <2>1, <2>2
  <1>5. QED
    BY <1>3, <1>4 DEF SetupInv, SetUp, Ctx

(* A step that leaves the contexts and the holder of contextMutex alone.    *)
LEMMA OtherStep ==
  ASSUME TypesOK, MutexInv, SetupInv, NEW t \in Threads,
         \A u \in Threads \ {t} : thread'[u] = thread[u],
         thread[t].pc \notin HoldsContextMutex, thread'[t].pc \notin HoldsContextMutex,
         contextMutex' = contextMutex, initialized' = initialized, listed' = listed,
         enabled' = enabled, failed' \subseteq failed
  PROVE  SetupInv'
  <1>1. contextMutex # t
    BY DEF MutexInv
  <1>2. \A u \in Threads : contextMutex' = u => thread'[u].ctx = Ctx(u)
    BY <1>1 DEF Ctx
  <1>3. \A u \in Threads :
          /\ thread'[u].pc \in {"finStop", "finDisable", "finErase", "finReturn"}
               => listed'[thread'[u].ctx] = 0
          /\ thread'[u].pc \in {"initEnable", "initConfigure"}
               => /\ thread'[u].ctx \notin initialized' \cup failed'
                  /\ listed'[thread'[u].ctx] = 0
          /\ thread'[u].pc = "initConfigure" => thread'[u].ctx \in enabled'
    BY DEF SetupInv, HoldsContextMutex, Ctx
  <1>4. \A c \in Contexts : SetUp(c)' <=> SetUp(c)
    BY DEF SetUp
  <1>5. initialized' \cap failed' = {}
    BY DEF SetupInv
  <1>6. \A c \in Contexts :
          (\A u \in Threads : contextMutex' = u => thread'[u].ctx # c) => SetUp(c)'
    BY <1>2, <1>4 DEF SetupInv
  <1>7. QED
    BY <1>3, <1>5, <1>6 DEF SetupInv, Ctx

(* SetupInv is an invariant. *)
LEMMA SetupInvariant == Spec => []SetupInv
  <1>1. Init => SetupInv
    BY DEF Init, SetupInv, SetUp
  <1>2. TypesOK /\ MutexInv /\ SetupInv /\ [Next]_vars => SetupInv'
    <2> SUFFICES ASSUME TypesOK, MutexInv, SetupInv, [Next]_vars PROVE SetupInv'
      OBVIOUS
    <2>1. thread \in [Threads -> ThreadState]
      BY DEF TypesOK
    <2>2. ASSUME NEW t \in Threads PROVE Ctx(t) \in Contexts
      BY <2>1 DEF Ctx, ThreadState
    <2>3. ASSUME NEW t \in Threads, NEW pc \in PCs \ HoldsContextMutex, GoTo(t, pc),
                 thread[t].pc \notin HoldsContextMutex,
                 contextMutex' = contextMutex, initialized' = initialized,
                 listed' = listed, enabled' = enabled, failed' \subseteq failed
          PROVE  SetupInv'
      <3>1. /\ \A u \in Threads \ {t} : thread'[u] = thread[u]
            /\ thread'[t].pc = pc
        BY <2>1, <2>3, GoToView
      <3>2. QED
        BY <2>3, <3>1, OtherStep
    <2>4. ASSUME NEW t \in Threads, NEW c \in Contexts, Callback(t, c) PROVE SetupInv'
      <3>1. PICK op \in Ops, pc \in {"initCheck", "finCheck", "startLock", "collect", "stopLock"} :
              Call(t, op, c, pc)
        BY <2>4
        DEF Callback, ContextCreated, ContextDestroyStarting, OpenWindow,
            CollectInWindow, CloseWindow, Ops
      <3>2. UNCHANGED <<mutexes, setup, cupti>>
        BY <2>4
        DEF Callback, ContextCreated, ContextDestroyStarting, OpenWindow,
            CollectInWindow, CloseWindow
      <3>3. /\ \A u \in Threads \ {t} : thread'[u] = thread[u]
            /\ thread[t].pc = "idle"
            /\ thread'[t].pc = pc
        BY <2>1, <3>1, CallView DEF PCs
      <3>4. QED
        BY <3>2, <3>3, OtherStep DEF mutexes, setup, cupti, HoldsContextMutex
    <2>5. ASSUME NEW t \in Threads,
                 \/ Start(t) \/ Stop(t) \/ Collect(t) \/ Lookup(t) \/ GetData(t)
                 \/ Probe(t) \/ FinalizeCheck(t) \/ InitializeCheck(t)
          PROVE  SetupInv'
      <3>1. PICK pc \in PCs \ HoldsContextMutex : GoTo(t, pc)
        BY <2>5
        DEF Start, Stop, Collect, Lookup, GetData, Probe, CollectReturns, FinalizeCheck,
            AfterFinalize, InitializeCheck, PCs, HoldsContextMutex
      <3>2. thread[t].pc \notin HoldsContextMutex
        BY <2>5
        DEF Start, Stop, Collect, Lookup, GetData, Probe, FinalizeCheck,
            InitializeCheck, HoldsContextMutex
      <3>3. /\ contextMutex' = contextMutex /\ initialized' = initialized
            /\ listed' = listed /\ enabled' = enabled /\ failed' \subseteq failed
        BY <2>5
        DEF Start, Stop, Collect, Lookup, GetData, Probe, FinalizeCheck,
            InitializeCheck, mutexes, setup, cupti
      <3>4. QED
        BY <2>3, <3>1, <3>2, <3>3
    <2>6. ASSUME NEW t \in Threads PROVE thread[t].pc \in HoldsContextMutex <=> contextMutex = t
      BY DEF MutexInv
    <2>7. ASSUME NEW t \in Threads, FinalizeLock(t) PROVE SetupInv'
      <3>1. listed' = [listed EXCEPT ![Ctx(t)] = 0] /\ listed'[Ctx(t)] = 0
        BY <2>2, <2>7 DEF FinalizeLock, TypesOK
      <3>2. QED
        BY <2>7, <3>1, OwnerStep DEF FinalizeLock, SetupInv, PCs, cupti
    <2>8. ASSUME NEW t \in Threads, FinalizeStop(t) PROVE SetupInv'
      BY <2>6, <2>8, OwnerStep
      DEF FinalizeStop, SetupInv, PCs, HoldsContextMutex, mutexes, setup
    <2>9. ASSUME NEW t \in Threads, FinalizeDisable(t) PROVE SetupInv'
      BY <2>6, <2>9, OwnerStep
      DEF FinalizeDisable, SetupInv, PCs, HoldsContextMutex, mutexes, cupti
    <2>10. ASSUME NEW t \in Threads, FinalizeErase(t) PROVE SetupInv'
      BY <2>6, <2>10, OwnerStep
      DEF FinalizeErase, SetupInv, PCs, HoldsContextMutex, mutexes, cupti
    <2>11. ASSUME NEW t \in Threads, FinalizeReturn(t) PROVE SetupInv'
      <3>1. listed[Ctx(t)] = 0
        BY <2>11 DEF FinalizeReturn, SetupInv
      <3>2. QED
        BY <2>6, <2>11, <3>1, OwnerStep
        DEF FinalizeReturn, AfterFinalize, SetupInv, PCs, HoldsContextMutex, cupti
    <2>12. ASSUME NEW t \in Threads, InitializeLock(t) PROVE SetupInv'
      <3>1. SetUp(Ctx(t))
        BY <2>2, <2>12, NobodyAssumption DEF InitializeLock, SetupInv
      <3>2. QED
        BY <2>2, <2>12, <3>1, OwnerStep
        DEF InitializeLock, NotTried, SetUp, SetupInv, PCs, setup, cupti
    <2>13. ASSUME NEW t \in Threads, InitializeEnable(t) PROVE SetupInv'
      <3>1. listed[Ctx(t)] = 0 /\ Ctx(t) \notin initialized \cup failed
        BY <2>13 DEF InitializeEnable, SetupInv
      <3>2. QED
        BY <2>2, <2>6, <2>13, <3>1, OwnerStep
        DEF InitializeEnable, SetupInv, PCs, HoldsContextMutex
    <2>14. ASSUME NEW t \in Threads, InitializeConfigure(t) PROVE SetupInv'
      <3>1. /\ listed[Ctx(t)] = 0 /\ Ctx(t) \notin initialized \cup failed
            /\ Ctx(t) \in enabled
        BY <2>14 DEF InitializeConfigure, SetupInv
      <3>2. /\ listed' \in {listed, [listed EXCEPT ![Ctx(t)] = 1]}
            /\ listed'[Ctx(t)] = IF Ctx(t) \in initialized' THEN 1 ELSE 0
        BY <2>2, <2>14, <3>1 DEF InitializeConfigure, TypesOK
      <3>3. QED
        BY <2>2, <2>6, <2>14, <3>1, <3>2, OwnerStep
        DEF InitializeConfigure, SetupInv, PCs, HoldsContextMutex, TypesOK, cupti
    <2>15. CASE UNCHANGED vars
      BY <2>15 DEF vars, mutexes, setup, cupti, SetupInv, SetUp, Ctx
    <2>16. QED
      BY <2>4, <2>5, <2>7, <2>8, <2>9, <2>10, <2>11, <2>12, <2>13, <2>14, <2>15
      DEF Next, Step
  <1>3. QED
    BY <1>1, <1>2, TypesInvariant, MutexInvariant, PTL DEF Spec

(* The maps and CUPTI agree on every context nobody is working on, however  *)
(* many threads reset it at once.                                          *)
THEOREM SetupConsistent == Spec => []InitializedConsistently
  <1>1. SetupInv => InitializedConsistently
    BY DEF SetupInv, SetUp, InitializedConsistently
  <1>2. QED
    BY <1>1, SetupInvariant, PTL

-----------------------------------------------------------------------------

(* Type correctness; in particular a context is never listed twice, for     *)
(* finalize and initialize to work on at once.                             *)
THEOREM TypeCorrect == Spec => []TypeOK
  <1>1. TypesOK /\ MutexInv /\ SetupInv => TypeOK
    <2> SUFFICES ASSUME TypesOK, MutexInv, SetupInv PROVE listed \in [Contexts -> 0 .. 1]
      BY DEF TypesOK, TypeOK
    <2>1. listed \in [Contexts -> Nat]
      BY DEF TypesOK
    <2>2. ASSUME NEW c \in Contexts PROVE listed[c] \in 0 .. 1
      <3>1. CASE \A u \in Threads : contextMutex = u => Ctx(u) # c
        BY <3>1 DEF SetupInv, SetUp
      <3>2. ASSUME NEW u \in Threads, contextMutex = u, Ctx(u) = c
            PROVE  listed[c] = 0
        BY <3>2 DEF MutexInv, SetupInv, HoldsContextMutex
      <3>3. QED
        BY <3>1, <3>2
    <2>3. QED
      BY <2>1, <2>2
  <1>2. QED
    BY <1>1, TypesInvariant, MutexInvariant, SetupInvariant, PTL

-----------------------------------------------------------------------------

(* In a program with a single context CUPTI goes on with the flag clear only*)
(* where it refused to stop: every stop, whoever does it, stops that       *)
(* context, and a start that succeeds sets the flag.                       *)
THEOREM FlagFollowsCollection ==
  ASSUME NEW c, Contexts = {c}
  PROVE  Spec => []CollectingMeansActive
  <1>1. Init => CollectingMeansActive
    BY DEF Init, CollectingMeansActive
  <1>2. TypesOK /\ CollectingMeansActive /\ [Next]_vars => CollectingMeansActive'
    <2> SUFFICES ASSUME TypesOK, CollectingMeansActive, [Next]_vars
                 PROVE  CollectingMeansActive'
      OBVIOUS
    <2>1. collecting \subseteq {c}
      BY DEF TypesOK
    <2>2. \A t \in Threads : Ctx(t) = c
      BY DEF TypesOK, ThreadState, Ctx
    <2>3. ASSUME CuptiStop(c) PROVE collecting' \subseteq unstopped'
      BY <2>1, <2>3 DEF CuptiStop
    <2>4. ASSUME NEW t \in Threads, Start(t) PROVE CollectingMeansActive'
      BY <2>4 DEF Start, CuptiStart, CollectingMeansActive, sampling
    <2>5. ASSUME NEW t \in Threads, Stop(t) \/ FinalizeStop(t)
          PROVE  CollectingMeansActive'
      BY <2>2, <2>3, <2>5 DEF Stop, FinalizeStop, CollectingMeansActive
    <2>6. ASSUME NEW t \in Threads, FinalizeDisable(t)
          PROVE  /\ samplingActive' = samplingActive
                 /\ \/ collecting' = {}
                    \/ UNCHANGED <<collecting, unstopped>>
      BY <2>1, <2>2, <2>6 DEF FinalizeDisable, sampling, cupti
    <2>7. ASSUME NEW t \in Threads,
                 \/ Collect(t) \/ Lookup(t) \/ GetData(t) \/ Probe(t)
                 \/ FinalizeCheck(t) \/ FinalizeLock(t) \/ FinalizeErase(t)
                 \/ FinalizeReturn(t) \/ InitializeCheck(t) \/ InitializeLock(t)
                 \/ InitializeEnable(t) \/ InitializeConfigure(t)
          PROVE  UNCHANGED <<collecting, unstopped, samplingActive>>
      BY <2>7
      DEF Collect, Lookup, GetData, Probe, FinalizeCheck, FinalizeLock, FinalizeErase,
          FinalizeReturn, InitializeCheck, InitializeLock, InitializeEnable,
          InitializeConfigure, sampling, cupti
    <2>8. ASSUME NEW t \in Threads, NEW d \in Contexts, Callback(t, d)
          PROVE  UNCHANGED <<collecting, unstopped, samplingActive>>
      BY <2>8
      DEF Callback, ContextCreated, ContextDestroyStarting, OpenWindow,
          CollectInWindow, CloseWindow, sampling, cupti
    <2>9. CASE UNCHANGED vars
      BY <2>9 DEF vars, sampling, cupti, CollectingMeansActive
    <2>10. QED
      BY <2>4, <2>5, <2>6, <2>7, <2>8, <2>9 DEF Next, Step, CollectingMeansActive
  <1>3. QED
    BY <1>1, <1>2, TypesInvariant, PTL DEF Spec

-----------------------------------------------------------------------------
(***************************************************************************)
(* What contexts, locks and resets leave of the windows.  A window opens   *)
(* when start has had its turn.                                            *)
(***************************************************************************)

Windows == INSTANCE SamplingWindows
  WITH window <- [t \in Threads |-> window[t] /\ thread[t].pc # "startLock"],
       active <- samplingActive,
       holder <- pcSamplingMutex

(* A thread on its way to stop has its window open.                        *)
StopsOwnWindow == \A t \in Threads : thread[t].pc = "stopLock" => window[t]

(* StopsOwnWindow is an invariant.                                         *)
LEMMA StopsOwnWindowInvariant == Spec => []StopsOwnWindow
  <1>1. Init => StopsOwnWindow
    BY DEF Init, StopsOwnWindow
  <1>2. TypesOK /\ StopsOwnWindow /\ [Next]_vars => StopsOwnWindow'
    <2> SUFFICES ASSUME TypesOK, StopsOwnWindow, [Next]_vars PROVE StopsOwnWindow'
      OBVIOUS
    <2>1. thread \in [Threads -> ThreadState] /\ window \in [Threads -> BOOLEAN]
      BY DEF TypesOK
    <2>2. ASSUME NEW t \in Threads, \A u \in Threads \ {t} : thread'[u] = thread[u],
                 thread'[t].pc # "stopLock",
                 \A u \in Threads \ {t} : window'[u] = window[u]
          PROVE  StopsOwnWindow'
      BY <2>2 DEF StopsOwnWindow
    <2>3. ASSUME NEW t \in Threads, NEW c \in Contexts, Callback(t, c)
          PROVE  StopsOwnWindow'
      <3>1. CASE CloseWindow(t, c)
        BY <2>1, <3>1, CallView DEF CloseWindow, StopsOwnWindow, PCs, Ops
      <3>2. CASE ~CloseWindow(t, c)
        <4>1. PICK op \in Ops, pc \in PCs \ {"stopLock"} : Call(t, op, c, pc)
          BY <2>3, <3>2
          DEF Callback, ContextCreated, ContextDestroyStarting, OpenWindow,
              CollectInWindow, PCs, Ops
        <4>2. \A u \in Threads \ {t} : window'[u] = window[u]
          BY <2>1, <2>3, <3>2
          DEF Callback, ContextCreated, ContextDestroyStarting, OpenWindow, CollectInWindow
        <4>3. QED
          BY <2>1, <2>2, <4>1, <4>2, CallView
      <3>3. QED
        BY <3>1, <3>2
    <2>4. ASSUME NEW t \in Threads, Step(t) PROVE StopsOwnWindow'
      <3>1. PICK pc \in PCs \ {"stopLock"} : GoTo(t, pc)
        BY <2>4
        DEF Step, Start, Stop, Collect, CollectReturns, Lookup, GetData, Probe,
            FinalizeCheck, FinalizeLock, FinalizeStop, FinalizeDisable, FinalizeErase,
            FinalizeReturn, AfterFinalize, InitializeCheck, InitializeLock,
            InitializeEnable, InitializeConfigure, PCs
      <3>2. \A u \in Threads \ {t} : window'[u] = window[u]
        BY <2>1, <2>4
        DEF Step, Start, Stop, Collect, CollectReturns, Lookup, GetData, Probe,
            FinalizeCheck, FinalizeLock, FinalizeStop, FinalizeDisable, FinalizeErase,
            FinalizeReturn, InitializeCheck, InitializeLock, InitializeEnable,
            InitializeConfigure
      <3>3. QED
        BY <2>1, <2>2, <3>1, <3>2, GoToView
    <2>5. CASE UNCHANGED vars
      BY <2>5 DEF vars, StopsOwnWindow
    <2>6. QED
      BY <2>3, <2>4, <2>5 DEF Next
  <1>3. QED
    BY <1>1, <1>2, TypesInvariant, PTL DEF Spec

(* For any number of threads and contexts, through every failure and reset,*)
(* start, stop and finalize keep to SamplingWindows, the protocol that the *)
(* drains of SampleDrain keep to as well: what that module has of the      *)
(* mutex and the flag is no less than this one lets happen to them.        *)
THEOREM WindowsImplemented == Spec => Windows!WSpec
  <1> DEFINE Open(t) == window[t] /\ thread[t].pc # "startLock"
             open == [t \in Threads |-> Open(t)]
             same == UNCHANGED <<open, samplingActive, pcSamplingMutex>>
  <1>1. Init => Windows!WInit
    BY DEF Init, Windows!WInit
  <1>2. ASSUME NEW t \in Threads, NEW b \in BOOLEAN, Open(t)' = b,
               \A u \in Threads \ {t} : Open(u)' = Open(u)
        PROVE  open' = [open EXCEPT ![t] = b]
    BY <1>2, Zenon
  <1>3. ASSUME \A u \in Threads : Open(u)' = Open(u) PROVE open' = open
    BY <1>3, Zenon
  <1>4. TypesOK /\ MutexInv /\ WindowInv /\ StopsOwnWindow /\ [Next]_vars =>
          Windows!WNext \/ same
    <2> SUFFICES ASSUME TypesOK, MutexInv, WindowInv, StopsOwnWindow, [Next]_vars
                 PROVE  Windows!WNext \/ same
      OBVIOUS
    <2>1. /\ thread \in [Threads -> ThreadState] /\ window \in [Threads -> BOOLEAN]
          /\ samplingActive \in BOOLEAN
      BY DEF TypesOK
    <2>2. ASSUME NEW t \in Threads, \A u \in Threads \ {t} : thread'[u] = thread[u],
                 \A u \in Threads \ {t} : window'[u] = window[u]
          PROVE  /\ Open(t)' = Open(t) => open' = open
                 /\ \A b \in BOOLEAN : Open(t)' = b => open' = [open EXCEPT ![t] = b]
      <3>1. \A u \in Threads \ {t} : Open(u)' = Open(u)
        BY <2>2
      <3> HIDE DEF Open, open
      <3>2. Open(t)' = Open(t) => \A u \in Threads : Open(u)' = Open(u)
        BY <3>1
      <3>3. QED
        BY <1>2, <1>3, <3>1, <3>2
    <2>3. \A t \in Threads : open[t] = Open(t)
      OBVIOUS
    <2>4. ASSUME NEW t \in Threads, NEW c \in Contexts, Callback(t, c) PROVE same
      <3>1. PICK op \in Ops, pc \in PCs :
              Call(t, op, c, pc) /\ (pc = "startLock" => OpenWindow(t, c))
        BY <2>4
        DEF Callback, ContextCreated, ContextDestroyStarting, OpenWindow,
            CollectInWindow, CloseWindow, PCs, Ops
      <3>2. /\ \A u \in Threads \ {t} : thread'[u] = thread[u]
            /\ thread[t].pc = "idle" /\ thread'[t].pc = pc
        BY <2>1, <3>1, CallView
      <3>3. UNCHANGED <<samplingActive, pcSamplingMutex>>
        BY <2>4
        DEF Callback, ContextCreated, ContextDestroyStarting, OpenWindow,
            CollectInWindow, CloseWindow, mutexes, sampling
      <3>4. CASE OpenWindow(t, c)
        <4>1. ~window[t] /\ window' = [window EXCEPT ![t] = TRUE]
              /\ Call(t, "start", c, "startLock")
          BY <3>4 DEF OpenWindow
        <4>2. thread'[t].pc = "startLock"
          BY <2>1, <4>1, CallView DEF PCs, Ops
        <4>3. Open(t)' = Open(t) /\ \A u \in Threads \ {t} : window'[u] = window[u]
          BY <2>1, <4>1, <4>2
        <4> HIDE DEF Open, open
        <4>4. QED
          BY <2>2, <3>2, <3>3, <4>3
      <3>5. CASE ~OpenWindow(t, c)
        <4>1. window' = window
          BY <2>4, <3>5
          DEF Callback, ContextCreated, ContextDestroyStarting, CollectInWindow,
              CloseWindow
        <4>2. Open(t)' = Open(t)
          BY <3>1, <3>2, <3>5, <4>1
        <4> HIDE DEF Open, open
        <4>3. QED
          BY <2>2, <3>2, <3>3, <4>1, <4>2
      <3>6. QED
        BY <3>4, <3>5
    <2>5. ASSUME NEW t \in Threads, Start(t) PROVE Windows!Opens(t)
      <3>1. /\ thread[t].pc = "startLock" /\ window[t] /\ GoTo(t, "idle")
            /\ window' = window /\ pcSamplingMutex = Nobody
            /\ pcSamplingMutex' = pcSamplingMutex
            /\ samplingActive' \in {samplingActive, TRUE}
        BY <2>1, <2>5 DEF Start, WindowInv, sampling, mutexes
      <3>2. /\ \A u \in Threads \ {t} : thread'[u] = thread[u]
            /\ thread'[t].pc = "idle"
        BY <2>1, <3>1, GoToView DEF PCs
      <3>3. ~Open(t) /\ Open(t)' = TRUE
        BY <2>1, <3>1, <3>2
      <3>4. open' = [open EXCEPT ![t] = TRUE] /\ ~open[t]
        <4> HIDE DEF Open, open
        <4>1. QED
          BY <2>2, <2>3, <3>1, <3>2, <3>3
      <3>5. QED
        BY <3>1, <3>4 DEF Windows!Opens
    <2>6. ASSUME NEW t \in Threads, Stop(t)
          PROVE  Windows!SwitchesOff(t) \/ Windows!FindsItOff(t)
      <3>1. thread[t].pc = "stopLock" /\ window[t] /\ pcSamplingMutex = Nobody
        BY <2>6 DEF Stop, StopsOwnWindow
      <3>2. PICK pc \in {"collect", "idle"} : GoTo(t, pc)
        BY <2>6 DEF Stop
      <3>3. /\ \A u \in Threads \ {t} : thread'[u] = thread[u]
            /\ thread'[t].pc # "startLock"
        BY <2>1, <3>2, GoToView DEF PCs
      <3>4. Open(t) = TRUE
        BY <2>1, <3>1
      <3>5. CASE samplingActive
        <4>1. /\ window' = window /\ samplingActive' = FALSE /\ pcSamplingMutex' = t
          BY <2>6, <3>5 DEF Stop
        <4>2. Open(t)' = Open(t)
          BY <3>1, <3>3, <4>1
        <4>3. open' = open /\ open[t]
          <5> HIDE DEF Open, open
          <5>1. QED
            BY <2>2, <2>3, <3>3, <3>4, <4>1, <4>2
        <4>4. QED
          BY <3>1, <3>5, <4>1, <4>3 DEF Windows!SwitchesOff
      <3>6. CASE ~samplingActive
        <4>1. /\ window' = [window EXCEPT ![t] = FALSE]
              /\ UNCHANGED <<samplingActive, pcSamplingMutex>>
          BY <2>6, <3>6 DEF Stop
        <4>2. Open(t)' = FALSE /\ \A u \in Threads \ {t} : window'[u] = window[u]
          BY <2>1, <4>1
        <4>3. open' = [open EXCEPT ![t] = FALSE] /\ open[t]
          <5> HIDE DEF Open, open
          <5>1. QED
            BY <2>2, <2>3, <3>3, <3>4, <4>2
        <4>4. QED
          BY <3>1, <3>6, <4>1, <4>3 DEF Windows!FindsItOff
      <3>7. QED
        BY <3>5, <3>6
    <2>7. ASSUME NEW t \in Threads, CollectReturns(t), UNCHANGED samplingActive,
                 thread[t].pc \in Draining
          PROVE  Windows!Closes(t) \/ same
      <3>1. /\ \A u \in Threads \ {t} : thread'[u] = thread[u]
            /\ thread[t].pc # "startLock" /\ thread'[t].pc # "startLock"
        BY <2>1, <2>7, GoToView DEF CollectReturns, PCs, Draining
      <3>2. CASE thread[t].op = "stop"
        <4>1. /\ pcSamplingMutex = t /\ pcSamplingMutex' = Nobody
              /\ window' = [window EXCEPT ![t] = FALSE]
          BY <2>7, <3>2 DEF CollectReturns, MutexInv
        <4>2. Open(t)' = FALSE /\ \A u \in Threads \ {t} : window'[u] = window[u]
          BY <2>1, <4>1
        <4>3. open' = [open EXCEPT ![t] = FALSE]
          <5> HIDE DEF Open, open
          <5>1. QED
            BY <2>2, <3>1, <4>2
        <4>4. QED
          BY <2>7, <4>1, <4>3 DEF Windows!Closes
      <3>3. CASE thread[t].op # "stop"
        <4>1. UNCHANGED <<window, pcSamplingMutex>>
          BY <2>7, <3>3 DEF CollectReturns
        <4>2. Open(t)' = Open(t)
          BY <3>1, <4>1
        <4>3. QED
          <5> HIDE DEF Open, open
          <5>1. QED
            BY <2>2, <2>7, <3>1, <4>1, <4>2
      <3>4. QED
        BY <3>2, <3>3
    <2>8. ASSUME NEW t \in Threads, NEW pc \in PCs \ {"startLock"}, GoTo(t, pc),
                 thread[t].pc # "startLock", window' = window
          PROVE  open' = open
      <3>1. /\ \A u \in Threads \ {t} : thread'[u] = thread[u]
            /\ thread'[t].pc # "startLock"
        BY <2>1, <2>8, GoToView
      <3>2. Open(t)' = Open(t)
        BY <2>8, <3>1
      <3> HIDE DEF Open, open
      <3>3. QED
        BY <2>2, <2>8, <3>1, <3>2
    <2>9. ASSUME NEW t \in Threads, Step(t), ~Start(t), ~Stop(t)
          PROVE  Windows!Closes(t) \/ Windows!Ends \/ same
      <3>1. CASE CollectReturns(t) /\ (Collect(t) \/ GetData(t) \/ Probe(t))
        BY <2>7, <3>1 DEF Collect, GetData, Probe, sampling, Draining
      <3>2. CASE ~CollectReturns(t) \/ ~(Collect(t) \/ GetData(t) \/ Probe(t))
        <4>1. PICK pc \in PCs \ {"startLock"} : GoTo(t, pc)
          BY <2>9, <3>2
          DEF Step, Collect, Lookup, GetData, Probe,
              FinalizeCheck, FinalizeLock, FinalizeStop, FinalizeDisable, FinalizeErase,
              FinalizeReturn, AfterFinalize, InitializeCheck, InitializeLock,
              InitializeEnable, InitializeConfigure, PCs
        <4>2. thread[t].pc # "startLock" /\ UNCHANGED <<window, pcSamplingMutex>>
          BY <2>9, <3>2
          DEF Step, Collect, Lookup, GetData, Probe,
              FinalizeCheck, FinalizeLock, FinalizeStop, FinalizeDisable, FinalizeErase,
              FinalizeReturn, InitializeCheck, InitializeLock, InitializeEnable,
              InitializeConfigure, mutexes
        <4>3. open' = open
          BY <2>8, <4>1, <4>2
        <4>4. CASE FinalizeStop(t)
          BY <4>2, <4>3, <4>4 DEF FinalizeStop, Windows!Ends
        <4>5. CASE ~FinalizeStop(t)
          <5>1. samplingActive' = samplingActive
            BY <2>9, <4>5
            DEF Step, Collect, Lookup, GetData, Probe,
                FinalizeCheck, FinalizeLock, FinalizeDisable, FinalizeErase,
                FinalizeReturn, InitializeCheck, InitializeLock, InitializeEnable,
                InitializeConfigure, sampling
          <5>2. QED
            BY <4>2, <4>3, <5>1
        <4>6. QED
          BY <4>4, <4>5
      <3>3. QED
        BY <3>1, <3>2
    <2>10. CASE UNCHANGED vars
      BY <2>10 DEF vars, mutexes, sampling
    <2>11. QED
      <3> HIDE DEF Open, open
      <3>1. QED
        BY <2>4, <2>5, <2>6, <2>9, <2>10 DEF Next, Windows!WNext
  <1>5. QED
    BY <1>1, <1>4, TypesInvariant, MutexInvariant, WindowInvariant,
       StopsOwnWindowInvariant, PTL DEF Spec, Windows!WSpec, Windows!wvars

=============================================================================
