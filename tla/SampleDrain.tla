----------------------------- MODULE SampleDrain -----------------------------
(***************************************************************************)
(* How PC samples leave CUPTI (collectData, finalize, processPCSamplingData*)
(* of class PCSampling, src/src/pc_sampling.cpp), for one context.         *)
(*                                                                         *)
(* While sampling is on CUPTI gathers PC records.  A drain calls           *)
(* cuptiPCSamplingGetData again and again: each call moves up to           *)
(* DataBufferPCCount records into the context's outputData, where they are *)
(* counted for the rate controller and then emitted, in batches of         *)
(* pointers into outputData.  Threads with a window open drain at EXITs,   *)
(* the thread that stops the sampling drains while it holds                *)
(* pcSamplingMutex, and so does finalize when the context goes; a drain as *)
(* such takes no lock, and all drains of a context share its outputData.   *)
(*                                                                         *)
(* Records are numbered in the order in which CUPTI hands them out.  The   *)
(* mutexes and the reset after CUPTI_ERROR_OUT_OF_MEMORY are those of      *)
(* PCSampling; here any error ends a drain.                                *)
(***************************************************************************)
EXTENDS Integers

CONSTANTS
  Threads,
  Nobody,             (* the owner of a free mutex                         *)
  DataBufferPCCount,  (* places in outputData                              *)
  PCSampleBatchSize,  (* places in batchPtrs                               *)
  MaxRecords          (* bound: records CUPTI produces                     *)

ASSUME NobodyAssumption == Nobody \notin Threads
ASSUME SizeAssumption ==
  /\ DataBufferPCCount \in Nat \ {0}
  /\ PCSampleBatchSize \in Nat \ {0}
  /\ MaxRecords \in Nat

Records == 1 .. MaxRecords

VARIABLES
  alive,            (* the context has not been destroyed                 *)
  samplingActive,
  pcSamplingMutex,  (* held by stop while it drains                       *)
  window,           (* g_pcSamplingState.active, thread_local             *)
  thread,           (* how far each thread is in its drain                *)
  produced,         (* CUPTI: records gathered so far                     *)
  handed,           (* CUPTI: records handed out so far                   *)
  unstopped,        (* CUPTI: it refused to stop, and goes on sampling    *)
  outputData,       (* place i holds record first + i                     *)
  counted,          (* how often recordPCSamples was told of a record     *)
  emitted,          (* how often a record was in a batch                  *)
  failed,           (* history: the latest getPCSamplingData failed       *)
  shared            (* history: two drains have overlapped                *)

control == <<alive, samplingActive, pcSamplingMutex, window>>
cupti == <<produced, handed, unstopped>>
told == <<counted, emitted>>
history == <<failed, shared>>
vars == <<control, thread, cupti, outputData, told, history>>

-----------------------------------------------------------------------------

ThreadState == [pc : {"idle", "getData", "count", "emit", "test"},
                op : {"collect", "stop", "finalize"}, next : Nat]
OutputData == [first : Nat, total : 0 .. DataBufferPCCount, remaining : Nat]

(* outputData never holds more than it has room for, and the records       *)
(* handed out are records gathered.                                        *)
TypeOK ==
  /\ alive \in BOOLEAN
  /\ samplingActive \in BOOLEAN
  /\ pcSamplingMutex \in Threads \cup {Nobody}
  /\ window \in [Threads -> BOOLEAN]
  /\ thread \in [Threads -> ThreadState]
  /\ produced \in 0 .. MaxRecords
  /\ handed \in 0 .. produced
  /\ unstopped \in BOOLEAN
  /\ outputData \in OutputData
  /\ outputData.first + outputData.total <= handed + 1
  /\ counted \in [Records -> Nat]
  /\ emitted \in [Records -> Nat]
  /\ failed \in BOOLEAN
  /\ shared \in BOOLEAN

Idle == [pc |-> "idle", op |-> "collect", next |-> 0]

(* allocPCSamplingData: an empty buffer. *)
Init ==
  /\ alive = TRUE
  /\ samplingActive = FALSE
  /\ pcSamplingMutex = Nobody
  /\ window = [t \in Threads |-> FALSE]
  /\ thread = [t \in Threads |-> Idle]
  /\ produced = 0
  /\ handed = 0
  /\ unstopped = FALSE
  /\ outputData = [first |-> 0, total |-> 0, remaining |-> 0]
  /\ counted = [r \in Records |-> 0]
  /\ emitted = [r \in Records |-> 0]
  /\ failed = FALSE
  /\ shared = FALSE

-----------------------------------------------------------------------------

Draining(t) == thread[t].pc # "idle"
GoTo(t, pc) == thread' = [thread EXCEPT ![t].pc = pc]

(* A drain that begins while another is under way shares its buffer. *)
BeginDrain(t, op) ==
  /\ thread' = [thread EXCEPT ![t] = [pc |-> "getData", op |-> op, next |-> 0]]
  /\ shared' = (shared \/ \E u \in Threads : Draining(u))

(* A kernel runs while CUPTI samples, until finalize has disabled the       *)
(* context.                                                                *)
Produce ==
  /\ samplingActive \/ unstopped
  /\ alive \/ \E t \in Threads : Draining(t)
  /\ produced < MaxRecords
  /\ produced' = produced + 1
  /\ UNCHANGED <<control, thread, handed, unstopped, outputData, told, history>>

(* Launch ENTER: the window opens, and start starts the sampling unless it *)
(* is on already; CUPTI may refuse.                                        *)
Start(t) ==
  /\ alive /\ ~Draining(t) /\ ~window[t]
  /\ pcSamplingMutex = Nobody
  /\ window' = [window EXCEPT ![t] = TRUE]
  /\ \E ok \in BOOLEAN :
       /\ samplingActive' = (samplingActive \/ ok)
       /\ unstopped' = (unstopped /\ ~samplingActive')
  /\ UNCHANGED <<alive, pcSamplingMutex, thread, produced, handed, outputData, told,
                 history>>

(* EXIT inside a window that goes on. *)
CollectData(t) ==
  /\ alive /\ ~Draining(t) /\ window[t]
  /\ BeginDrain(t, "collect")
  /\ UNCHANGED <<control, cupti, outputData, told, failed>>

(* Launch EXIT that ends the window.  CUPTI may refuse to stop, and nobody *)
(* looks.  Sampling that another thread has stopped is not drained again.  *)
Stop(t) ==
  /\ alive /\ ~Draining(t) /\ window[t]
  /\ pcSamplingMutex = Nobody
  /\ \/ /\ samplingActive
        /\ samplingActive' = FALSE
        /\ pcSamplingMutex' = t
        /\ unstopped' \in BOOLEAN
        /\ BeginDrain(t, "stop")
        /\ UNCHANGED window
     \/ /\ ~samplingActive
        /\ window' = [window EXCEPT ![t] = FALSE]
        /\ UNCHANGED <<samplingActive, pcSamplingMutex, unstopped, thread, shared>>
  /\ UNCHANGED <<alive, produced, handed, outputData, told, failed>>

(* CONTEXT_DESTROY_STARTING: the program has no other call on the context. *)
Finalize(t) ==
  /\ alive /\ \A u \in Threads : ~Draining(u)
  /\ alive' = FALSE
  /\ samplingActive' = FALSE
  /\ IF samplingActive THEN unstopped' \in BOOLEAN ELSE UNCHANGED unstopped
  /\ BeginDrain(t, "finalize")
  /\ UNCHANGED <<pcSamplingMutex, window, produced, handed, outputData, told, failed>>

(* The drain is over: stop lets the mutex go, and the window is closed.    *)
Returns(t) ==
  /\ thread' = [thread EXCEPT ![t] = Idle]
  /\ IF thread[t].op = "stop"
     THEN /\ pcSamplingMutex' = Nobody
          /\ window' = [window EXCEPT ![t] = FALSE]
     ELSE UNCHANGED <<pcSamplingMutex, window>>

-----------------------------------------------------------------------------
(***************************************************************************)
(* One round of the loop: getPCSamplingData, processPCSamplingData, and    *)
(* the test of remainingNumPcs.                                            *)
(***************************************************************************)

(* Fault: the room in outputData is not looked at.                         *)
ShareAll(waiting) == waiting

(* What a call hands out of the records that wait. *)
Share(waiting) ==
  IF waiting < DataBufferPCCount THEN waiting ELSE DataBufferPCCount

GetData(t) ==
  LET n == Share(produced - handed) IN
  /\ thread[t].pc = "getData"
  /\ outputData' = [first |-> handed + 1, total |-> n,
                    remaining |-> produced - handed - n]
  /\ handed' = handed + n
  /\ failed' = FALSE
  /\ GoTo(t, IF n = 0 THEN "test" ELSE "count")
  /\ UNCHANGED <<control, produced, unstopped, told, shared>>

(* Fault: the loop goes on after an error.                                 *)
GetDataContinues(t) ==
  /\ thread[t].pc = "getData"
  /\ failed' = TRUE
  /\ GoTo(t, "test")
  /\ UNCHANGED <<control, cupti, outputData, told, shared>>

(* An error leaves outputData as it was and ends the drain. *)
GetDataFails(t) ==
  /\ thread[t].pc = "getData"
  /\ failed' = TRUE
  /\ Returns(t)
  /\ UNCHANGED <<alive, samplingActive, cupti, outputData, told, shared>>

Places(from, to) == {outputData.first + i : i \in from .. to - 1}

(* One more for each of the records. *)
Tallied(tally, records) ==
  [r \in Records |-> tally[r] + (IF r \in records THEN 1 ELSE 0)]

(* The first loop over outputData, and recordPCSamples. *)
Count(t) ==
  /\ thread[t].pc = "count"
  /\ counted' = Tallied(counted, Places(0, outputData.total))
  /\ GoTo(t, "emit")
  /\ UNCHANGED <<control, cupti, outputData, emitted, history>>

BatchEnd(next) ==
  IF next + PCSampleBatchSize < outputData.total
  THEN next + PCSampleBatchSize ELSE outputData.total

(* Fault: only full batches are sent.                                      *)
EmitFullOnly(t) ==
  /\ thread[t].pc = "emit"
  /\ IF thread[t].next < outputData.total
     THEN LET end == BatchEnd(thread[t].next) IN
          /\ emitted' =
               IF end = thread[t].next + PCSampleBatchSize
               THEN Tallied(emitted, Places(thread[t].next, end)) ELSE emitted
          /\ thread' = [thread EXCEPT ![t].next = end]
     ELSE /\ thread' = [thread EXCEPT ![t].pc = "test", ![t].next = 0]
          /\ UNCHANGED emitted
  /\ UNCHANGED <<control, cupti, outputData, counted, history>>

(* The second loop: a batch is gathered and sent, full or the last one. It *)
(* names the records that are in outputData by then.                       *)
Emit(t) ==
  /\ thread[t].pc = "emit"
  /\ IF thread[t].next < outputData.total
     THEN LET end == BatchEnd(thread[t].next) IN
          /\ emitted' = Tallied(emitted, Places(thread[t].next, end))
          /\ thread' = [thread EXCEPT ![t].next = end]
     ELSE /\ thread' = [thread EXCEPT ![t].pc = "test", ![t].next = 0]
          /\ UNCHANGED emitted
  /\ UNCHANGED <<control, cupti, outputData, counted, history>>

(* Fault: one call is taken to be enough.                                  *)
TestNever(t) ==
  /\ thread[t].pc = "test"
  /\ Returns(t)
  /\ UNCHANGED <<alive, samplingActive, cupti, outputData, told, history>>

Test(t) ==
  /\ thread[t].pc = "test"
  /\ IF outputData.remaining > 0
     THEN GoTo(t, "getData") /\ UNCHANGED <<pcSamplingMutex, window>>
     ELSE Returns(t)
  /\ UNCHANGED <<alive, samplingActive, cupti, outputData, told, history>>

-----------------------------------------------------------------------------

Step(t) == GetData(t) \/ GetDataFails(t) \/ Count(t) \/ Emit(t) \/ Test(t)

Call(t) == Start(t) \/ CollectData(t) \/ Stop(t) \/ Finalize(t)

Next == Produce \/ \E t \in Threads : Step(t) \/ Call(t)

Spec == Init /\ [][Next]_vars

(* A drain, once begun, runs on. *)
FairSpec == Spec /\ \A t \in Threads : WF_vars(Step(t))

-----------------------------------------------------------------------------
(***************************************************************************)
(* Properties.                                                             *)
(***************************************************************************)

NobodyDrains == \A t \in Threads : ~Draining(t)

(* A drain tells of every record it takes out of CUPTI exactly once, to    *)
(* the controller and to consumers, however the records fall into buffers  *)
(* and batches ("stop PC sampling, drain accumulated data, and emit        *)
(* probes", pc_sampling.h:118).                                            *)
EveryRecordOnce ==
  NobodyDrains =>
    \A r \in Records : r <= handed => counted[r] = 1 /\ emitted[r] = 1

(* What becomes of it with several threads: records are only lost, or told *)
(* twice, once two drains have used outputData at the same time.           *)
OnceUnlessShared == ~shared => EveryRecordOnce

(* Nothing of a window is left in CUPTI when it has been stopped, whoever  *)
(* drained the rest, unless the last call for data failed or CUPTI refused *)
(* to stop ("Drain data collected during this window", pc_sampling.cpp:600;*)
(* data that stays makes CUPTI run out of memory, pc_sampling.cpp:782-785).*)
WindowDrained ==
  NobodyDrains /\ ~samplingActive /\ ~failed /\ ~unstopped => handed = produced

(* A drain ends, also while CUPTI only reports errors: the launch it is    *)
(* part of is not held up for good, nor is pcSamplingMutex.                *)
DrainEnds == \A t \in Threads : Draining(t) ~> ~Draining(t)

=============================================================================
