---------------------------- MODULE Correlation ----------------------------
(***************************************************************************)
(* How a kernel record finds the launch it belongs to (src/src/cupti.cpp). *)
(*                                                                         *)
(* Application threads run CuptiProfiler::callbackHandler at the ENTER and *)
(* EXIT of each runtime or driver call; on EXIT a launch that passes the   *)
(* rate limiter is announced (the cuda_correlation probe) and then put in  *)
(* the correlation filter, or in the graph map.  CUPTI's threads run       *)
(* completeBuffer: a kernel record is passed on (kernel_executed and       *)
(* activity_batch probes) only if its correlation id is found there.  The  *)
(* filter and the map are locked call by call; runtimeEnterCorrelationId   *)
(* and the sampling window belong to a thread; outstandingEvents is a      *)
(* plain size_t that everybody reads and writes without a lock.            *)
(***************************************************************************)
EXTENDS GraphCorrelationMap, FiniteSets

CONSTANTS
  Threads,        (* application threads                                  *)
  Workers,        (* threads that may be inside completeBuffer            *)
  PlainIds,       (* correlation ids of calls other than graph launches   *)
  GraphIds,       (* correlation ids of graph launches                    *)
  MaxKernels,     (* bound: kernels one call launches                     *)
  FlushLimit,     (* 3000 in the code                                     *)
  BatchSize,      (* ACTIVITY_BATCH_SIZE, 128 in the code                 *)
  MaxBuffers,     (* bound: buffers completed in a behaviour              *)
  PcSampling,     (* pcSamplingEnabled                                    *)
  NoId            (* 0 in the code: no runtime call is open               *)

Ids == PlainIds \cup GraphIds

ASSUME IdsAssumption == PlainIds \cap GraphIds = {} /\ NoId \notin Ids
ASSUME BoundsAssumption ==
  /\ MaxKernels \in Nat \ {0} /\ FlushLimit \in Nat
  /\ BatchSize \in Nat \ {0} /\ MaxBuffers \in Nat
  /\ PcSampling \in BOOLEAN

VARIABLES
  correlation,      (* is the cuda_correlation semaphore on?              *)
  thread,           (* how far each application thread is                 *)
  runtimeEnter,     (* runtimeEnterCorrelationId, thread_local            *)
  window,           (* g_pcSamplingState.active, thread_local             *)
  outstandingEvents,
  filter,           (* g_correlationFilter                                *)
  map,              (* g_graphCorrelationMap.map_                         *)
  current_cycle,    (* g_graphCorrelationMap.current_cycle_               *)
  g_bufferCycle,
  worker,           (* how far each completeBuffer is                     *)
  fresh,            (* ids no call has used yet                           *)
  running,          (* kernels on the GPU                                 *)
  recorded,         (* CUPTI: kernel records not yet handed over          *)
  probed,           (* history: cuda_correlation probes per id            *)
  executed,         (* history: records of kernel_executed probes         *)
  begun             (* history: cycle_starts since a graph id's insertion *)

appVars == <<thread, runtimeEnter, window>>
bufVars == <<map, current_cycle, g_bufferCycle, worker>>
gpuVars == <<fresh, running, recorded>>
history == <<probed, executed, begun>>
vars == <<correlation, appVars, outstandingEvents, filter, bufVars, gpuVars,
          history>>

-----------------------------------------------------------------------------

Records == [id : Ids, n : 1 .. MaxKernels]

ThreadPCs == {"idle", "runtime", "driver", "load", "store",
              "probe", "insert", "check", "flush"}
WorkerPCs == {"idle", "starting", "records", "ending", "resetting"}

(* nested: the thread is in a driver call under a runtime call.            *)
ThreadType == [pc : ThreadPCs, id : Ids \cup {NoId}, nested : BOOLEAN,
               launched : BOOLEAN, tmp : Nat]
WorkerType == [pc : WorkerPCs, cycle : Cycles, todo : SUBSET Records,
               batchCount : Nat]

(* Every call has one of the ids; only plain ids are in the filter, only   *)
(* graph ids in the map.                                                   *)
TypeOK ==
  /\ correlation \in BOOLEAN
  /\ thread \in [Threads -> ThreadType]
  /\ \A t \in Threads : thread[t].pc # "idle" => thread[t].id \in Ids
  /\ runtimeEnter \in [Threads -> Ids \cup {NoId}]
  /\ window \in [Threads -> BOOLEAN]
  /\ outstandingEvents \in Nat
  /\ filter \subseteq PlainIds
  /\ IsMap(map, GraphIds)
  /\ current_cycle \in Cycles
  /\ g_bufferCycle \in Cycles
  /\ worker \in [Workers -> WorkerType]
  /\ fresh \subseteq Ids
  /\ running \subseteq Records
  /\ recorded \subseteq Records
  /\ probed \in [Ids -> Nat]
  /\ executed \subseteq Records
  /\ begun \in [GraphIds -> 0 .. (MaxAge + 1)]

Idle == [pc |-> "idle", id |-> NoId, nested |-> FALSE, launched |-> FALSE,
         tmp |-> 0]

Init ==
  /\ correlation \in BOOLEAN
  /\ thread = [t \in Threads |-> Idle]
  /\ runtimeEnter = [t \in Threads |-> NoId]
  /\ window = [t \in Threads |-> FALSE]
  /\ outstandingEvents = 0
  /\ filter = {}
  /\ map = [i \in {} |-> GraphCorrelationEntry(0)]
  /\ current_cycle = 0
  /\ g_bufferCycle = 0
  /\ worker = [w \in Workers |->
                 [pc |-> "idle", cycle |-> 0, todo |-> {}, batchCount |-> 0]]
  /\ fresh = Ids
  /\ running = {}
  /\ recorded = {}
  /\ probed = [i \in Ids |-> 0]
  /\ executed = {}
  /\ begun = [i \in GraphIds |-> 0]

-----------------------------------------------------------------------------
(***************************************************************************)
(* The application's calls.                                                *)
(***************************************************************************)

Moves(t, from, to) ==
  /\ thread[t].pc = from
  /\ thread' = [thread EXCEPT ![t].pc = to]

(* The handler returns: on with the runtime call, or back to the program.  *)
Returns(t) ==
  thread' = [thread EXCEPT ![t] =
    IF @.nested THEN [@ EXCEPT !.pc = "runtime", !.nested = FALSE] ELSE Idle]

(* ENTER of a runtime call. *)
RuntimeEnter(t, id) ==
  /\ thread[t].pc = "idle"
  /\ id \in fresh
  /\ fresh' = fresh \ {id}
  /\ thread' = [thread EXCEPT ![t].pc = "runtime", ![t].id = id]
  /\ runtimeEnter' = [runtimeEnter EXCEPT ![t] = id]
  /\ UNCHANGED <<correlation, window, outstandingEvents, filter, bufVars,
                 running, recorded, history>>

(***************************************************************************)
(* ENTER of a driver launch: a call of its own, or one a runtime call      *)
(* makes, which has the runtime call's id.  The dice may open a sampling   *)
(* window.  The call then launches its kernels, or fails and launches none.*)
(***************************************************************************)
Launch(t, id, kernels, nested) ==
  /\ \E hit \in BOOLEAN :
       window' = [window EXCEPT ![t] = @ \/ (PcSampling /\ hit)]
  /\ thread' = [thread EXCEPT ![t] =
       [@ EXCEPT !.pc = "driver", !.id = id, !.nested = nested,
                 !.launched = TRUE]]
  /\ running' = running \cup {[id |-> id, n |-> k] : k \in 1 .. kernels}
  /\ UNCHANGED <<correlation, runtimeEnter, outstandingEvents, filter, bufVars,
                 recorded, history>>

DriverEnter(t, id, kernels) ==
  /\ thread[t].pc = "idle"
  /\ id \in fresh
  /\ fresh' = fresh \ {id}
  /\ Launch(t, id, kernels, FALSE)

NestedDriverEnter(t, kernels) ==
  /\ thread[t].pc = "runtime"
  /\ ~thread[t].launched
  /\ Launch(t, thread[t].id, kernels, TRUE)
  /\ UNCHANGED fresh

-----------------------------------------------------------------------------
(***************************************************************************)
(* EXIT.  The launch EXIT that finds the window old enough closes it; only *)
(* then does the handler come to the correlation part, which a call leaves *)
(* early without a consumer, as a driver call under a runtime call, or     *)
(* when its thread's token bucket is empty and its window closed.          *)
(***************************************************************************)
WindowAfterExit(t, isLaunch) ==
  \/ window' = window
  \/ isLaunch /\ window' = [window EXCEPT ![t] = FALSE]

(* The handler goes on to emit the probe, or the limiter stops it. *)
Admit(t) ==
  \/ thread' = [thread EXCEPT ![t].pc = "load"]
  \/ ~window'[t] /\ Returns(t)

ExitUnchanged ==
  UNCHANGED <<correlation, outstandingEvents, filter, bufVars, gpuVars, history>>

(* Fault: the driver call under a runtime call goes on as well.            *)
DriverExitAlways(t) ==
  /\ thread[t].pc = "driver"
  /\ WindowAfterExit(t, TRUE)
  /\ IF ~correlation THEN Returns(t) ELSE Admit(t)
  /\ UNCHANGED runtimeEnter
  /\ ExitUnchanged

DriverExit(t) ==
  /\ thread[t].pc = "driver"
  /\ WindowAfterExit(t, TRUE)
  /\ IF ~correlation \/ thread[t].id = runtimeEnter[t] THEN Returns(t) ELSE Admit(t)
  /\ UNCHANGED runtimeEnter
  /\ ExitUnchanged

RuntimeExit(t) ==
  /\ thread[t].pc = "runtime"
  /\ WindowAfterExit(t, FALSE)
  /\ IF ~correlation
     THEN Returns(t) /\ UNCHANGED runtimeEnter
     ELSE /\ runtimeEnter' = [runtimeEnter EXCEPT ![t] = NoId]
          /\ Admit(t)
  /\ ExitUnchanged

(* outstandingEvents++ is a load and a store. *)
Load(t) ==
  /\ thread[t].pc = "load"
  /\ thread' = [thread EXCEPT ![t].pc = "store", ![t].tmp = outstandingEvents]
  /\ UNCHANGED <<correlation, runtimeEnter, window, outstandingEvents, filter,
                 bufVars, gpuVars, history>>

(* Fault: the id is inserted before the probe.                             *)
StoreAndInsert(t) ==
  /\ thread[t].pc = "store"
  /\ thread' = [thread EXCEPT ![t].pc = "probe", ![t].tmp = 0]
  /\ outstandingEvents' = thread[t].tmp + 1
  /\ filter' = filter \cup (PlainIds \cap {thread[t].id})
  /\ UNCHANGED <<correlation, runtimeEnter, window, bufVars, gpuVars, history>>

Store(t) ==
  /\ thread[t].pc = "store"
  /\ thread' = [thread EXCEPT ![t].pc = "probe", ![t].tmp = 0]
  /\ outstandingEvents' = thread[t].tmp + 1
  /\ UNCHANGED <<correlation, runtimeEnter, window, filter, bufVars, gpuVars,
                 history>>

(* PARCAGPU_CUDA_CORRELATION. *)
Probe(t) ==
  /\ Moves(t, "probe", "insert")
  /\ probed' = [probed EXCEPT ![thread[t].id] = @ + 1]
  /\ UNCHANGED <<correlation, runtimeEnter, window, outstandingEvents, filter,
                 bufVars, gpuVars, executed, begun>>

(* Fault: graph launches are not told from the others.                     *)
InsertAsPlain(t) ==
  /\ Moves(t, "insert", "check")
  /\ filter' = filter \cup {thread[t].id}
  /\ UNCHANGED <<correlation, runtimeEnter, window, outstandingEvents, bufVars,
                 gpuVars, history>>

(* CorrelationFilter::insert or GraphCorrelationMap::insert. *)
Insert(t) ==
  /\ Moves(t, "insert", "check")
  /\ IF thread[t].id \in GraphIds
     THEN /\ map' = Inserted(map, thread[t].id, current_cycle)
          /\ UNCHANGED filter
     ELSE /\ filter' = filter \cup {thread[t].id}
          /\ UNCHANGED map
  /\ UNCHANGED <<correlation, runtimeEnter, window, outstandingEvents,
                 current_cycle, g_bufferCycle, worker, gpuVars, history>>

(* Flush if too many events pile up. *)
CheckFlush(t) ==
  /\ thread[t].pc = "check"
  /\ IF outstandingEvents > FlushLimit
     THEN thread' = [thread EXCEPT ![t].pc = "flush"]
     ELSE Returns(t)
  /\ UNCHANGED <<correlation, runtimeEnter, window, outstandingEvents, filter,
                 bufVars, gpuVars, history>>

(* Fault: the counter keeps its value.                                     *)
FlushAllNoReset(t) ==
  /\ thread[t].pc = "flush"
  /\ Returns(t)
  /\ UNCHANGED <<correlation, runtimeEnter, window, outstandingEvents, filter,
                 bufVars, gpuVars, history>>

(* activityFlushAll makes CUPTI complete its buffers, which it may do at    *)
(* any time of itself; then the counter starts again.                      *)
FlushAll(t) ==
  /\ thread[t].pc = "flush"
  /\ Returns(t)
  /\ outstandingEvents' = 0
  /\ UNCHANGED <<correlation, runtimeEnter, window, filter, bufVars, gpuVars,
                 history>>

-----------------------------------------------------------------------------
(***************************************************************************)
(* completeBuffer.                                                         *)
(***************************************************************************)

FetchCycle(w, todo) ==
  /\ worker[w].pc = "idle"
  /\ worker' = [worker EXCEPT ![w] = [pc |-> "starting", cycle |-> g_bufferCycle,
                                      todo |-> todo, batchCount |-> 0]]
  /\ g_bufferCycle' = NextCycle(g_bufferCycle)
  /\ recorded' = recorded \ todo
  /\ UNCHANGED <<correlation, appVars, outstandingEvents, filter, map,
                 current_cycle, fresh, running, history>>

OneMoreBegun(n) == IF n > MaxAge THEN n ELSE n + 1

(* Fault: the cycle is read again, another buffer may have taken it.        *)
CycleStartReread(w) ==
  /\ worker[w].pc = "starting"
  /\ worker' = [worker EXCEPT ![w].pc = "records"]
  /\ current_cycle' = g_bufferCycle
  /\ map' = CycleStarted(map, g_bufferCycle)
  /\ begun' = [i \in GraphIds |-> IF i \in DOMAIN map THEN OneMoreBegun(begun[i])
                                                       ELSE begun[i]]
  /\ UNCHANGED <<correlation, appVars, outstandingEvents, filter, g_bufferCycle,
                 gpuVars, probed, executed>>

CycleStart(w) ==
  /\ worker[w].pc = "starting"
  /\ worker' = [worker EXCEPT ![w].pc = "records"]
  /\ current_cycle' = worker[w].cycle
  /\ map' = CycleStarted(map, worker[w].cycle)
  /\ begun' = [i \in GraphIds |-> IF i \in DOMAIN map THEN OneMoreBegun(begun[i])
                                                       ELSE begun[i]]
  /\ UNCHANGED <<correlation, appVars, outstandingEvents, filter, g_bufferCycle,
                 gpuVars, probed, executed>>

(* A kernel record whose launch was not announced, or not yet: dropped. *)
FilterRecord(w, r) ==
  /\ worker[w].pc = "records"
  /\ r \in worker[w].todo
  /\ r.id \notin filter \cup DOMAIN map
  /\ worker' = [worker EXCEPT ![w].todo = @ \ {r}]
  /\ UNCHANGED <<correlation, appVars, outstandingEvents, filter, map,
                 current_cycle, g_bufferCycle, gpuVars, history>>

(* A full batch goes out at once. *)
BatchCountAfter(n) == IF n + 1 >= BatchSize THEN 0 ELSE n + 1

(* Fault: the filter's id is found, but not removed.                       *)
EmitRecordKeepsId(w, r) ==
  /\ worker[w].pc = "records"
  /\ r \in worker[w].todo
  /\ r.id \in filter \cup DOMAIN map
  /\ map' = MarkedSeen(map, r.id, worker[w].cycle)
  /\ worker' = [worker EXCEPT ![w].todo = @ \ {r},
                              ![w].batchCount = BatchCountAfter(@)]
  /\ executed' = executed \cup {r}
  /\ UNCHANGED <<correlation, appVars, outstandingEvents, filter, current_cycle,
                 g_bufferCycle, gpuVars, probed, begun>>

(* check_and_remove or check_and_mark_seen finds the launch. *)
EmitRecord(w, r) ==
  /\ worker[w].pc = "records"
  /\ r \in worker[w].todo
  /\ r.id \in filter \cup DOMAIN map
  /\ filter' = filter \ {r.id}
  /\ map' = MarkedSeen(map, r.id, worker[w].cycle)
  /\ worker' = [worker EXCEPT ![w].todo = @ \ {r},
                              ![w].batchCount = BatchCountAfter(@)]
  /\ executed' = executed \cup {r}
  /\ UNCHANGED <<correlation, appVars, outstandingEvents, current_cycle,
                 g_bufferCycle, gpuVars, probed, begun>>

(* Fault: the last batch, not a full one, is forgotten.                    *)
SendRestForgets(w) ==
  /\ worker[w].pc = "records"
  /\ worker[w].todo = {}
  /\ worker' = [worker EXCEPT ![w].pc = "ending"]
  /\ UNCHANGED <<correlation, appVars, outstandingEvents, filter, map,
                 current_cycle, g_bufferCycle, gpuVars, history>>

(* No record is left: the last batch goes out. *)
SendRest(w) ==
  /\ worker[w].pc = "records"
  /\ worker[w].todo = {}
  /\ worker' = [worker EXCEPT ![w].pc = "ending", ![w].batchCount = 0]
  /\ UNCHANGED <<correlation, appVars, outstandingEvents, filter, map,
                 current_cycle, g_bufferCycle, gpuVars, history>>

CycleEnd(w) ==
  /\ worker[w].pc = "ending"
  /\ worker' = [worker EXCEPT ![w].pc = "resetting"]
  /\ map' = CycleEnded(map, current_cycle)
  /\ UNCHANGED <<correlation, appVars, outstandingEvents, filter, current_cycle,
                 g_bufferCycle, gpuVars, history>>

(* outstandingEvents = 0 at the end of completeBuffer. *)
ResetOutstanding(w) ==
  /\ worker[w].pc = "resetting"
  /\ worker' = [worker EXCEPT ![w].pc = "idle"]
  /\ outstandingEvents' = 0
  /\ UNCHANGED <<correlation, appVars, filter, map, current_cycle, g_bufferCycle,
                 gpuVars, history>>

-----------------------------------------------------------------------------
(***************************************************************************)
(* The world around: consumers attach and detach; kernels end, and CUPTI   *)
(* records them unless allocBuffer, without a consumer, gave it no buffer. *)
(***************************************************************************)

ToggleConsumer ==
  /\ correlation' = ~correlation
  /\ UNCHANGED <<appVars, outstandingEvents, filter, bufVars, gpuVars, history>>

KernelEnds(r) ==
  /\ r \in running
  /\ running' = running \ {r}
  /\ \/ recorded' = recorded \cup {r}
     \/ ~correlation /\ UNCHANGED recorded
  /\ UNCHANGED <<correlation, appVars, outstandingEvents, filter, bufVars, fresh,
                 history>>

Next ==
  \/ \E t \in Threads, id \in Ids : RuntimeEnter(t, id)
  \/ \E t \in Threads, id \in Ids, k \in 0 .. MaxKernels : DriverEnter(t, id, k)
  \/ \E t \in Threads, k \in 0 .. MaxKernels : NestedDriverEnter(t, k)
  \/ \E t \in Threads :
       DriverExit(t) \/ RuntimeExit(t) \/ Load(t)
       \/ Store(t) \/ Probe(t) \/ Insert(t) \/ CheckFlush(t) \/ FlushAll(t)
  \/ \E w \in Workers :
       \/ /\ g_bufferCycle < MaxBuffers
          /\ \E todo \in SUBSET recorded : FetchCycle(w, todo)
       \/ CycleStart(w) \/ SendRest(w) \/ CycleEnd(w) \/ ResetOutstanding(w)
       \/ \E r \in worker[w].todo : FilterRecord(w, r) \/ EmitRecord(w, r)
  \/ ToggleConsumer
  \/ \E r \in running : KernelEnds(r)

Spec == Init /\ [][Next]_vars

-----------------------------------------------------------------------------
(***************************************************************************)
(* Properties.                                                             *)
(***************************************************************************)

(* No orphans: the consumer has had the cuda_correlation event of a launch *)
(* before any kernel_executed or activity_batch event of it, although the  *)
(* events come from different threads (cupti.cpp:471-475).                 *)
CorrelatedBeforeExecuted == \A r \in executed : probed[r.id] > 0

(* A runtime call and the driver call under it share a correlation id; the *)
(* launch is announced once, whoever attaches or detaches in between.      *)
AnnouncedOnce == \A id \in Ids : probed[id] <= 1

(* A plain launch is matched by one record only, and once matched its id   *)
(* is never in the filter again.                                           *)
PlainMatchedOnce ==
  \A r \in executed : r.id \in PlainIds =>
    /\ r.id \notin filter
    /\ \A q \in executed : q.id = r.id => q = r

(* batchPtrs has room for the next record, and no pointer into the buffer  *)
(* outlives the loop over it: every batch is sent before the buffer goes.  *)
BatchesSent ==
  \A w \in Workers : /\ worker[w].batchCount < BatchSize
                     /\ worker[w].pc # "records" => worker[w].batchCount = 0

(* The unsynchronised counter may lose events, but it never stays above    *)
(* the limit: whoever took it there is on the way to the flush check.      *)
FlushComes ==
  outstandingEvents > FlushLimit =>
    \E t \in Threads : thread[t].pc \in {"probe", "insert", "check", "flush"}

-----------------------------------------------------------------------------
(***************************************************************************)
(* GraphTracker leaves open who inserts a launch when and how many of its  *)
(* records are to come.  Here the callbacks, the filter and CUPTI fill     *)
(* that in.                                                                *)
(***************************************************************************)
Undelivered(r) ==
  r \in running \/ r \in recorded \/ \E w \in Workers : r \in worker[w].todo

RecordsOf(id) == {n \in 1 .. MaxKernels : Undelivered([id |-> id, n |-> n])}

(* The graph launch has not come to its insertion, or never will. *)
AwaitsInsertion(id) ==
  probed[id] = 0 \/ \E t \in Threads : thread[t].pc = "insert" /\ thread[t].id = id

NotInserted == {id \in GraphIds : AwaitsInsertion(id)}

ToCome ==
  [id \in GraphIds |->
     IF AwaitsInsertion(id) THEN 0 ELSE Cardinality(RecordsOf(id))]

(* cycle_end comes next after the loop; what follows it is not the map's.  *)
TrackerPC(pc) ==
  IF pc = "ending" THEN "records" ELSE IF pc = "resetting" THEN "idle" ELSE pc

TrackerWorkers ==
  [w \in Workers |-> [pc |-> TrackerPC(worker[w].pc), cycle |-> worker[w].cycle]]

Tracker == INSTANCE GraphTracker WITH
  Ids <- GraphIds, worker <- TrackerWorkers, toCome <- ToCome, fresh <- NotInserted

(* What GraphTracker shows of the map holds in the whole program: callers  *)
(* insert a launch once, nobody touches an entry in another way, and no    *)
(* more records of a launch come than were under way at its insertion.     *)
(* The steps that leave the map's side alone, most of all, come first.     *)
ImplementsTracker == Tracker!Init /\ [][UNCHANGED Tracker!vars \/ Tracker!Next]_vars

=============================================================================
