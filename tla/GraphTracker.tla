---------------------------- MODULE GraphTracker ----------------------------
(***************************************************************************)
(* The graph correlation map as CuptiProfiler uses it (src/src/cupti.cpp): *)
(* API callbacks insert graph launches while the threads that CUPTI calls  *)
(* completeBuffer on process activity buffers.  Every call locks the map   *)
(* for itself, so calls of different threads interleave between any two    *)
(* steps; in particular another buffer can be started between a thread's   *)
(* g_bufferCycle.fetch_add and its cycle_start.                            *)
(***************************************************************************)
EXTENDS GraphCorrelationMap

CONSTANTS
  Ids,          (* correlation ids of graph launches                      *)
  Workers,      (* threads that may be inside completeBuffer              *)
  MaxKernels    (* bound: kernel records still to come after an insertion *)

ASSUME MaxKernelsAssumption == MaxKernels \in Nat

VARIABLES
  map,            (* map_                                                 *)
  current_cycle,  (* current_cycle_                                       *)
  g_bufferCycle,
  worker,         (* how far each thread is in completeBuffer             *)
  toCome,         (* GPU: records of a launch not yet delivered           *)
  fresh,          (* ids no launch has used yet                           *)
  begun           (* history: cycle_starts since the insertion, capped    *)

vars == <<map, current_cycle, g_bufferCycle, worker, toCome, fresh, begun>>

-----------------------------------------------------------------------------

PCs == {"idle", "starting", "records"}

(* The map holds entries of launches; cycles stay within their width. *)
TypeOK ==
  /\ IsMap(map, Ids)
  /\ current_cycle \in Cycles
  /\ g_bufferCycle \in Cycles
  /\ worker \in [Workers -> [pc : PCs, cycle : Cycles]]
  /\ toCome \in [Ids -> 0 .. MaxKernels]
  /\ fresh \subseteq Ids
  /\ begun \in [Ids -> 0 .. (MaxAge + 1)]

Init ==
  /\ map = [i \in {} |-> GraphCorrelationEntry(0)]
  /\ current_cycle = 0
  /\ g_bufferCycle = 0
  /\ worker = [w \in Workers |-> [pc |-> "idle", cycle |-> 0]]
  /\ toCome = [i \in Ids |-> 0]
  /\ fresh = Ids
  /\ begun = [i \in Ids |-> 0]

-----------------------------------------------------------------------------

(* callbackHandler, EXIT of a graph launch: insert(correlationId).  CUPTI   *)
(* gives each launch an id of its own.                                     *)
Insert(id) ==
  /\ id \in fresh
  /\ fresh' = fresh \ {id}
  /\ map' = Inserted(map, id, current_cycle)
  /\ \E n \in 0 .. MaxKernels : toCome' = [toCome EXCEPT ![id] = n]
  /\ UNCHANGED <<current_cycle, g_bufferCycle, worker, begun>>

(* completeBuffer: cycle = g_bufferCycle.fetch_add(1). *)
FetchCycle(w) ==
  /\ worker[w].pc = "idle"
  /\ worker' = [worker EXCEPT ![w] = [pc |-> "starting", cycle |-> g_bufferCycle]]
  /\ g_bufferCycle' = NextCycle(g_bufferCycle)
  /\ UNCHANGED <<map, current_cycle, toCome, fresh, begun>>

OneMoreBegun(n) == IF n > MaxAge THEN n ELSE n + 1

(* completeBuffer: g_graphCorrelationMap.cycle_start(cycle). *)
CycleStart(w) ==
  /\ worker[w].pc = "starting"
  /\ worker' = [worker EXCEPT ![w].pc = "records"]
  /\ current_cycle' = worker[w].cycle
  /\ map' = CycleStarted(map, worker[w].cycle)
  /\ begun' = [i \in Ids |-> IF i \in DOMAIN map THEN OneMoreBegun(begun[i])
                                                  ELSE begun[i]]
  /\ UNCHANGED <<g_bufferCycle, toCome, fresh>>

(* completeBuffer: one kernel record with graphId # 0, looked up by        *)
(* check_and_mark_seen with the cycle this thread fetched.                 *)
KernelRecord(w, id) ==
  /\ worker[w].pc = "records"
  /\ toCome[id] > 0
  /\ toCome' = [toCome EXCEPT ![id] = @ - 1]
  /\ map' = MarkedSeen(map, id, worker[w].cycle)
  /\ UNCHANGED <<current_cycle, g_bufferCycle, worker, fresh, begun>>

(* completeBuffer: the records are used up; cycle_end. *)
CycleEnd(w) ==
  /\ worker[w].pc = "records"
  /\ worker' = [worker EXCEPT ![w].pc = "idle"]
  /\ map' = CycleEnded(map, current_cycle)
  /\ UNCHANGED <<current_cycle, g_bufferCycle, toCome, fresh, begun>>

(* CUPTI had no buffer for the record of a kernel that ended: allocBuffer  *)
(* gives it none while nobody consumes.                                    *)
Lost(id) ==
  /\ toCome[id] > 0
  /\ toCome' = [toCome EXCEPT ![id] = @ - 1]
  /\ UNCHANGED <<map, current_cycle, g_bufferCycle, worker, fresh, begun>>

Next ==
  \/ \E id \in Ids : Insert(id) \/ Lost(id)
  \/ \E w \in Workers :
       \/ FetchCycle(w)
       \/ CycleStart(w)
       \/ \E id \in Ids : KernelRecord(w, id)
       \/ CycleEnd(w)

Spec == Init /\ [][Next]_vars

(***************************************************************************)
(* A program that goes on launching and is flushed every 3000 launches     *)
(* keeps CUPTI completing buffers, and a thread inside completeBuffer runs *)
(* on: its loop is over a finite buffer.                                   *)
(***************************************************************************)
Fairness ==
  \A w \in Workers : /\ WF_vars(FetchCycle(w))
                     /\ WF_vars(CycleStart(w))
                     /\ WF_vars(CycleEnd(w))

FairSpec == Spec /\ Fairness

-----------------------------------------------------------------------------
(***************************************************************************)
(* Properties.                                                             *)
(***************************************************************************)

Removed(id) == id \in DOMAIN map /\ id \notin DOMAIN map'

(* However the threads interleave, an entry survives until two buffers     *)
(* have been started after its insertion: cycle_end never throws away a    *)
(* launch that no complete buffer could have brought kernels of.           *)
TwoBuffersBeforeRemoval ==
  [][\A id \in Ids : Removed(id) => begun[id] >= 2]_vars

(* cycle_end, "entry is very old": an entry that never saw a kernel leaves *)
(* only after more than MaxAge buffers have begun since its insertion.     *)
UnseenLeavesOnlyOld ==
  [][\A id \in Ids : Removed(id) /\ ~map[id].ever_seen_kernel
                       => begun[id] > MaxAge]_vars

(* The map does not grow for ever: once the last record of a launch has    *)
(* been delivered its entry leaves, whichever threads process buffers.     *)
DrainedEntriesLeave ==
  \A id \in Ids : (id \notin fresh /\ toCome[id] = 0) ~> id \notin DOMAIN map

-----------------------------------------------------------------------------
(***************************************************************************)
(* One buffer at a time, the map keeps the promise of GraphQuiet.  The     *)
(* slot of the latest cycle says what it brought, the other slot what the  *)
(* buffer before it brought.                                               *)
(***************************************************************************)
Cleared(e, s) == e.state[s] = "CYCLE_CLEARED"

QuietView(e) ==
  [quiet |-> Cleared(e, current_cycle % 2),
   quietBefore |-> Cleared(e, 1 - (current_cycle % 2)),
   seen |-> e.ever_seen_kernel,
   waited |-> IF e.ever_seen_kernel THEN 0 ELSE Age(e, current_cycle)]

(* No cycle has been started yet: afterwards g_bufferCycle is ahead.       *)
NotStarted ==
  \A w \in Workers :
    \/ worker[w].pc = "idle" /\ g_bufferCycle = current_cycle
    \/ worker[w].pc = "starting" /\ worker[w].cycle = current_cycle

Quiet == INSTANCE GraphQuiet WITH
  tracked <- [i \in DOMAIN map |-> QuietView(map[i])],
  open <- \E w \in Workers : worker[w].pc = "records",
  started <- ~NotStarted

(* With a single worker the specification implements GraphQuiet.           *)
ImplementsQuiet == Quiet!QSpec

=============================================================================
