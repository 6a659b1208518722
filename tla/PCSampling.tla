----------------------------- MODULE PCSampling -----------------------------
(***************************************************************************)
(* PC sampling windows (class PCSampling, src/src/pc_sampling.cpp, driven  *)
(* by CuptiProfiler::callbackHandler, src/src/cupti.cpp).                  *)
(*                                                                         *)
(* Application threads call into the class from CUDA callbacks: a context  *)
(* is created (initialize) or about to be destroyed (finalize); a launch   *)
(* ENTER may open the thread's sampling window (start); an EXIT inside a   *)
(* window drains the samples (collectData) or closes the window (stop,     *)
(* which drains too).  When CUPTI runs out of memory collectData resets    *)
(* the context: finalize, then initialize.                                 *)
(*                                                                         *)
(* Two mutexes, neither recursive: contextMutex around setting up and      *)
(* tearing down a context, pcSamplingMutex around CUPTI's start and stop.  *)
(* The maps keyed by context lock themselves call by call.                 *)
(***************************************************************************)
EXTENDS Integers

CONSTANTS
  Threads,
  Contexts,
  Nobody    (* the owner of a free mutex                                   *)

ASSUME NobodyAssumption == Nobody \notin Threads

VARIABLES
  life,             (* the program's view of each context                 *)
  thread,           (* the callback each thread is in                     *)
  window,           (* g_pcSamplingState.active, thread_local             *)
  contextMutex,
  pcSamplingMutex,
  samplingActive,
  samplingContext,
  initialized,      (* contextInitialized                                 *)
  failed,           (* contextFailed                                      *)
  configured,       (* the domain of contextIdToConfigureData             *)
  listed,           (* how often a context is in initializedContextIds    *)
  enabled,          (* CUPTI: contexts enabled for PC sampling            *)
  collecting,       (* CUPTI: contexts between start and stop             *)
  unstopped         (* history: those CUPTI refused to stop               *)

mutexes == <<contextMutex, pcSamplingMutex>>
sampling == <<samplingActive, samplingContext>>
setup == <<initialized, failed, configured, listed>>
cupti == <<enabled, collecting, unstopped>>
vars == <<life, thread, window, mutexes, sampling, setup, cupti>>

-----------------------------------------------------------------------------

Ops == {"create", "destroy", "start", "collect", "stop"}

PCs == {"idle", "startLock", "stopLock", "collect", "lookup", "getData", "probe",
        "finCheck", "finLock", "finStop", "finDisable", "finErase", "finReturn",
        "initCheck", "initLock", "initEnable", "initConfigure"}

ThreadState == [pc : PCs, op : Ops, ctx : Contexts]

(* The sets hold contexts, and no context is listed more than once. *)
TypeOK ==
  /\ life \in [Contexts -> {"new", "alive", "gone"}]
  /\ thread \in [Threads -> ThreadState]
  /\ window \in [Threads -> BOOLEAN]
  /\ contextMutex \in Threads \cup {Nobody}
  /\ pcSamplingMutex \in Threads \cup {Nobody}
  /\ samplingActive \in BOOLEAN
  /\ samplingContext \in Contexts
  /\ initialized \subseteq Contexts
  /\ failed \subseteq Contexts
  /\ configured \subseteq Contexts
  /\ listed \in [Contexts -> 0 .. 1]
  /\ enabled \subseteq Contexts
  /\ collecting \subseteq Contexts
  /\ unstopped \subseteq Contexts

(* No callback has run yet: op, ctx and samplingContext are not read before *)
(* they are written.                                                       *)
Init ==
  /\ life = [c \in Contexts |-> "new"]
  /\ \E c \in Contexts :
       /\ thread = [t \in Threads |-> [pc |-> "idle", op |-> "create", ctx |-> c]]
       /\ samplingContext = c
  /\ window = [t \in Threads |-> FALSE]
  /\ contextMutex = Nobody
  /\ pcSamplingMutex = Nobody
  /\ samplingActive = FALSE
  /\ initialized = {}
  /\ failed = {}
  /\ configured = {}
  /\ listed = [c \in Contexts |-> 0]
  /\ enabled = {}
  /\ collecting = {}
  /\ unstopped = {}

-----------------------------------------------------------------------------

Ctx(t) == thread[t].ctx

GoTo(t, pc) == thread' = [thread EXCEPT ![t].pc = pc]

Call(t, op, c, pc) ==
  /\ thread[t].pc = "idle"
  /\ thread' = [thread EXCEPT ![t] = [pc |-> pc, op |-> op, ctx |-> c]]

InCall(t, c) == thread[t].pc # "idle" /\ Ctx(t) = c

(* A program uses a context only between its creation and its destruction.  *)
Usable(c) ==
  /\ life[c] = "alive"
  /\ \A u \in Threads : InCall(u, c) => thread[u].op \notin {"create", "destroy"}

-----------------------------------------------------------------------------
(***************************************************************************)
(* The callbacks.                                                          *)
(***************************************************************************)

ContextCreated(t, c) ==
  /\ life[c] = "new"
  /\ life' = [life EXCEPT ![c] = "alive"]
  /\ Call(t, "create", c, "initCheck")
  /\ UNCHANGED <<window, mutexes, sampling, setup, cupti>>

ContextDestroyStarting(t, c) ==
  /\ life[c] = "alive"
  /\ \A u \in Threads : ~InCall(u, c)
  /\ life' = [life EXCEPT ![c] = "gone"]
  /\ Call(t, "destroy", c, "finCheck")
  /\ UNCHANGED <<window, mutexes, sampling, setup, cupti>>

(* Launch ENTER, and the dice open a window. *)
OpenWindow(t, c) ==
  /\ Usable(c)
  /\ ~window[t]
  /\ window' = [window EXCEPT ![t] = TRUE]
  /\ Call(t, "start", c, "startLock")
  /\ UNCHANGED <<life, mutexes, sampling, setup, cupti>>

(* EXIT inside a window that goes on. *)
CollectInWindow(t, c) ==
  /\ Usable(c)
  /\ window[t]
  /\ Call(t, "collect", c, "collect")
  /\ UNCHANGED <<life, window, mutexes, sampling, setup, cupti>>

(* Fault: the thread forgets its window before it stops the sampling.      *)
CloseWindowFirst(t, c) ==
  /\ Usable(c)
  /\ window[t]
  /\ window' = [window EXCEPT ![t] = FALSE]
  /\ Call(t, "stop", c, "stopLock")
  /\ UNCHANGED <<life, mutexes, sampling, setup, cupti>>

(* Launch EXIT that ends the window; st.active is reset when stop returns. *)
CloseWindow(t, c) ==
  /\ Usable(c)
  /\ window[t]
  /\ Call(t, "stop", c, "stopLock")
  /\ UNCHANGED <<life, window, mutexes, sampling, setup, cupti>>

-----------------------------------------------------------------------------
(***************************************************************************)
(* start and stop.  start is over before it lets pcSamplingMutex go; stop  *)
(* still holds it while it collects.                                       *)
(***************************************************************************)

(* CUPTI starts only a context that is enabled, and may fail to.           *)
CuptiStart(c, ok) ==
  /\ ok => c \in enabled
  /\ collecting' = IF ok THEN collecting \cup {c} ELSE collecting
  /\ unstopped' = IF ok THEN unstopped \ {c} ELSE unstopped

(* stopPCSampling: CUPTI may refuse, and goes on; no caller looks at the    *)
(* result.                                                                 *)
CuptiStop(c) ==
  \/ collecting' = collecting \ {c} /\ unstopped' = unstopped \ {c}
  \/ unstopped' = unstopped \cup (collecting \cap {c}) /\ UNCHANGED collecting

Start(t) ==
  /\ thread[t].pc = "startLock"
  /\ pcSamplingMutex = Nobody
  /\ \/ samplingActive /\ UNCHANGED <<sampling, collecting, unstopped>>
     \/ /\ ~samplingActive
        /\ \E ok \in BOOLEAN :
             /\ CuptiStart(Ctx(t), ok)
             /\ samplingActive' = ok
             /\ samplingContext' = IF ok THEN Ctx(t) ELSE samplingContext
  /\ GoTo(t, "idle")
  /\ UNCHANGED <<life, window, mutexes, setup, enabled>>

(* Fault: the flag is not cleared.                                         *)
StopKeepsFlag(t) ==
  /\ thread[t].pc = "stopLock"
  /\ pcSamplingMutex = Nobody
  /\ IF samplingActive
     THEN /\ CuptiStop(Ctx(t))
          /\ pcSamplingMutex' = t
          /\ GoTo(t, "collect")
          /\ UNCHANGED window
     ELSE /\ window' = [window EXCEPT ![t] = FALSE]
          /\ GoTo(t, "idle")
          /\ UNCHANGED <<collecting, unstopped, pcSamplingMutex>>
  /\ UNCHANGED <<life, contextMutex, sampling, setup, enabled>>

(* Whatever CUPTI answers the flag is cleared, whichever context sampling   *)
(* was started on.                                                         *)
Stop(t) ==
  /\ thread[t].pc = "stopLock"
  /\ pcSamplingMutex = Nobody
  /\ IF samplingActive
     THEN /\ CuptiStop(Ctx(t))
          /\ samplingActive' = FALSE
          /\ pcSamplingMutex' = t
          /\ GoTo(t, "collect")
          /\ UNCHANGED window
     ELSE /\ window' = [window EXCEPT ![t] = FALSE]
          /\ GoTo(t, "idle")
          /\ UNCHANGED <<collecting, unstopped, samplingActive, pcSamplingMutex>>
  /\ UNCHANGED <<life, contextMutex, samplingContext, setup, enabled>>

-----------------------------------------------------------------------------
(***************************************************************************)
(* collectData.                                                            *)
(***************************************************************************)

(* collectData returns, to stop or to the callback handler. *)
CollectReturns(t) ==
  /\ GoTo(t, "idle")
  /\ IF thread[t].op = "stop"
     THEN /\ pcSamplingMutex' = Nobody
          /\ window' = [window EXCEPT ![t] = FALSE]
     ELSE UNCHANGED <<pcSamplingMutex, window>>

Collect(t) ==
  /\ thread[t].pc = "collect"
  /\ IF Ctx(t) \in initialized
     THEN GoTo(t, "lookup") /\ UNCHANGED <<pcSamplingMutex, window>>
     ELSE CollectReturns(t)
  /\ UNCHANGED <<life, contextMutex, sampling, setup, cupti>>

(* getConfigureData: operator[] makes an entry where there is none. *)
Lookup(t) ==
  /\ thread[t].pc = "lookup"
  /\ configured' = configured \cup {Ctx(t)}
  /\ GoTo(t, "getData")
  /\ UNCHANGED <<life, window, mutexes, sampling, initialized, failed, listed, cupti>>

(* The loop over getPCSamplingData: out of memory, or all drained or some   *)
(* other error.                                                            *)
GetData(t) ==
  /\ thread[t].pc = "getData"
  /\ \/ GoTo(t, "probe") /\ UNCHANGED <<pcSamplingMutex, window>>
     \/ CollectReturns(t)
  /\ UNCHANGED <<life, contextMutex, sampling, setup, cupti>>

(* Fault: the reset without looking at the mutex first.                    *)
ProbeSkipped(t) ==
  /\ thread[t].pc = "probe"
  /\ GoTo(t, "finCheck")
  /\ UNCHANGED <<life, window, mutexes, sampling, setup, cupti>>

(* try_lock on pcSamplingMutex, released at once: while anybody holds it,   *)
(* this thread in stop included, there is no reset.                        *)
Probe(t) ==
  /\ thread[t].pc = "probe"
  /\ IF pcSamplingMutex = Nobody
     THEN GoTo(t, "finCheck") /\ UNCHANGED <<pcSamplingMutex, window>>
     ELSE CollectReturns(t)
  /\ UNCHANGED <<life, contextMutex, sampling, setup, cupti>>

-----------------------------------------------------------------------------
(***************************************************************************)
(* finalize, of a context about to go or of one to be reset.               *)
(***************************************************************************)

(* On to initialize, or out of the callback. *)
AfterFinalize(t) == IF thread[t].op = "destroy" THEN "idle" ELSE "initCheck"

FinalizeCheck(t) ==
  /\ thread[t].pc = "finCheck"
  /\ IF Ctx(t) \in initialized
     THEN GoTo(t, "finLock") /\ UNCHANGED failed
     ELSE GoTo(t, AfterFinalize(t)) /\ failed' = failed \ {Ctx(t)}
  /\ UNCHANGED <<life, window, mutexes, sampling, initialized, configured, listed,
                 cupti>>

(* Fault: the list of contexts is left alone.                              *)
FinalizeLockKeepsListed(t) ==
  /\ thread[t].pc = "finLock"
  /\ contextMutex = Nobody
  /\ contextMutex' = t
  /\ GoTo(t, "finStop")
  /\ UNCHANGED <<life, window, pcSamplingMutex, sampling, setup, cupti>>

FinalizeLock(t) ==
  /\ thread[t].pc = "finLock"
  /\ contextMutex = Nobody
  /\ contextMutex' = t
  /\ listed' = [listed EXCEPT ![Ctx(t)] = 0]
  /\ GoTo(t, "finStop")
  /\ UNCHANGED <<life, window, pcSamplingMutex, sampling, initialized, failed,
                 configured, cupti>>

(* Fault: the flag is cleared, CUPTI goes on.                              *)
FinalizeStopFlagOnly(t) ==
  /\ thread[t].pc = "finStop"
  /\ pcSamplingMutex = Nobody
  /\ samplingActive' = FALSE
  /\ GoTo(t, "finDisable")
  /\ UNCHANGED <<life, window, mutexes, samplingContext, setup, cupti>>

(* Stops whatever runs, whichever context it was started on; again whatever *)
(* CUPTI answers the flag is cleared.                                      *)
FinalizeStop(t) ==
  /\ thread[t].pc = "finStop"
  /\ pcSamplingMutex = Nobody
  /\ samplingActive' = FALSE
  /\ IF samplingActive THEN CuptiStop(Ctx(t)) ELSE UNCHANGED <<collecting, unstopped>>
  /\ GoTo(t, "finDisable")
  /\ UNCHANGED <<life, window, mutexes, samplingContext, setup, enabled>>

(* Drain, by way of getConfigureData, and disable, which ends the sampling  *)
(* too; CUPTI may refuse, and finalize goes on.                            *)
FinalizeDisable(t) ==
  /\ thread[t].pc = "finDisable"
  /\ configured' = configured \cup {Ctx(t)}
  /\ \/ /\ enabled' = enabled \ {Ctx(t)}
        /\ collecting' = collecting \ {Ctx(t)}
        /\ unstopped' = unstopped \ {Ctx(t)}
     \/ UNCHANGED cupti
  /\ GoTo(t, "finErase")
  /\ UNCHANGED <<life, window, mutexes, sampling, initialized, failed, listed>>

FinalizeErase(t) ==
  /\ thread[t].pc = "finErase"
  /\ configured' = configured \ {Ctx(t)}
  /\ GoTo(t, "finReturn")
  /\ UNCHANGED <<life, window, mutexes, sampling, initialized, failed, listed, cupti>>

FinalizeReturn(t) ==
  /\ thread[t].pc = "finReturn"
  /\ initialized' = initialized \ {Ctx(t)}
  /\ contextMutex' = Nobody
  /\ GoTo(t, AfterFinalize(t))
  /\ UNCHANGED <<life, window, pcSamplingMutex, sampling, failed, configured, listed,
                 cupti>>

-----------------------------------------------------------------------------
(***************************************************************************)
(* initialize: double-checked locking around the set-up.                   *)
(***************************************************************************)

NotTried(c) == c \notin initialized /\ c \notin failed

InitializeCheck(t) ==
  /\ thread[t].pc = "initCheck"
  /\ GoTo(t, IF NotTried(Ctx(t)) THEN "initLock" ELSE "idle")
  /\ UNCHANGED <<life, window, mutexes, sampling, setup, cupti>>

(* Fault: the check is not repeated under the lock.                        *)
InitializeLockOnly(t) ==
  /\ thread[t].pc = "initLock"
  /\ contextMutex = Nobody
  /\ GoTo(t, "initEnable")
  /\ contextMutex' = t
  /\ UNCHANGED <<life, window, pcSamplingMutex, sampling, setup, cupti>>

InitializeLock(t) ==
  /\ thread[t].pc = "initLock"
  /\ contextMutex = Nobody
  /\ IF NotTried(Ctx(t))
     THEN GoTo(t, "initEnable") /\ contextMutex' = t
     ELSE GoTo(t, "idle") /\ UNCHANGED contextMutex
  /\ UNCHANGED <<life, window, pcSamplingMutex, sampling, setup, cupti>>

(* pcSamplingEnable works or fails, for want of permission for instance. *)
InitializeEnable(t) ==
  /\ thread[t].pc = "initEnable"
  /\ \/ /\ enabled' = enabled \cup {Ctx(t)}
        /\ configured' = configured \cup {Ctx(t)}
        /\ GoTo(t, "initConfigure")
        /\ UNCHANGED <<failed, contextMutex>>
     \/ /\ failed' = failed \cup {Ctx(t)}
        /\ contextMutex' = Nobody
        /\ GoTo(t, "idle")
        /\ UNCHANGED <<enabled, configured>>
  /\ UNCHANGED <<life, window, pcSamplingMutex, sampling, initialized, listed,
                 collecting, unstopped>>

(* ConfigureData::initialize works, or throws: the handler catches it and   *)
(* the context stays enabled.                                              *)
InitializeConfigure(t) ==
  /\ thread[t].pc = "initConfigure"
  /\ \/ /\ initialized' = initialized \cup {Ctx(t)}
        /\ listed' = [listed EXCEPT ![Ctx(t)] = @ + 1]
     \/ UNCHANGED <<initialized, listed>>
  /\ contextMutex' = Nobody
  /\ GoTo(t, "idle")
  /\ UNCHANGED <<life, window, pcSamplingMutex, sampling, failed, configured, cupti>>

-----------------------------------------------------------------------------

Callback(t, c) ==
  \/ ContextCreated(t, c) \/ ContextDestroyStarting(t, c)
  \/ OpenWindow(t, c) \/ CollectInWindow(t, c) \/ CloseWindow(t, c)

Step(t) ==
  \/ Start(t) \/ Stop(t)
  \/ Collect(t) \/ Lookup(t) \/ GetData(t) \/ Probe(t)
  \/ FinalizeCheck(t) \/ FinalizeLock(t) \/ FinalizeStop(t)
  \/ FinalizeDisable(t) \/ FinalizeErase(t) \/ FinalizeReturn(t)
  \/ InitializeCheck(t) \/ InitializeLock(t)
  \/ InitializeEnable(t) \/ InitializeConfigure(t)

Next == \E t \in Threads : Step(t) \/ \E c \in Contexts : Callback(t, c)

Spec == Init /\ [][Next]_vars

(***************************************************************************)
(* A callback runs on, and gets a mutex that is free again and again.  A   *)
(* thread with an open window goes on launching kernels that outlast the   *)
(* interval while there is a context to launch on.                         *)
(***************************************************************************)
Fairness ==
  \A t \in Threads : /\ SF_vars(Step(t))
                     /\ SF_vars(\E c \in Contexts : CloseWindow(t, c))

FairSpec == Spec /\ Fairness

-----------------------------------------------------------------------------
(***************************************************************************)
(* Properties.                                                             *)
(***************************************************************************)

(* The mutexes are taken in one order, contextMutex first, and nobody waits *)
(* for a mutex it holds: neither the callbacks nor the reset inside a drain *)
(* can deadlock (pc_sampling.cpp:805-811).                                 *)
LockOrder ==
  \A t \in Threads :
    pcSamplingMutex = t \/ contextMutex = t =>
      /\ thread[t].pc \notin {"startLock", "stopLock", "finLock", "initLock"}
      /\ pcSamplingMutex = t => thread[t].pc # "finStop"

(* While the program takes sampling to be on, some thread has a window open *)
(* that it must still close: no start, reset or early stop leaves the flag  *)
(* set with nobody to clear it.  Whether CUPTI then stops is another matter:*)
(* see CollectingMeansActive.                                              *)
SomeoneWillStop == samplingActive => \E t \in Threads : window[t]

(* What the maps say of a context agrees with CUPTI whenever nobody is      *)
(* setting one up or tearing one down, however many threads reset it.      *)
InitializedConsistently ==
  contextMutex = Nobody =>
    \A c \in Contexts :
      /\ c \in initialized => c \in enabled /\ c \notin failed
      /\ listed[c] = IF c \in initialized THEN 1 ELSE 0

(* With one context, CUPTI goes on sampling with samplingActive clear only  *)
(* where it refused to stop: nothing else clears the flag under a collection*)
(* that goes on, and no start leaves one behind.                           *)
CollectingMeansActive ==
  ~samplingActive => collecting \subseteq unstopped

(* pc_sampling.h:148, "Only one context can be sampling at a time in        *)
(* KERNEL_SERIALIZED mode": even of the contexts CUPTI refused no stop of.  *)
OneContextSampling == \A c, d \in collecting \ unstopped : c = d

(* samplingActive, once set, is cleared again as long as there is a context *)
(* to launch on.                                                           *)
SamplingStops ==
  samplingActive ~> ~samplingActive \/ \A c \in Contexts : life[c] # "alive"

=============================================================================
