------------------------------ MODULE Profiler ------------------------------
(***************************************************************************)
(* The life of the profiler in a process (init_debug, CuptiProfiler's      *)
(* initialize and cleanup, and InitializeInjection, src/src/cupti.cpp).    *)
(*                                                                         *)
(* The CUDA driver calls InitializeInjection: the environment is read, the *)
(* singleton made, and CUPTI set up step by step, any of which may throw.  *)
(* On success cleanup is registered with atexit.  When the process exits   *)
(* the handlers run, and then the singleton's destructor, which cleans up  *)
(* too; whoever comes first does it.                                       *)
(*                                                                         *)
(* One thread at a time is in InitializeInjection or exits.  Meanwhile     *)
(* others launch kernels through the callbacks that are enabled, up to the *)
(* very end.  Calls into CUPTI are atomic; a handler that CUPTI has called *)
(* runs on whatever is disabled, flushed or unsubscribed in the meantime.  *)
(***************************************************************************)
EXTENDS EnvConfig

CONSTANTS
  Launchers,    (* application threads                                    *)
  Envs,         (* environments the program may be started in             *)
  NoRates,      (* of a thread that has not been through the limiter      *)
  MaxCalls      (* bound: calls of InitializeInjection                    *)

ASSUME EnvsAssumption == \A e \in Envs : \A n \in DOMAIN e : e[n] \in Int
ASSUME NoRatesAssumption == NoRates \notin Int \X Int
ASSUME MaxCallsAssumption == MaxCalls \in Nat

VARIABLES
  env,
  compatible,         (* driver and CUPTI are of versions that can sample *)
  pc,                 (* of the thread in InitializeInjection or exit     *)
  calls,              (* of InitializeInjection                           *)
  debugRead,          (* init_debug: its static initialized               *)
  globals,            (* the rates init_debug sets                        *)
  reported,           (* variables the error probe has named              *)
  rates,              (* thread_local: what applyRateLimitsOnce copied    *)
  initialized,
  pcSamplingEnabled,
  subscriber,         (* not null                                         *)
  handlers,           (* atexit handlers that have not run                *)
  destructor,         (* the singleton's is still to run                  *)
  subscribed,         (* CUPTI                                            *)
  enabled,            (* CUPTI: groups of callbacks                       *)
  recording,          (* CUPTI: kernel activity                           *)
  exitHandler,        (* of a launch: "out", or running, and then where   *)
                      (* the record of its kernel is, if there is one     *)
  waiting,            (* announced launches whose records are in buffers  *)
  unmatched,          (* history: threads that announced a launch after   *)
                      (* the record of its kernel had been delivered      *)
  overtaken,          (* history: threads whose handler was running when  *)
                      (* CUPTI completed a buffer, or when cleanup        *)
                      (* disabled the callbacks                           *)
  failures            (* history: calls of cleanup that CUPTI refused     *)

config == <<env, compatible, debugRead, globals, reported>>
object == <<initialized, pcSamplingEnabled, subscriber>>
process == <<calls, handlers, destructor>>
cupti == <<subscribed, enabled, recording>>
launches == <<exitHandler, waiting, unmatched, overtaken>>
vars == <<config, pc, rates, object, process, cupti, launches, failures>>

-----------------------------------------------------------------------------

(* setRuntimeCallbacks, setLaunchCallbacks, the two graph launches, and    *)
(* setResourceCallbacks, in the order in which they are made.              *)
Groups == {"runtime", "launch", "graph", "resource"}
After == [runtime |-> "launch", launch |-> "graph", graph |-> "resource"]

(* initialize and cleanup each take the groups in turn. *)
Enable(g) == <<"enable", g>>
Disable(g) == <<"disable", g>>

PCs == {<<p>> : p \in {"run", "initDebug", "initialize", "isSupported", "subscribe",
                       "register", "exit", "flush", "disableActivity",
                       "unsubscribe", "gone", "terminated"}}
       \cup {Enable(g) : g \in Groups} \cup {Disable(g) : g \in Groups}

HandlerStates == {"out", "unrecorded", "buffered", "delivered"}

(* The globals are those of some environment, and what CUPTI reports to is *)
(* a subscriber.                                                           *)
TypeOK ==
  /\ env \in Envs
  /\ compatible \in BOOLEAN
  /\ pc \in PCs
  /\ calls \in 0 .. MaxCalls
  /\ debugRead \in BOOLEAN
  /\ globals \in {Defaults, Configured(env)}
  /\ reported \subseteq DOMAIN env
  /\ rates \in [Launchers -> (Int \X Int) \cup {NoRates}]
  /\ initialized \in BOOLEAN
  /\ pcSamplingEnabled \in BOOLEAN
  /\ subscriber \in BOOLEAN
  /\ handlers \in 0 .. calls
  /\ destructor \in BOOLEAN
  /\ subscribed \in BOOLEAN
  /\ enabled \subseteq Groups /\ (enabled # {} => subscribed)
  /\ recording \in BOOLEAN
  /\ exitHandler \in [Launchers -> HandlerStates]
  /\ waiting \subseteq Launchers
  /\ unmatched \subseteq Launchers
  /\ overtaken \subseteq Launchers
  /\ failures \subseteq {"disable", "flush", "disableActivity", "unsubscribe"}

Init ==
  /\ env \in Envs
  /\ compatible \in BOOLEAN
  /\ pc = <<"run">>
  /\ calls = 0
  /\ debugRead = FALSE
  /\ globals = Defaults
  /\ reported = {}
  /\ rates = [t \in Launchers |-> NoRates]
  /\ initialized = FALSE
  /\ pcSamplingEnabled = FALSE
  /\ subscriber = FALSE
  /\ handlers = 0
  /\ destructor = FALSE
  /\ subscribed = FALSE
  /\ enabled = {}
  /\ recording = FALSE
  /\ exitHandler = [t \in Launchers |-> "out"]
  /\ waiting = {}
  /\ unmatched = {}
  /\ overtaken = {}
  /\ failures = {}

-----------------------------------------------------------------------------
(***************************************************************************)
(* InitializeInjection.                                                    *)
(***************************************************************************)

Goes(from, to) == pc = from /\ pc' = to

(* Fault: nothing is logged, and so no variable read, before the singleton *)
(* works.                                                                  *)
InjectSilently ==
  /\ Goes(<<"run">>, <<"initialize">>)
  /\ calls < MaxCalls
  /\ calls' = calls + 1
  /\ UNCHANGED <<config, rates, object, handlers, destructor, cupti, launches, failures>>

InitializeInjection ==
  /\ Goes(<<"run">>, <<"initDebug">>)
  /\ calls < MaxCalls
  /\ calls' = calls + 1
  /\ UNCHANGED <<config, rates, object, handlers, destructor, cupti, launches, failures>>

(* The first DEBUG_PRINTF of the process. *)
InitDebug ==
  /\ Goes(<<"initDebug">>, <<"initialize">>)
  /\ debugRead' = TRUE
  /\ IF debugRead
     THEN UNCHANGED <<globals, reported>>
     ELSE /\ globals' = Configured(env)
          /\ reported' = Unrecognised(env) \cup Rejected(env)
  /\ UNCHANGED <<env, compatible, rates, object, process, cupti, launches, failures>>

(* A call that throws ends InitializeInjection, which answers 0; what has  *)
(* been set up stays.                                                      *)
Throws(from) ==
  /\ Goes(from, <<"run">>)
  /\ UNCHANGED <<config, rates, object, process, launches, failures>>

(* Fault: cleanup is registered before it is known that there is need.     *)
InitializeAfterAtexit ==
  /\ Goes(<<"initialize">>, IF initialized THEN <<"run">> ELSE <<"isSupported">>)
  /\ initialized' = TRUE
  /\ destructor' = TRUE
  /\ handlers' = handlers + 1
  /\ UNCHANGED <<config, rates, pcSamplingEnabled, subscriber, calls, cupti, launches,
                 failures>>

(* The singleton is made; if it was initialized before, the answer is 1.   *)
Initialize ==
  /\ Goes(<<"initialize">>, IF initialized THEN <<"run">> ELSE <<"isSupported">>)
  /\ initialized' = TRUE
  /\ destructor' = TRUE
  /\ handlers' = IF initialized THEN handlers + 1 ELSE handlers
  /\ UNCHANGED <<config, rates, pcSamplingEnabled, subscriber, calls, cupti, launches,
                 failures>>

(* Nobody is asked for a version unless sampling is requested. *)
IsSupported ==
  \/ /\ Goes(<<"isSupported">>, <<"subscribe">>)
     /\ pcSamplingEnabled' = (SamplingRequested(env) /\ compatible)
     /\ UNCHANGED <<config, rates, initialized, subscriber, process, cupti, launches,
                    failures>>
  \/ SamplingRequested(env) /\ Throws(<<"isSupported">>) /\ UNCHANGED cupti

Subscribe ==
  \/ /\ Goes(<<"subscribe">>, Enable("runtime"))
     /\ subscriber' = TRUE
     /\ subscribed' = TRUE
     /\ UNCHANGED <<config, rates, initialized, pcSamplingEnabled, process, enabled,
                    recording, launches, failures>>
  \/ Throws(<<"subscribe">>) /\ UNCHANGED cupti

(* Resource callbacks only for PC sampling; a call that throws may have    *)
(* enabled some of its group.                                              *)
EnableCallbacks(g) ==
  LET wanted == g = "resource" => pcSamplingEnabled IN
  \/ /\ Goes(Enable(g), IF g = "resource" THEN <<"register">> ELSE Enable(After[g]))
     /\ enabled' = IF wanted THEN enabled \cup {g} ELSE enabled
     /\ UNCHANGED <<config, rates, object, process, subscribed, recording, launches,
                    failures>>
  \/ /\ wanted
     /\ Throws(Enable(g))
     /\ enabled' \in {enabled, enabled \cup {g}}
     /\ UNCHANGED <<subscribed, recording>>

(* Fault: a failure makes the profiler forget that it was initialized.     *)
RegisterForgets ==
  \/ /\ Goes(<<"register">>, <<"run">>)
     /\ recording' = TRUE
     /\ handlers' = handlers + 1
     /\ UNCHANGED <<config, rates, object, calls, destructor, subscribed, enabled,
                    launches, failures>>
  \/ /\ Goes(<<"register">>, <<"run">>)
     /\ initialized' = FALSE
     /\ UNCHANGED <<config, rates, pcSamplingEnabled, subscriber, process, cupti,
                    launches, failures>>

(* The activity callbacks and the kind of activity; the answer is 1.       *)
Register ==
  \/ /\ Goes(<<"register">>, <<"run">>)
     /\ recording' = TRUE
     /\ handlers' = handlers + 1
     /\ UNCHANGED <<config, rates, object, calls, destructor, subscribed, enabled,
                    launches, failures>>
  \/ Throws(<<"register">>) /\ UNCHANGED cupti

-----------------------------------------------------------------------------
(***************************************************************************)
(* Exit.                                                                   *)
(***************************************************************************)

Exit ==
  /\ Goes(<<"run">>, <<"exit">>)
  /\ UNCHANGED <<config, rates, object, process, cupti, launches, failures>>

(* cleanup, of the next atexit handler or, after the last, the destructor. *)
Cleanup ==
  /\ pc = <<"exit">>
  /\ \/ handlers > 0 /\ handlers' = handlers - 1 /\ UNCHANGED destructor
     \/ handlers = 0 /\ destructor /\ destructor' = FALSE /\ UNCHANGED handlers
  /\ initialized' = FALSE
  /\ \/ ~initialized /\ pc' = <<"exit">>
     \/ initialized /\ pc' = IF subscriber THEN Disable("runtime") ELSE <<"flush">>
  /\ UNCHANGED <<config, rates, pcSamplingEnabled, subscriber, calls, cupti, launches,
                 failures>>

Gone ==
  /\ Goes(<<"exit">>, <<"gone">>)
  /\ handlers = 0 /\ ~destructor
  /\ UNCHANGED <<config, rates, object, process, cupti, launches, failures>>

Refused(call, refused) ==
  failures' = IF refused THEN failures \cup {call} ELSE failures

(* The EXIT handlers that CUPTI has called and that have not returned. *)
Running == {t \in Launchers : exitHandler[t] # "out"}

(* The graph launches are the last to be disabled. *)
OvertakesAfter(g) ==
  /\ overtaken' = IF g = "graph" THEN overtaken \cup Running ELSE overtaken
  /\ UNCHANGED <<exitHandler, waiting, unmatched>>

(* Fault: the graph launches are not mirrored. *)
DisableCallbacksOfProton(g) ==
  /\ Goes(Disable(g), IF g = "resource" THEN <<"flush">> ELSE Disable(After[g]))
  /\ enabled' = IF g = "graph" THEN enabled ELSE enabled \ {g}
  /\ OvertakesAfter(g)
  /\ UNCHANGED <<config, rates, object, process, subscribed, recording, failures>>

(* An error of the graph launches is logged; one of proton's functions is  *)
(* thrown, and caught by the atexit handler, but not by the destructor.    *)
DisableCallbacks(g) ==
  LET wanted == g = "resource" => pcSamplingEnabled
      next == IF g = "resource" THEN <<"flush">> ELSE Disable(After[g]) IN
  /\ pc = Disable(g)
  /\ \/ /\ enabled' = IF wanted THEN enabled \ {g} ELSE enabled
        /\ pc' = next
        /\ OvertakesAfter(g)
        /\ UNCHANGED failures
     \/ /\ wanted
        /\ UNCHANGED <<enabled, launches>>
        /\ Refused("disable", TRUE)
        /\ \/ g = "graph" /\ pc' = next
           \/ g # "graph" /\ pc' = IF destructor THEN <<"exit">> ELSE <<"terminated">>
  /\ UNCHANGED <<config, rates, object, process, subscribed, recording>>

(* Every record in a buffer goes through completeBuffer, which filters it  *)
(* if its id has not been inserted yet.                                    *)
Delivered ==
  /\ waiting' = {}
  /\ exitHandler' = [t \in Launchers |->
                       IF exitHandler[t] = "buffered" THEN "delivered" ELSE exitHandler[t]]
  /\ UNCHANGED unmatched

FlushAll ==
  /\ Goes(<<"flush">>, <<"disableActivity">>)
  /\ \/ Delivered /\ UNCHANGED <<overtaken, failures>>
     \/ Refused("flush", TRUE) /\ UNCHANGED launches
  /\ UNCHANGED <<config, rates, object, process, cupti>>

DisableActivity ==
  /\ Goes(<<"disableActivity">>, IF subscriber THEN <<"unsubscribe">> ELSE <<"exit">>)
  /\ \E refused \in BOOLEAN :
       /\ recording' = (recording /\ refused)
       /\ Refused("disableActivity", refused)
  /\ UNCHANGED <<config, rates, object, process, subscribed, enabled, launches>>

Unsubscribe ==
  /\ Goes(<<"unsubscribe">>, <<"exit">>)
  /\ subscriber' = FALSE
  /\ \E refused \in BOOLEAN :
       /\ subscribed' = (subscribed /\ refused)
       /\ enabled' = IF refused THEN enabled ELSE {}
       /\ Refused("unsubscribe", refused)
  /\ UNCHANGED <<config, rates, initialized, pcSamplingEnabled, process, recording,
                 launches>>

-----------------------------------------------------------------------------
(***************************************************************************)
(* Application threads.                                                    *)
(***************************************************************************)

(* A kernel is launched by an API call, and CUPTI finds a callback enabled *)
(* for its EXIT.                                                           *)
Launch(t) ==
  /\ pc \notin {<<"gone">>, <<"terminated">>}
  /\ enabled \cap {"runtime", "launch", "graph"} # {}
  /\ exitHandler[t] = "out"
  /\ exitHandler' = [exitHandler EXCEPT ![t] = IF recording THEN "buffered" ELSE "unrecorded"]
  /\ UNCHANGED <<config, pc, rates, object, process, cupti, waiting, unmatched,
                 overtaken, failures>>

(* The handler: it comes to the limiter, and copies the rates once per     *)
(* thread, or not (nobody is attached, a call nested in another, a sampling*)
(* window is open); it announces the launch and inserts its id, or not.    *)
ExitHandler(t) ==
  /\ pc \notin {<<"gone">>, <<"terminated">>}
  /\ exitHandler[t] # "out"
  /\ exitHandler' = [exitHandler EXCEPT ![t] = "out"]
  /\ \/ UNCHANGED rates
     \/ /\ rates[t] = NoRates
        /\ rates' = [rates EXCEPT ![t] = <<globals.eager, globals.graph>>]
  /\ \/ UNCHANGED <<waiting, unmatched>>
     \/ /\ waiting' = IF exitHandler[t] = "buffered" THEN waiting \cup {t} ELSE waiting
        /\ unmatched' = IF exitHandler[t] = "delivered" THEN unmatched \cup {t}
                                                       ELSE unmatched
  /\ UNCHANGED <<config, pc, object, process, cupti, overtaken, failures>>

(* CUPTI completes a buffer. *)
Deliver ==
  /\ waiting # {} \/ \E t \in Launchers : exitHandler[t] = "buffered"
  /\ Delivered
  /\ overtaken' = overtaken \cup Running
  /\ UNCHANGED <<config, pc, rates, object, process, cupti, failures>>

Next ==
  \/ InitializeInjection \/ InitDebug \/ Initialize \/ IsSupported \/ Subscribe
  \/ \E g \in Groups : EnableCallbacks(g) \/ DisableCallbacks(g)
  \/ Register \/ Exit \/ Cleanup \/ FlushAll \/ DisableActivity \/ Unsubscribe \/ Gone
  \/ \E t \in Launchers : Launch(t) \/ ExitHandler(t)
  \/ Deliver

Spec == Init /\ [][Next]_vars

-----------------------------------------------------------------------------
(***************************************************************************)
(* Properties.                                                             *)
(***************************************************************************)

(* Whatever InitializeInjection got done, in one call or several, exit     *)
(* undoes unless CUPTI refuses: a set-up that failed half way is undone by *)
(* the destructor, for which no atexit handler was registered.             *)
ExitLeavesNothing ==
  pc = <<"gone">> /\ failures = {} => ~subscribed /\ ~recording

(* The last launches count (cupti.cpp:338-361): cleanup disables callbacks *)
(* before its forced flush, so that at the end no record of an announced   *)
(* launch is left in CUPTI.  A launch is announced without its kernel only *)
(* if its handler was already running when the callbacks were disabled, or *)
(* when CUPTI completed a buffer; the record is then delivered, and        *)
(* filtered, before the id is inserted.                                    *)
LastLaunchesReported ==
  pc = <<"gone">> /\ failures = {} => waiting = {} /\ unmatched \subseteq overtaken

(* applyRateLimitsOnce copies the configured rates, once per thread: no    *)
(* thread comes to its limiter before the variables have been read, and    *)
(* keeps the defaults for good (cupti.cpp:40-42, 52).                      *)
RatesAsConfigured ==
  \A t \in Launchers :
    rates[t] # NoRates => rates[t] = <<EagerRate(env), GraphRate(env)>>

(* The values the program works with. *)
Used(e, name) ==
  [RATE_LIMIT |-> EagerRate(e), GRAPH_RATE_LIMIT |-> GraphRate(e),
   SAMPLING_FACTOR |-> SamplingFactor(e), PC_SAMPLING_RATE |-> TargetRate(e),
   PC_HW_BUFFER_MB |-> HardwareBufferMB(e)][name]

(* "on invalid values, fires the error probe, prints a debug warning, and  *)
(* uses the default" (env_config.h:11-12): the functions that report values*)
(* and those that use them agree on which are invalid, with two exceptions.*)
(* 0, and with it text that is no number, is silently defaulted for two of *)
(* the variables; and GRAPH_RATE_LIMIT, which validateEnvVars does not     *)
(* know, is reported even where it is used.                                *)
DefaultsReported ==
  debugRead =>
    \A name \in DOMAIN env \cap {"RATE_LIMIT", "GRAPH_RATE_LIMIT", "SAMPLING_FACTOR",
                                "PC_SAMPLING_RATE", "PC_HW_BUFFER_MB"} :
      LET defaulted == Used(env, name) # env[name]
          silent == env[name] = 0 /\ name \in {"SAMPLING_FACTOR", "PC_SAMPLING_RATE"} IN
      name \in reported <=> (defaulted /\ ~silent) \/ name = "GRAPH_RATE_LIMIT"

=============================================================================
