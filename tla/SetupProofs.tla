---------------------------- MODULE SetupProofs ----------------------------
(***************************************************************************)
(* Theorems about what is set up before anything is measured: about        *)
(* Profiler, for any number of threads and of calls of InitializeInjection *)
(* and any set of environments, and about ContextMetadata, for any numbers *)
(* of threads, contexts and consumers.                                     *)
(***************************************************************************)
EXTENDS Profiler, ContextMetadata, FiniteSetTheorems, TLAPS

USE NoRatesAssumption, MaxCallsAssumption

-----------------------------------------------------------------------------
(* Where InitializeInjection is under way, and where CUPTI has a subscriber*)
(* that it goes on setting up.                                             *)
EnablePCs == {<<"register">>} \cup {Enable(g) : g \in Groups}
Injecting ==
  pc \in {<<"initDebug">>, <<"initialize">>, <<"isSupported">>, <<"subscribe">>}
           \cup EnablePCs

(* Types, and what they rest on: a call in progress has not registered its *)
(* handler yet, and callbacks are enabled for a subscriber.                *)
TypeInv ==
  /\ TypeOK
  /\ Injecting => handlers < calls
  /\ pc \in EnablePCs => subscribed

(* Where cleanup goes on after a group. *)
LEMMA DisableGoesOn ==
  ASSUME NEW g \in Groups, DisableCallbacks(g)
  PROVE  /\ g = "runtime" => pc' \in {<<"disable", "launch">>, <<"exit">>, <<"terminated">>}
         /\ g = "launch" => pc' \in {<<"disable", "graph">>, <<"exit">>, <<"terminated">>}
         /\ g = "graph" => pc' = <<"disable", "resource">>
         /\ g = "resource" => pc' \in {<<"flush">>, <<"exit">>, <<"terminated">>}
         /\ pc' \notin {<<"initialize">>, <<"isSupported">>, <<"subscribe">>} \cup EnablePCs
  <1>1. /\ g = "runtime" => pc' \in {Disable("launch"), <<"exit">>, <<"terminated">>}
        /\ g = "launch" => pc' \in {Disable("graph"), <<"exit">>, <<"terminated">>}
        /\ g = "graph" => pc' = Disable("resource")
        /\ g = "resource" => pc' \in {<<"flush">>, <<"exit">>, <<"terminated">>}
    <2>1. CASE pc' = IF g = "resource" THEN <<"flush">> ELSE Disable(After[g])
      BY <2>1 DEF After, Groups
    <2>2. CASE g # "graph" /\ pc' \in {<<"exit">>, <<"terminated">>}
      BY <2>2 DEF Groups
    <2>3. QED
      BY <2>1, <2>2, Zenon DEF DisableCallbacks
  <1>2. QED
    BY <1>1 DEF Disable, Groups, EnablePCs, Enable

(* What the variables are configured to is a number. *)
LEMMA RatesAreNumbers ==
  /\ EagerRate(env) \in Int /\ GraphRate(env) \in Int
  /\ Defaults.eager \in Int /\ Defaults.graph \in Int
  /\ Configured(env).eager = EagerRate(env) /\ Configured(env).graph = GraphRate(env)
  BY DEF EagerRate, GraphRate, ValueIf, Positive, Defaults, Configured

(* Every step keeps the types.                                             *)
LEMMA TypeStep == TypeInv /\ [Next]_vars => TypeInv'
  <1> SUFFICES ASSUME TypeInv, [Next]_vars PROVE TypeInv'
    OBVIOUS
  <1> USE DEF Goes, Injecting, EnablePCs, PCs, Groups, After, Enable, Disable, TypeInv,
              TypeOK, config, object, process, cupti, launches
  <1>1. CASE InitializeInjection
    BY <1>1 DEF InitializeInjection
  <1>2. CASE InitDebug
    BY <1>2 DEF InitDebug, Unrecognised, Rejected
  <1>3. CASE Initialize
    BY <1>3 DEF Initialize
  <1>4. CASE IsSupported
    <2>1. CASE Throws(<<"isSupported">>) /\ UNCHANGED cupti
      BY <2>1 DEF Throws
    <2>2. CASE Goes(<<"isSupported">>, <<"subscribe">>)
      <3>1. pcSamplingEnabled' \in BOOLEAN
        BY <1>4 DEF IsSupported, SamplingRequested, Throws
      <3>2. /\ pc = <<"isSupported">> /\ pc' = <<"subscribe">>
            /\ UNCHANGED <<config, rates, initialized, subscriber, process, cupti,
                           launches, failures>>
        BY <1>4, <2>2 DEF IsSupported, Throws
      <3>3. QED
        BY <3>1, <3>2
    <2>3. QED
      BY <1>4, <2>1, <2>2 DEF IsSupported
  <1>5. CASE Subscribe
    <2>1. CASE Throws(<<"subscribe">>) /\ UNCHANGED cupti
      BY <2>1 DEF Throws
    <2>2. CASE ~Throws(<<"subscribe">>)
      <3>1. /\ pc = <<"subscribe">> /\ pc' = <<"enable", "runtime">>
            /\ subscriber' = TRUE /\ subscribed' = TRUE
            /\ UNCHANGED <<config, rates, initialized, pcSamplingEnabled, process,
                           enabled, recording, launches, failures>>
        BY <1>5, <2>2 DEF Subscribe
      <3>2. QED
        BY <3>1
    <2>3. QED
      BY <1>5, <2>1, <2>2 DEF Subscribe
  <1>6. ASSUME NEW g \in Groups, EnableCallbacks(g) PROVE TypeInv'
    <2>1. /\ pc = <<"enable", g>> /\ subscribed /\ handlers < calls
          /\ pc' \in {<<"run">>, <<"register">>} \cup {<<"enable", h>> : h \in Groups}
          /\ enabled' \in {enabled, enabled \cup {g}}
          /\ UNCHANGED <<config, rates, object, process, subscribed, recording, launches,
                         failures>>
      BY <1>6 DEF EnableCallbacks, Throws
    <2>2. pc' \in PCs /\ enabled' \subseteq Groups
      BY <2>1
    <2>3. QED
      BY <2>1, <2>2
  <1>7. ASSUME NEW g \in Groups, DisableCallbacks(g) PROVE TypeInv'
    <2>1. pc' \in PCs /\ ~Injecting' /\ pc' \notin EnablePCs'
      BY <1>7, DisableGoesOn
    <2>2. /\ enabled' \subseteq enabled
          /\ failures' \subseteq failures \cup {"disable"}
          /\ UNCHANGED <<config, rates, object, process, subscribed, recording, exitHandler,
                         waiting, unmatched>>
      BY <1>7 DEF DisableCallbacks, Refused, OvertakesAfter
    <2>3. overtaken' \subseteq Launchers
      BY <1>7 DEF DisableCallbacks, OvertakesAfter, Running
    <2>4. QED
      BY <2>1, <2>2, <2>3
  <1>8. CASE Register
    <2>1. /\ pc = <<"register">> /\ pc' = <<"run">>
          /\ recording' \in BOOLEAN /\ handlers' \in {handlers, handlers + 1}
          /\ UNCHANGED <<config, rates, object, calls, destructor, subscribed, enabled,
                         launches, failures>>
      BY <1>8 DEF Register, Throws
    <2>2. QED
      BY <2>1
  <1>9. CASE Exit
    BY <1>9 DEF Exit
  <1>10. CASE Cleanup
    <2>1. pc' \in {<<"exit">>, <<"disable", "runtime">>, <<"flush">>}
      BY <1>10 DEF Cleanup
    <2>2. pc' \in PCs /\ ~Injecting' /\ pc' \notin EnablePCs'
      BY <2>1
    <2>3. handlers' \in 0 .. calls
      BY <1>10 DEF Cleanup
    <2>4. destructor' \in BOOLEAN
      BY <1>10, Zenon DEF Cleanup
    <2>5. /\ initialized' = FALSE
          /\ UNCHANGED <<config, rates, pcSamplingEnabled, subscriber, calls, cupti,
                         launches, failures>>
      BY <1>10 DEF Cleanup
    <2>6. QED
      BY <2>2, <2>3, <2>4, <2>5
  <1>11. CASE FlushAll
    BY <1>11 DEF FlushAll, Refused, Delivered, HandlerStates
  <1>12. CASE DisableActivity
    BY <1>12 DEF DisableActivity, Refused
  <1>13. CASE Unsubscribe
    BY <1>13 DEF Unsubscribe, Refused
  <1>14. CASE Gone
    BY <1>14 DEF Gone
  <1>15. ASSUME NEW t \in Launchers, Launch(t) PROVE TypeInv'
    BY <1>15 DEF Launch, HandlerStates
  <1>16. ASSUME NEW t \in Launchers, ExitHandler(t) PROVE TypeInv'
    BY <1>16, RatesAreNumbers DEF ExitHandler, HandlerStates
  <1>17. CASE Deliver
    BY <1>17 DEF Deliver, Delivered, Running, HandlerStates
  <1>18. CASE UNCHANGED vars
    BY <1>18 DEF vars
  <1>19. QED
    BY <1>1, <1>2, <1>3, <1>4, <1>5, <1>6, <1>7, <1>8, <1>9, <1>10, <1>11, <1>12,
       <1>13, <1>14, <1>15, <1>16, <1>17, <1>18 DEF Next

(* And they hold to begin with.                                            *)
LEMMA InitTyped == Init => TypeInv
  <1> SUFFICES ASSUME Init PROVE TypeInv
    OBVIOUS
  <1>1. pc = <<"run">> /\ pc \in PCs /\ pc \notin EnablePCs /\ ~Injecting
    BY DEF Init, PCs, Injecting, EnablePCs, Enable
  <1>2. handlers \in 0 .. calls /\ calls \in 0 .. MaxCalls
    BY DEF Init
  <1>3. QED
    BY <1>1, <1>2 DEF Init, TypeInv, TypeOK, HandlerStates

(* The types hold for every number of calls of InitializeInjection, and no *)
(* call leaves more handlers than there were calls.                        *)
THEOREM TypeCorrect == Spec => []TypeOK
  <1>1. TypeInv => TypeOK
    BY DEF TypeInv
  <1>2. QED
    BY <1>1, InitTyped, TypeStep, PTL DEF Spec

-----------------------------------------------------------------------------
(***************************************************************************)
(* The rates that are used, and the variables that are reported.           *)
(***************************************************************************)

(* Nothing is enabled, and no handler runs, before the variables are read. *)
ReadFirst ==
  /\ pc \in {<<"initialize">>, <<"isSupported">>, <<"subscribe">>} \cup EnablePCs
       => debugRead
  /\ enabled # {} \/ Running # {} => debugRead

(* What init_debug leaves behind. *)
ReadRight ==
  debugRead => /\ globals = Configured(env)
               /\ reported = Unrecognised(env) \cup Rejected(env)

RatesInv == ReadFirst /\ ReadRight /\ RatesAsConfigured

(* Every step keeps the rates right.                                       *)
LEMMA RatesStep == TypeInv /\ RatesInv /\ [Next]_vars => RatesInv'
  <1> SUFFICES ASSUME TypeInv, RatesInv, [Next]_vars PROVE RatesInv'
    OBVIOUS
  <1> USE DEF Goes, EnablePCs, Groups, After, Enable, Disable, RatesInv, ReadFirst,
              ReadRight, RatesAsConfigured, Running, config, cupti, launches
  <1>1. CASE InitializeInjection
    BY <1>1 DEF InitializeInjection
  <1>2. CASE InitDebug
    BY <1>2 DEF InitDebug
  <1>3. CASE Initialize
    BY <1>3 DEF Initialize
  <1>4. CASE IsSupported
    BY <1>4 DEF IsSupported, Throws
  <1>5. CASE Subscribe
    BY <1>5 DEF Subscribe, Throws
  <1>6. ASSUME NEW g \in Groups, EnableCallbacks(g) PROVE RatesInv'
    BY <1>6 DEF EnableCallbacks, Throws
  <1>7. ASSUME NEW g \in Groups, DisableCallbacks(g) PROVE RatesInv'
    <2>1. pc' \notin {<<"initialize">>, <<"isSupported">>, <<"subscribe">>} \cup EnablePCs
      BY <1>7, DisableGoesOn
    <2>2. /\ enabled' \subseteq enabled
          /\ UNCHANGED <<config, rates, exitHandler>>
      BY <1>7 DEF DisableCallbacks, OvertakesAfter
    <2>3. QED
      BY <2>1, <2>2
  <1>8. CASE Register
    BY <1>8 DEF Register, Throws
  <1>9. CASE Exit
    BY <1>9 DEF Exit
  <1>10. CASE Cleanup
    BY <1>10 DEF Cleanup
  <1>11. CASE FlushAll
    BY <1>11 DEF FlushAll, Delivered
  <1>12. CASE DisableActivity
    BY <1>12 DEF DisableActivity
  <1>13. CASE Unsubscribe
    BY <1>13 DEF Unsubscribe
  <1>14. CASE Gone
    BY <1>14 DEF Gone
  <1>15. ASSUME NEW t \in Launchers, Launch(t) PROVE RatesInv'
    BY <1>15 DEF Launch
  <1>16. ASSUME NEW t \in Launchers, ExitHandler(t) PROVE RatesInv'
    BY <1>16, RatesAreNumbers DEF ExitHandler, TypeInv, TypeOK
  <1>17. CASE Deliver
    BY <1>17 DEF Deliver, Delivered
  <1>18. CASE UNCHANGED vars
    BY <1>18 DEF vars
  <1>19. QED
    BY <1>1, <1>2, <1>3, <1>4, <1>5, <1>6, <1>7, <1>8, <1>9, <1>10, <1>11, <1>12,
       <1>13, <1>14, <1>15, <1>16, <1>17, <1>18 DEF Next

(* And they are right to begin with.                                       *)
LEMMA InitRight == Init => RatesInv
  BY DEF Init, RatesInv, ReadFirst, ReadRight, RatesAsConfigured, Running, EnablePCs, Enable

(* No thread comes to its rate limiter before the variables are read: it   *)
(* would keep the defaults, since applyRateLimitsOnce copies once.         *)
THEOREM RatesCopiedAsConfigured == Spec => []RatesAsConfigured
  <1>1. RatesInv => RatesAsConfigured
    BY DEF RatesInv
  <1>2. QED
    BY <1>1, InitTyped, InitRight, TypeStep, RatesStep, PTL DEF Spec

(* What a variable is used as when it is valid, and when it is not.        *)
LEMMA ValueUsed ==
  ASSUME NEW e, NEW name \in DOMAIN e, NEW valid, NEW default
  PROVE  ValueIf(e, name, valid, default) = IF e[name] \in valid THEN e[name] ELSE default
  BY DEF ValueIf

(* Whatever the environment holds, validateEnvVars names a variable exactly*)
(* when the default is used instead of its value, but for the two it does  *)
(* not name when they are 0 and for GRAPH_RATE_LIMIT, which it always names*)
THEOREM DefaultsAreReported == Spec => []DefaultsReported
  <1>1. TypeInv /\ RatesInv => DefaultsReported
    <2> SUFFICES ASSUME TypeInv, RatesInv, debugRead,
                        NEW name \in DOMAIN env \cap
                              {"RATE_LIMIT", "GRAPH_RATE_LIMIT", "SAMPLING_FACTOR",
                               "PC_SAMPLING_RATE", "PC_HW_BUFFER_MB"}
                 PROVE  LET defaulted == Used(env, name) # env[name]
                            silent == env[name] = 0
                                        /\ name \in {"SAMPLING_FACTOR", "PC_SAMPLING_RATE"} IN
                        name \in reported
                          <=> (defaulted /\ ~silent) \/ name = "GRAPH_RATE_LIMIT"
      BY DEF DefaultsReported
    <2>1. env[name] \in Int
      BY EnvsAssumption DEF TypeInv, TypeOK
    <2>2. name \in reported <=> name = "GRAPH_RATE_LIMIT" \/ Wrong(name, env[name])
      BY DEF RatesInv, ReadRight, Unrecognised, Rejected, knownVars, Wrong
    <2>3. CASE name = "RATE_LIMIT"
      <3>1. Wrong(name, env[name]) <=> env[name] \notin Positive
        BY <2>1, <2>3 DEF Wrong, Positive
      <3>2. Used(env, name) # env[name] <=> env[name] \notin Positive
        BY <2>3, ValueUsed DEF Used, EagerRate, Positive
      <3>3. QED
        BY <2>2, <2>3, <3>1, <3>2
    <2>4. CASE name = "GRAPH_RATE_LIMIT"
      BY <2>2, <2>4
    <2>5. CASE name = "SAMPLING_FACTOR"
      <3>1. Wrong(name, env[name]) <=> env[name] \notin ValidFactor \cup {0}
        BY <2>1, <2>5 DEF Wrong, ValidFactor
      <3>2. Used(env, name) # env[name] <=> env[name] \notin ValidFactor
        BY <2>5, ValueUsed DEF Used, SamplingFactor, ValidFactor
      <3>3. QED
        BY <2>2, <2>5, <3>1, <3>2
    <2>6. CASE name = "PC_SAMPLING_RATE"
      <3>1. Wrong(name, env[name]) <=> env[name] \notin Positive \cup {0}
        BY <2>1, <2>6 DEF Wrong, Positive
      <3>2. Used(env, name) # env[name] <=> env[name] \notin Positive
        BY <2>6, ValueUsed DEF Used, TargetRate, Positive
      <3>3. QED
        BY <2>2, <2>6, <3>1, <3>2
    <2>7. CASE name = "PC_HW_BUFFER_MB"
      <3>1. Wrong(name, env[name]) <=> env[name] \notin Positive \cup {0}
        BY <2>1, <2>7 DEF Wrong, Positive
      <3>2. Used(env, name) # env[name] <=> env[name] \notin Positive \cup {0}
        BY <2>7, ValueUsed DEF Used, HardwareBufferMB, Positive
      <3>3. QED
        BY <2>2, <2>7, <3>1, <3>2
    <2>8. QED
      BY <2>3, <2>4, <2>5, <2>6, <2>7
  <1>2. QED
    BY <1>1, InitTyped, InitRight, TypeStep, RatesStep, PTL DEF Spec

-----------------------------------------------------------------------------
(***************************************************************************)
(* What exit leaves behind.                                                *)
(***************************************************************************)

LaunchGroups == {"runtime", "launch", "graph"}
CleanupPCs == {Disable(g) : g \in Groups}
                \cup {<<"flush">>, <<"disableActivity">>, <<"unsubscribe">>}

(* Whoever has to clean up is still there.                                 *)
OwnerInv ==
  /\ initialized => destructor
  /\ pc \in {<<"isSupported">>, <<"subscribe">>} \cup EnablePCs => initialized
  /\ pc = <<"gone">> => ~initialized

(* What CUPTI still has records of. *)
Undelivered == waiting \cup {t \in Launchers : exitHandler[t] = "buffered"}

(* Group by group cleanup disables the launches, and only then flushes.    *)
NoMoreLaunches ==
  /\ pc = Disable("launch") => "runtime" \notin enabled
  /\ pc = Disable("graph") => enabled \cap {"runtime", "launch"} = {}
  /\ pc \in {Disable("resource"), <<"flush">>, <<"disableActivity">>, <<"unsubscribe">>}
       => enabled \cap LaunchGroups = {} /\ Running \subseteq overtaken
  /\ pc \in {<<"disableActivity">>, <<"unsubscribe">>} => Undelivered = {}
  /\ pc = <<"unsubscribe">> => ~recording

(* Handlers that run without a subscriber, and those that find the record  *)
(* of their kernel gone, have been overtaken.                              *)
OvertakenInv ==
  /\ ~subscribed => Running \subseteq overtaken
  /\ {t \in Launchers : exitHandler[t] = "delivered"} \subseteq overtaken
  /\ unmatched \subseteq overtaken

(* Between set-ups, and once it has been cleaned up, nothing is there.     *)
NothingLeft ==
  ~initialized /\ pc \notin CleanupPCs => ~subscribed /\ ~recording /\ Undelivered = {}

ExitInv ==
  /\ OwnerInv
  /\ failures = {} => /\ subscriber <=> subscribed
                      /\ NoMoreLaunches
                      /\ OvertakenInv
                      /\ NothingLeft

(* Every step keeps it.                                                    *)
LEMMA ExitStep == TypeInv /\ ExitInv /\ [Next]_vars => ExitInv'
  <1> SUFFICES ASSUME TypeInv, ExitInv, [Next]_vars PROVE ExitInv'
    OBVIOUS
  <1> USE DEF Goes, EnablePCs, CleanupPCs, LaunchGroups, Groups, After, Enable, Disable,
              ExitInv, OwnerInv, NoMoreLaunches, OvertakenInv, NothingLeft, TypeInv, TypeOK,
              config, object, process, cupti
  <1>a. UNCHANGED launches => UNCHANGED <<Running, Undelivered, overtaken, unmatched>>
                              /\ {t \in Launchers : exitHandler'[t] = "delivered"}
                                   = {t \in Launchers : exitHandler[t] = "delivered"}
    BY DEF launches, Running, Undelivered
  <1>1. CASE InitializeInjection
    BY <1>1, <1>a DEF InitializeInjection
  <1>2. CASE InitDebug
    BY <1>2, <1>a DEF InitDebug
  <1>3. CASE Initialize
    BY <1>3, <1>a DEF Initialize
  <1>4. CASE IsSupported
    BY <1>4, <1>a DEF IsSupported, Throws
  <1>5. CASE Subscribe
    BY <1>5, <1>a DEF Subscribe, Throws
  <1>6. ASSUME NEW g \in Groups, EnableCallbacks(g) PROVE ExitInv'
    BY <1>6, <1>a DEF EnableCallbacks, Throws
  <1>7. ASSUME NEW g \in Groups, DisableCallbacks(g) PROVE ExitInv'
    <2>1. /\ UNCHANGED <<Running, Undelivered, unmatched>>
          /\ {t \in Launchers : exitHandler'[t] = "delivered"}
               = {t \in Launchers : exitHandler[t] = "delivered"}
          /\ overtaken \subseteq overtaken'
          /\ g = "graph" /\ failures' = {} => Running \subseteq overtaken'
      BY <1>7 DEF DisableCallbacks, OvertakesAfter, Refused, Running, Undelivered, launches
    <2>2. failures' = {} => failures = {} /\ enabled' \in {enabled, enabled \ {g}}
                            /\ (g # "resource" => enabled' = enabled \ {g})
                            /\ pc' = IF g = "resource" THEN <<"flush">> ELSE Disable(After[g])
      BY <1>7 DEF DisableCallbacks, Refused
    <2>3. pc = Disable(g) /\ UNCHANGED <<config, rates, object, process, subscribed, recording>>
      BY <1>7 DEF DisableCallbacks
    <2>4. OwnerInv'
      BY <2>3, <1>7, DisableGoesOn
    <2>5. failures' = {} => NoMoreLaunches'
      BY <2>1, <2>2, <2>3
    <2>6. failures' = {} => OvertakenInv'
      BY <2>1, <2>2, <2>3
    <2>7. failures' = {} => NothingLeft' /\ (subscriber' <=> subscribed')
      BY <2>1, <2>2, <2>3
    <2>8. QED
      BY <2>4, <2>5, <2>6, <2>7
  <1>8. CASE Register
    BY <1>8, <1>a DEF Register, Throws
  <1>9. CASE Exit
    BY <1>9, <1>a DEF Exit
  <1>10. CASE Cleanup
    BY <1>10, <1>a DEF Cleanup
  <1>11. CASE FlushAll
    <2>1. CASE Delivered /\ UNCHANGED <<overtaken, failures>>
      <3>1. /\ Undelivered' = {} /\ Running' = Running
            /\ {t \in Launchers : exitHandler'[t] = "delivered"} \subseteq Running
            /\ UNCHANGED unmatched
        BY <2>1 DEF Delivered, Running, Undelivered
      <3>2. QED
        BY <1>11, <2>1, <3>1 DEF FlushAll
    <2>2. CASE Refused("flush", TRUE) /\ UNCHANGED launches
      BY <1>11, <2>2 DEF FlushAll, Refused
    <2>3. QED
      BY <1>11, <2>1, <2>2 DEF FlushAll
  <1>12. CASE DisableActivity
    BY <1>12, <1>a DEF DisableActivity, Refused
  <1>13. CASE Unsubscribe
    BY <1>13, <1>a DEF Unsubscribe, Refused
  <1>14. CASE Gone
    BY <1>14, <1>a DEF Gone
  <1>15. ASSUME NEW t \in Launchers, Launch(t) PROVE ExitInv'
    <2>1. /\ enabled \cap LaunchGroups # {} /\ subscribed
          /\ UNCHANGED <<config, pc, rates, object, process, cupti, waiting, unmatched,
                         overtaken, failures>>
      BY <1>15 DEF Launch
    <2>2. failures = {} => initialized \/ pc \in CleanupPCs
      BY <2>1
    <2>3. {u \in Launchers : exitHandler'[u] = "delivered"}
            \subseteq {u \in Launchers : exitHandler[u] = "delivered"}
      BY <1>15 DEF Launch
    <2>4. QED
      BY <2>1, <2>2, <2>3
  <1>16. ASSUME NEW t \in Launchers, ExitHandler(t) PROVE ExitInv'
    <2>1. UNCHANGED <<config, pc, object, process, cupti, overtaken, failures>>
      BY <1>16 DEF ExitHandler
    <2>2. /\ Running' \subseteq Running /\ Undelivered' \subseteq Undelivered
          /\ {u \in Launchers : exitHandler'[u] = "delivered"}
               \subseteq {u \in Launchers : exitHandler[u] = "delivered"}
      BY <1>16 DEF ExitHandler, Running, Undelivered
    <2>3. unmatched' \subseteq unmatched \cup {u \in Launchers : exitHandler[u] = "delivered"}
      BY <1>16 DEF ExitHandler
    <2>4. QED
      BY <2>1, <2>2, <2>3
  <1>17. CASE Deliver
    <2>1. /\ Undelivered' = {} /\ Running' = Running
          /\ {t \in Launchers : exitHandler'[t] = "delivered"} \subseteq Running
          /\ overtaken' = overtaken \cup Running
          /\ UNCHANGED <<unmatched, pc, object, process, cupti, failures>>
      BY <1>17 DEF Deliver, Delivered, Running, Undelivered
    <2>2. QED
      BY <2>1
  <1>18. CASE UNCHANGED vars
    BY <1>18, <1>a DEF vars
  <1>19. QED
    BY <1>1, <1>2, <1>3, <1>4, <1>5, <1>6, <1>7, <1>8, <1>9, <1>10, <1>11, <1>12,
       <1>13, <1>14, <1>15, <1>16, <1>17, <1>18 DEF Next

(* And it holds to begin with.                                             *)
LEMMA InitClean == Init => ExitInv
  BY DEF Init, ExitInv, OwnerInv, NoMoreLaunches, OvertakenInv, NothingLeft, Running,
         Undelivered, EnablePCs, Enable, Disable

(* When the process is gone and CUPTI refused nothing, every subscription  *)
(* and every kind of activity that some call of InitializeInjection set up,*)
(* one that failed half way included, has been undone.                     *)
THEOREM ExitUndoesEverything == Spec => []ExitLeavesNothing
  <1>1. ExitInv => ExitLeavesNothing
    BY DEF ExitInv, OwnerInv, NothingLeft, CleanupPCs, Disable, ExitLeavesNothing
  <1>2. QED
    BY <1>1, InitTyped, InitClean, TypeStep, ExitStep, PTL DEF Spec

(* Cleanup disables the launches group by group before it flushes.  However*)
(* the threads that still launch interleave with it, at the end CUPTI has  *)
(* no record left of a launch that was announced, and the only ones that   *)
(* were announced without their kernel are those whose handler was running *)
(* when a buffer was completed or when the callbacks were disabled.        *)
THEOREM LastLaunchesAreReported == Spec => []LastLaunchesReported
  <1>1. ExitInv => LastLaunchesReported
    BY DEF ExitInv, OwnerInv, OvertakenInv, NothingLeft, Undelivered, CleanupPCs, Disable,
           LastLaunchesReported
  <1>2. QED
    BY <1>1, InitTyped, InitClean, TypeStep, ExitStep, PTL DEF Spec

-----------------------------------------------------------------------------
(***************************************************************************)
(* Setting a context up, and telling consumers: ContextMetadata, for any   *)
(* numbers of threads, contexts and consumers.                             *)
(***************************************************************************)

(* Whoever sets a context up holds the mutex, and the context is not taken *)
(* for set up.                                                             *)
LockInv ==
  \A t \in Threads :
    thread[t].pc \in InitPCs =>
      contextMutex = t /\ thread[t].ctx \in tried \ contextInitialized

(* The buffers of the context are made one after the other.                *)
Building == {"free", "alloc", "fill", "gpuConfig"}
RoomInv ==
  /\ RoomForStallReasons
  /\ \A t \in Threads :
       /\ thread[t].pc \in {"attributes", "output"} \cup Building
            => configData[thread[t].ctx].stallReasons = StallReasons[thread[t].ctx]
       /\ thread[t].pc \in {"output"} \cup Building
            => configData[thread[t].ctx].sampling = StallReasons[thread[t].ctx]
       /\ thread[t].pc \in Building
            => configData[thread[t].ctx].output = StallReasons[thread[t].ctx]

(* The table is whole, or somebody is just building it.                    *)
BuildInv ==
  /\ buf = "freed" => \E t \in Threads : thread[t].pc = "alloc"
  /\ buf = "zeroed" => \E t \in Threads : thread[t].pc = "fill"
  /\ TableWhole

(* The count of consumers is a number.                                     *)
LEMMA SemIsNumber == MTypeOK => Sem \in Nat
  BY ConsumersAssumption, FS_Subset, FS_CardinalityType DEF MTypeOK, Sem

(* What there is of a thread, and of the data of a context.                *)
ThreadStates ==
  [pc : {"idle"} \cup InitPCs \cup EmitPCs, ctx : Contexts,
   refresh : BOOLEAN, join : BOOLEAN]
ContextData == [stallReasons : Nat, sampling : Nat, output : Nat]

(* Its parts, and what becomes of it in a step that sets several of them.  *)
LEMMA ThreadParts ==
  ASSUME NEW state \in ThreadStates, NEW c \in Contexts, NEW r \in BOOLEAN, NEW j \in BOOLEAN,
         NEW p \in {"idle"} \cup InitPCs \cup EmitPCs
  PROVE  /\ state.refresh \in BOOLEAN /\ state.join \in BOOLEAN /\ state.ctx \in Contexts
         /\ [state EXCEPT !.pc = p] \in ThreadStates
         /\ [state EXCEPT !.pc = p, !.ctx = c] \in ThreadStates
         /\ [state EXCEPT !.pc = p, !.refresh = r] \in ThreadStates
         /\ [state EXCEPT !.pc = p, !.join = j] \in ThreadStates
         /\ [state EXCEPT !.pc = p, !.refresh = r, !.join = j] \in ThreadStates
  BY Zenon DEF ThreadStates

(* Every step keeps the types.                                             *)
LEMMA MetadataTypeStep ==
  ASSUME MTypeOK, LockInv, [MNext]_mvars
  PROVE  MTypeOK'
  <1> USE NobodyAssumption, ConsumersAssumption, StallReasonsAssumption
  <1> USE DEF MTypeOK, setup, emission,
              list, world, InitPCs, EmitPCs,
              Moves, Returns, Told, ShowTable,
              Readable, NoData
  <1>a. \A t \in Threads : thread[t] \in ThreadStates /\ thread[t].ctx \in Contexts
    BY DEF ThreadStates
  <1>b. \A c \in Contexts : configData[c] \in ContextData
    BY DEF ContextData
  <1>c. ASSUME NEW t \in Threads, Returns(t)
        PROVE  thread' \in [Threads -> ThreadStates]
    <2>1. thread' = [thread EXCEPT ![t] = [thread[t] EXCEPT !.pc = "idle", !.refresh = FALSE,
                                                           !.join = FALSE]]
      BY <1>c, Zenon
    <2>2. QED
      BY <2>1, <1>a, ThreadParts
  <1>1. ASSUME NEW t \in Threads, NEW c \in Contexts, InitializeContext(t, c)
        PROVE  MTypeOK'
    <2>1. thread' = [thread EXCEPT ![t] = [thread[t] EXCEPT !.pc = "stallReasons", !.ctx = c]]
      BY <1>1, Zenon DEF InitializeContext
    <2>2. thread' \in [Threads -> ThreadStates]
      BY <2>1, <1>a, ThreadParts
    <2>3. configData' \in [Contexts -> ContextData]
      BY <1>1 DEF InitializeContext, ContextData
    <2>4. QED
      BY <1>1, <2>2, <2>3 DEF InitializeContext, ThreadStates, ContextData
  <1>2. ASSUME NEW t \in Threads, InitializeThrows(t) PROVE MTypeOK'
    BY <1>2 DEF InitializeThrows
  <1>3. ASSUME NEW t \in Threads, ConfigureStallReasons(t)
        PROVE  MTypeOK'
    <2>1. thread' \in [Threads -> ThreadStates]
      BY <1>3 DEF ConfigureStallReasons, ThreadStates
    <2>2. configData' \in [Contexts -> ContextData]
      BY <1>3, <1>a DEF ConfigureStallReasons, ContextData
    <2>3. QED
      BY <1>3, <2>1, <2>2 DEF ConfigureStallReasons, ThreadStates, ContextData
  <1>4. ASSUME NEW t \in Threads, ConfigureAttributes(t) PROVE MTypeOK'
    <2>1. thread' \in [Threads -> ThreadStates]
      BY <1>4 DEF ConfigureAttributes, ThreadStates
    <2>2. configData' \in [Contexts -> ContextData]
      BY <1>4, <1>a DEF ConfigureAttributes, ContextData
    <2>3. QED
      BY <1>4, <2>1, <2>2 DEF ConfigureAttributes, ThreadStates, ContextData
  <1>5. ASSUME NEW t \in Threads, AllocOutputData(t) PROVE MTypeOK'
    <2>1. thread' \in [Threads -> ThreadStates]
      BY <1>5 DEF AllocOutputData, ThreadStates
    <2>2. configData' \in [Contexts -> ContextData]
      BY <1>5, <1>a DEF AllocOutputData, ContextData
    <2>3. QED
      BY <1>5, <2>1, <2>2 DEF AllocOutputData, ThreadStates, ContextData
  <1>6. ASSUME NEW t \in Threads, BuildFree(t) PROVE MTypeOK'
    BY <1>6 DEF BuildFree
  <1>7. ASSUME NEW t \in Threads, BuildAlloc(t) PROVE MTypeOK'
    BY <1>7 DEF BuildAlloc
  <1>8. ASSUME NEW t \in Threads, BuildFill(t) PROVE MTypeOK'
    BY <1>8 DEF BuildFill
  <1>9. ASSUME NEW t \in Threads, AnnounceConfig(t) PROVE MTypeOK'
    <2>1. thread' \in [Threads -> ThreadStates]
      BY <1>9 DEF AnnounceConfig, ThreadStates
    <2>2. thread[t].ctx \in tried
      BY <1>9 DEF AnnounceConfig, LockInv
    <2>3. /\ loadedConfigs' = loadedConfigs \cup {thread[t].ctx}
          /\ stale' = stale \ {thread[t].ctx}
          /\ contextInitialized' = contextInitialized \cup {thread[t].ctx}
          /\ contextMutex' = Nobody
          /\ UNCHANGED <<tried, configData, buf, refreshDue, prevStallSem, prevConfigSem,
                         attached, table, raced>>
      BY <1>9 DEF AnnounceConfig
    <2>4. configs' \in [Consumers -> SUBSET loadedConfigs']
      BY <1>9, <2>3 DEF AnnounceConfig
    <2>5. QED
      BY <2>1, <2>2, <2>3, <2>4 DEF ThreadStates
  <1>10. ASSUME NEW t \in Threads, EmitMetadata(t) PROVE MTypeOK'
    <2>1. thread' = [thread EXCEPT ![t] = [thread[t] EXCEPT !.pc = "stall",
                                                           !.refresh = refreshDue]]
      BY <1>10, Zenon DEF EmitMetadata
    <2>2. thread' \in [Threads -> ThreadStates]
      BY <2>1, <1>a, ThreadParts
    <2>3. QED
      BY <1>10, <2>2 DEF EmitMetadata, ThreadStates
  <1>11. ASSUME NEW t \in Threads, EmitStallReasonMap(t) PROVE MTypeOK'
    <2>1. thread' \in [Threads -> ThreadStates]
      BY <1>11 DEF EmitStallReasonMap, ThreadStates
    <2>2. table' \in [Consumers -> {"empty", "names", "rubbish"}] /\ raced' \in BOOLEAN
      BY <1>11 DEF EmitStallReasonMap
    <2>3. prevStallSem' \in Nat
      BY <1>11, SemIsNumber DEF EmitStallReasonMap
    <2>4. QED
      BY <1>11, <2>1, <2>2, <2>3 DEF EmitStallReasonMap, ThreadStates
  <1>12. ASSUME NEW t \in Threads, EmitConfigs(t) PROVE MTypeOK'
    <2>1. prevConfigSem' \in Nat
      BY <1>12, SemIsNumber DEF EmitConfigs
    <2>2. thread' \in [Threads -> ThreadStates]
      <3> DEFINE join == Sem > prevConfigSem
      <3>1. join \in BOOLEAN
        BY SemIsNumber
      <3> HIDE DEF join
      <3>2. CASE thread' = [thread EXCEPT ![t].pc = "replay", ![t].join = join]
        <4>1. thread' = [thread EXCEPT ![t] = [thread[t] EXCEPT !.pc = "replay",
                                                               !.join = join]]
          BY <3>2, Zenon
        <4>2. QED
          BY <4>1, <3>1, <1>a, ThreadParts
      <3>3. QED
        BY <1>12, <3>2, <1>c, Zenon DEF join, EmitConfigs
    <2>3. QED
      BY <1>12, <2>1, <2>2 DEF EmitConfigs, ThreadStates
  <1>13. ASSUME NEW t \in Threads, ReplayConfigs(t) PROVE MTypeOK'
    <2>1. thread' \in [Threads -> ThreadStates]
      BY <1>13, <1>c DEF ReplayConfigs
    <2>2. configs' \in [Consumers -> SUBSET loadedConfigs] /\ stale' \subseteq stale
      BY <1>13 DEF ReplayConfigs
    <2>3. QED
      BY <1>13, <2>1, <2>2 DEF ReplayConfigs, ThreadStates
  <1>14. ASSUME NEW k \in Consumers, Attach(k) \/ Detach(k)
         PROVE  MTypeOK'
    BY <1>14 DEF Attach, Detach, Comes
  <1>15. CASE PeriodPasses
    BY <1>15 DEF PeriodPasses
  <1>16. CASE UNCHANGED mvars
    BY <1>16 DEF mvars
  <1>17. QED
    BY <1>1, <1>2, <1>3, <1>4, <1>5, <1>6, <1>7, <1>8, <1>9, <1>10, <1>11, <1>12,
       <1>13, <1>14, <1>15, <1>16
       DEF MNext, InitStep, EmitStep

(* Together they are inductive.                                            *)
MetadataInv == LockInv /\ RoomInv /\ BuildInv

(* Every step of set-up and replay keeps it. *)
LEMMA MetadataStep ==
  ASSUME MTypeOK, MetadataInv, [MNext]_mvars
  PROVE  MetadataInv'
  <1> USE NobodyAssumption, StallReasonsAssumption
  <1> USE DEF setup, emission, list,
              world, InitPCs, Moves, Building, MetadataInv, LockInv,
              RoomInv, BuildInv, RoomForStallReasons, TableWhole
  <1>a. /\ thread \in [Threads -> ThreadStates]
        /\ configData \in [Contexts -> ContextData]
        /\ \A t \in Threads : thread[t].ctx \in Contexts
        /\ contextInitialized \subseteq tried /\ tried \subseteq Contexts
        /\ table \in [Consumers -> {"empty", "names", "rubbish"}]
    BY DEF MTypeOK, ThreadStates, ContextData
  <1>1. ASSUME NEW t \in Threads, NEW c \in Contexts, InitializeContext(t, c)
        PROVE  MetadataInv'
    BY <1>1, <1>a DEF InitializeContext, ThreadStates, ContextData
  <1>2. ASSUME NEW t \in Threads, InitializeThrows(t) PROVE MetadataInv'
    BY <1>2, <1>a DEF InitializeThrows, ThreadStates
  <1>3. ASSUME NEW t \in Threads, ConfigureStallReasons(t)
        PROVE  MetadataInv'
    BY <1>3, <1>a DEF ConfigureStallReasons, ThreadStates, ContextData
  <1>4. ASSUME NEW t \in Threads, ConfigureAttributes(t) PROVE MetadataInv'
    BY <1>4, <1>a DEF ConfigureAttributes, ThreadStates, ContextData
  <1>5. ASSUME NEW t \in Threads, AllocOutputData(t) PROVE MetadataInv'
    BY <1>5, <1>a DEF AllocOutputData, ThreadStates, ContextData
  <1>6. ASSUME NEW t \in Threads, BuildFree(t) PROVE MetadataInv'
    BY <1>6, <1>a DEF BuildFree, ThreadStates
  <1>7. ASSUME NEW t \in Threads, BuildAlloc(t) PROVE MetadataInv'
    BY <1>7, <1>a DEF BuildAlloc, ThreadStates
  <1>8. ASSUME NEW t \in Threads, BuildFill(t) PROVE MetadataInv'
    BY <1>8, <1>a DEF BuildFill, ThreadStates
  <1>9. ASSUME NEW t \in Threads, AnnounceConfig(t) PROVE MetadataInv'
    BY <1>9, <1>a DEF AnnounceConfig, ThreadStates
  <1>10. ASSUME NEW t \in Threads, EmitMetadata(t) PROVE MetadataInv'
    BY <1>10, <1>a DEF EmitMetadata, ThreadStates
  <1>11. ASSUME NEW t \in Threads, EmitStallReasonMap(t) PROVE MetadataInv'
    <2>1. /\ thread[t].pc = "stall"
          /\ thread' = [thread EXCEPT ![t].pc = "config"]
          /\ UNCHANGED <<contextMutex, tried, contextInitialized, configData, buf>>
      BY <1>11 DEF EmitStallReasonMap
    <2>2. /\ LockInv' /\ RoomInv'
          /\ buf' = "freed" => \E u \in Threads : thread'[u].pc = "alloc"
          /\ buf' = "zeroed" => \E u \in Threads : thread'[u].pc = "fill"
      BY <2>1, <1>a DEF ThreadStates
    <2>3. TableWhole'
      <3>1. CASE UNCHANGED <<table, raced>>
        BY <3>1
      <3>2. CASE buf # "null" /\ ShowTable
        <4> SUFFICES ASSUME ~raced' PROVE \A k \in Consumers : table'[k] # "rubbish"
          OBVIOUS
        <4>1. ~raced /\ \A u \in Threads : thread[u].pc \notin {"alloc", "fill"}
          BY <3>2 DEF ShowTable
        <4>2. buf = "filled"
          BY <4>1, <3>2 DEF MTypeOK
        <4>3. table' = [k \in Consumers |->
                         IF k \in attached /\ table[k] = "empty" THEN "names" ELSE table[k]]
          BY <3>2, <4>2 DEF ShowTable, Readable
        <4>4. QED
          BY <4>1, <4>3
      <3>3. QED
        BY <1>11, <3>1, <3>2, Zenon DEF EmitStallReasonMap
    <2>4. QED
      BY <2>2, <2>3
  <1>12. ASSUME NEW t \in Threads, EmitConfigs(t) PROVE MetadataInv'
    BY <1>12, <1>a DEF EmitConfigs, Returns, ThreadStates
  <1>13. ASSUME NEW t \in Threads, ReplayConfigs(t) PROVE MetadataInv'
    BY <1>13, <1>a DEF ReplayConfigs, Returns, ThreadStates
  <1>14. ASSUME NEW k \in Consumers, Attach(k) \/ Detach(k)
         PROVE  MetadataInv'
    BY <1>14, <1>a DEF Attach, Detach, Comes
  <1>15. CASE PeriodPasses
    BY <1>15 DEF PeriodPasses
  <1>16. CASE UNCHANGED mvars
    BY <1>16 DEF mvars
  <1>17. QED
    BY <1>1, <1>2, <1>3, <1>4, <1>5, <1>6, <1>7, <1>8, <1>9, <1>10, <1>11, <1>12,
       <1>13, <1>14, <1>15, <1>16
       DEF MNext, InitStep, EmitStep

(* All of it holds to begin with.                                          *)
LEMMA MetadataInit ==
  ASSUME MInit
  PROVE  MTypeOK /\ MetadataInv
  <1> USE DEF MInit, NoData
  <1>1. PICK c \in Contexts : thread = [t \in Threads |-> [pc |-> "idle", ctx |-> c,
                                                          refresh |-> FALSE, join |-> FALSE]]
    OBVIOUS
  <1>2. thread \in [Threads -> ThreadStates]
    <2>1. [pc |-> "idle", ctx |-> c, refresh |-> FALSE, join |-> FALSE] \in ThreadStates
      BY Zenon DEF ThreadStates
    <2>2. QED
      BY <1>1, <2>1
  <1>3. MTypeOK
    BY <1>2 DEF MTypeOK, ThreadStates
  <1>4. MetadataInv
    BY <1>1 DEF MetadataInv, LockInv, RoomInv, BuildInv, Building, InitPCs,
                RoomForStallReasons, TableWhole
  <1>5. QED
    BY <1>3, <1>4

(* It holds throughout.                                                    *)
LEMMA MetadataHolds == MSpec => [](MTypeOK /\ MetadataInv)
  <1>1. MTypeOK /\ MetadataInv /\ [MNext]_mvars
          => (MTypeOK /\ MetadataInv)'
    BY MetadataTypeStep, MetadataStep DEF MetadataInv
  <1>2. MInit => MTypeOK /\ MetadataInv
    BY MetadataInit
  <1>3. QED
    BY <1>1, <1>2, PTL DEF MSpec

(* Types of ContextMetadata; nothing is listed, or known to a consumer,    *)
(* that no thread has tried to set up.                                     *)
THEOREM MetadataTypeCorrect == MSpec => []MTypeOK
  BY MetadataHolds, PTL

(* Every context that is taken for set up has buffers with room for as many*)
(* stall reasons as CUPTI writes per record, whoever set it up, however    *)
(* often, and whatever became of earlier attempts.                         *)
THEOREM BuffersHaveRoom == MSpec => []RoomForStallReasons
  <1>1. MetadataInv => RoomForStallReasons
    BY DEF MetadataInv, RoomInv
  <1>2. QED
    BY <1>1, MetadataHolds, PTL

(* No consumer is left with half a table, or with memory that was freed,   *)
(* unless it was shown the table at the very moment a context was being set*)
(* up: outside that window the table is whole.                             *)
THEOREM TablesAreWhole == MSpec => []TableWhole
  <1>1. MetadataInv => TableWhole
    BY DEF MetadataInv, BuildInv
  <1>2. QED
    BY <1>1, MetadataHolds, PTL

=============================================================================
