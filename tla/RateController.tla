--------------------------- MODULE RateController ---------------------------
(***************************************************************************)
(* The controller that steers how often PC sampling windows open           *)
(* (PCRateController and controllerMaybeUpdate, src/src/cupti.cpp).  Every *)
(* application thread calls it when it closes a window; nothing is locked: *)
(* the threads share five atomics, and meet between any two accesses.      *)
(*                                                                         *)
(* Times and sample counts are uint64_t, whose subtraction wraps.  The     *)
(* probability is a level, each factor of the step clamp one level.        *)
(***************************************************************************)
EXTENDS Integers

CONSTANTS
  Threads,
  Word,         (* 2^64 in the code                                        *)
  Period,       (* kPCControlPeriodNs                                      *)
  Target,       (* targetRate, samples a tick                              *)
  MaxLevel,     (* kPCProbMax; kPCProbMin is level 0                       *)
  MaxTime,      (* bound: ticks in a behaviour                             *)
  MaxSamples    (* bound: samples in a behaviour                           *)

ASSUME WordAssumption ==
  /\ Word \in Nat /\ MaxTime \in Nat /\ MaxSamples \in Nat
  /\ MaxTime < Word /\ MaxSamples < Word
ASSUME PeriodAssumption == Period \in Nat \ {0} /\ Period < Word
ASSUME TargetAssumption == Target \in Nat \ {0} /\ MaxLevel \in Nat

VARIABLES
  clock,
  samplesTotal,
  lastCheckNs,
  lastCheckTotal,
  probability,
  thread,       (* the locals of each call to controllerMaybeUpdate        *)
  seen,         (* history: samples that have been in a delta              *)
  overtaken,    (* history: who loaded the total before another's exchange *)
  late          (* history: the latest exchange was of one of those        *)

shared == <<samplesTotal, lastCheckNs, lastCheckTotal, probability>>
history == <<seen, overtaken, late>>
vars == <<clock, shared, thread, history>>

Words == 0 .. (Word - 1)

PCs == {"idle", "loadLast", "exchangeTime", "loadTotal", "exchangeTotal", "adjust",
        "store"}

ThreadState == [pc : PCs, now : Words, last : Words, total : Words, delta : Words,
                oldP : 0 .. MaxLevel]

(* Counters are words, and the probability is in its range. *)
TypeOK ==
  /\ clock \in 0 .. MaxTime
  /\ samplesTotal \in 0 .. MaxSamples
  /\ lastCheckNs \in Words
  /\ lastCheckTotal \in Words
  /\ probability \in 0 .. MaxLevel
  /\ thread \in [Threads -> ThreadState]
  /\ seen \in 0 .. MaxSamples
  /\ overtaken \subseteq Threads
  /\ late \in BOOLEAN

(* init_debug has stored the time and the first probability. *)
Init ==
  /\ clock = 0
  /\ samplesTotal = 0
  /\ lastCheckNs = 0
  /\ lastCheckTotal = 0
  /\ probability \in 0 .. MaxLevel
  /\ thread = [t \in Threads |-> [pc |-> "idle", now |-> 0, last |-> 0,
                                  total |-> 0, delta |-> 0, oldP |-> 0]]
  /\ seen = 0
  /\ overtaken = {}
  /\ late = FALSE

-----------------------------------------------------------------------------

(* Sum and difference of two uint64_t. *)
Plus(a, b) == IF a + b >= Word THEN a + b - Word ELSE a + b
Minus(a, b) == IF a >= b THEN a - b ELSE a - b + Word

Elapsed(t) == Minus(thread[t].now, thread[t].last)

(* The observed rate is delta / Elapsed; an error of a quarter is tolerated. *)
TooFast(t) == 4 * thread[t].delta > 5 * Target * Elapsed(t)
TooSlow(t) == 4 * thread[t].delta < 3 * Target * Elapsed(t)

Stepped(t) ==
  IF TooSlow(t)
  THEN IF thread[t].oldP < MaxLevel THEN thread[t].oldP + 1 ELSE MaxLevel
  ELSE IF thread[t].oldP > 0 THEN thread[t].oldP - 1 ELSE 0

-----------------------------------------------------------------------------

(* now = nowNs() *)
ReadClock(t) ==
  /\ thread[t].pc = "idle"
  /\ thread' = [thread EXCEPT ![t].pc = "loadLast", ![t].now = clock]
  /\ UNCHANGED <<clock, shared, history>>

(* Fault: the period is not waited for.                                    *)
LoadLastAnyTime(t) ==
  /\ thread[t].pc = "loadLast"
  /\ thread' = [thread EXCEPT ![t].pc = "exchangeTime", ![t].last = lastCheckNs]
  /\ UNCHANGED <<clock, shared, history>>

(* last = lastCheckNs; return if the period is not over. *)
LoadLast(t) ==
  /\ thread[t].pc = "loadLast"
  /\ thread' = [thread EXCEPT
       ![t].pc = IF Minus(thread[t].now, lastCheckNs) < Period THEN "idle"
                 ELSE "exchangeTime",
       ![t].last = lastCheckNs]
  /\ UNCHANGED <<clock, shared, history>>

(* compare_exchange_strong; whoever fails leaves the update to the others. *)
ExchangeTime(t) ==
  /\ thread[t].pc = "exchangeTime"
  /\ IF lastCheckNs = thread[t].last
     THEN /\ lastCheckNs' = thread[t].now
          /\ thread' = [thread EXCEPT ![t].pc = "loadTotal"]
     ELSE /\ thread' = [thread EXCEPT ![t].pc = "idle"]
          /\ UNCHANGED lastCheckNs
  /\ UNCHANGED <<clock, samplesTotal, lastCheckTotal, probability, history>>

LoadTotal(t) ==
  /\ thread[t].pc = "loadTotal"
  /\ thread' = [thread EXCEPT ![t].pc = "exchangeTotal", ![t].total = samplesTotal]
  /\ UNCHANGED <<clock, shared, history>>

(* What an exchange of t means for the deltas: the samples up to the total *)
(* it has loaded have been seen, and a thread that has loaded but not yet  *)
(* exchanged is overtaken.                                                 *)
Exchanged(t) ==
  /\ seen' = IF thread[t].total > seen THEN thread[t].total ELSE seen
  /\ overtaken' = {u \in Threads \ {t} : thread[u].pc = "exchangeTotal"}
  /\ late' = (t \in overtaken)

(* Fault: the total is read again.                                         *)
ExchangeTotalAgain(t) ==
  /\ thread[t].pc = "exchangeTotal"
  /\ lastCheckTotal' = samplesTotal
  /\ thread' = [thread EXCEPT ![t].pc = "adjust",
                              ![t].delta = Minus(thread[t].total, lastCheckTotal)]
  /\ Exchanged(t)
  /\ UNCHANGED <<clock, samplesTotal, lastCheckNs, probability>>

(* delta = total - lastCheckTotal.exchange(total) *)
ExchangeTotal(t) ==
  /\ thread[t].pc = "exchangeTotal"
  /\ lastCheckTotal' = thread[t].total
  /\ thread' = [thread EXCEPT ![t].pc = "adjust",
                              ![t].delta = Minus(thread[t].total, lastCheckTotal)]
  /\ Exchanged(t)
  /\ UNCHANGED <<clock, samplesTotal, lastCheckNs, probability>>

(* Return if the error is tolerable, or load the probability. *)
Adjust(t) ==
  /\ thread[t].pc = "adjust"
  /\ IF TooFast(t) \/ TooSlow(t)
     THEN thread' = [thread EXCEPT ![t].pc = "store", ![t].oldP = probability]
     ELSE thread' = [thread EXCEPT ![t].pc = "idle"]
  /\ UNCHANGED <<clock, shared, history>>

(* Fault: a step is not kept within the range.                             *)
StoreUnclamped(t) ==
  /\ thread[t].pc = "store"
  /\ probability' = thread[t].oldP + (IF TooSlow(t) THEN 1 ELSE -1)
  /\ thread' = [thread EXCEPT ![t].pc = "idle"]
  /\ UNCHANGED <<clock, samplesTotal, lastCheckNs, lastCheckTotal, history>>

Store(t) ==
  /\ thread[t].pc = "store"
  /\ probability' = Stepped(t)
  /\ thread' = [thread EXCEPT ![t].pc = "idle"]
  /\ UNCHANGED <<clock, samplesTotal, lastCheckNs, lastCheckTotal, history>>

(* recordPCSamples, from whichever thread drains samples. *)
RecordPCSamples(n) ==
  /\ samplesTotal + n <= MaxSamples
  /\ samplesTotal' = samplesTotal + n
  /\ UNCHANGED <<clock, lastCheckNs, lastCheckTotal, probability, thread, history>>

Tick ==
  /\ clock < MaxTime
  /\ clock' = clock + 1
  /\ UNCHANGED <<shared, thread, history>>

Next ==
  \/ Tick
  \/ \E n \in 1 .. MaxSamples : RecordPCSamples(n)
  \/ \E t \in Threads :
       \/ ReadClock(t) \/ LoadLast(t) \/ ExchangeTime(t) \/ LoadTotal(t)
       \/ ExchangeTotal(t) \/ Adjust(t) \/ Store(t)

Spec == Init /\ [][Next]_vars

-----------------------------------------------------------------------------
(***************************************************************************)
(* Properties.                                                             *)
(***************************************************************************)

(* cupti.cpp:163, "Only one thread per period actually performs the        *)
(* update": the time of an update is a period after that of the one before.*)
OneUpdatePerPeriod ==
  [][lastCheckNs' # lastCheckNs => lastCheckNs' >= lastCheckNs + Period]_vars

(* What the code does keep: an update comes too early only when its thread  *)
(* read the clock before the update it follows, and sets the time back.    *)
EarlyOnlyIfOvertaken ==
  [][lastCheckNs' # lastCheckNs =>
       lastCheckNs' >= lastCheckNs + Period \/ lastCheckNs' < lastCheckNs]_vars

(* The load of the total and the exchange of the last one are two accesses *)
(* (cupti.cpp:167-171).  A delta wraps only in an update that another      *)
(* thread's exchange overtakes between the two, and only the update after  *)
(* such a one counts samples again: all others count the new samples, all  *)
(* of them and nothing else.                                               *)
DeltaIsNewSamples ==
  [][\A t \in Threads :
       thread[t].pc = "exchangeTotal" /\ thread'[t].pc = "adjust" /\ t \notin overtaken =>
         /\ thread'[t].delta + lastCheckTotal = thread[t].total
         /\ ~late => thread'[t].delta + seen = thread[t].total]_vars

=============================================================================
