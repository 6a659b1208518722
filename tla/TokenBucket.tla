----------------------------- MODULE TokenBucket -----------------------------
(***************************************************************************)
(* The rate limiters of one application thread (src/src/token_bucket.h, as *)
(* CuptiProfiler::callbackHandler uses it, src/src/cupti.cpp): a bucket for*)
(* eager launches and one for graph launches, both thread_local.  A bucket *)
(* is refilled when it is asked for a token, never by a clock of its own.  *)
(*                                                                         *)
(* Tokens are counted in parts so that a tick of the clock brings a whole  *)
(* number of them; the doubles of the code are taken to be exact.          *)
(***************************************************************************)
EXTENDS Integers

CONSTANTS
  Second,     (* ticks of the clock in a second                           *)
  Token,      (* parts of a token                                         *)
  PerTick,    (* parts a tick brings, for each kind of launch             *)
  MaxTime     (* bound: ticks in a behaviour                              *)

Kinds == {"eager", "graph"}

ASSUME ClockAssumption == Second \in Nat \ {0} /\ MaxTime \in Nat
ASSUME RateAssumption == Token \in Nat \ {0} /\ PerTick \in [Kinds -> Nat \ {0}]

(* Parts per second: init_debug takes any rate above 0. *)
Rate(k) == PerTick[k] * Second

VARIABLES
  now,        (* CLOCK_MONOTONIC, which is past 0 when the program starts *)
  applied,    (* has the thread copied the configured rates?              *)
  tokens,
  lastRefillNs,
  tried,      (* history: when the thread last launched one of the kind   *)
  since,      (* history: an arbitrary moment ...                         *)
  admitted    (* ... and the launches admitted from then on               *)

bucket == <<applied, tokens, lastRefillNs>>
history == <<tried, since, admitted>>
vars == <<now, bucket, history>>

(* No bucket holds more than a second brings, once the rates are applied. *)
TypeOK ==
  /\ now \in Nat
  /\ applied \in BOOLEAN
  /\ tokens \in [Kinds -> Nat]
  /\ lastRefillNs \in [Kinds -> 0 .. now]
  /\ applied => \A k \in Kinds : tokens[k] <= Rate(k)
  /\ tried \in [Kinds -> 0 .. now]
  /\ since \in [Kinds -> 0 .. now]
  /\ admitted \in [Kinds -> Nat]

Init ==
  /\ now = 1
  /\ applied = FALSE
  /\ tokens = [k \in Kinds |-> Token]
  /\ lastRefillNs = [k \in Kinds |-> 0]
  /\ tried = [k \in Kinds |-> 0]
  /\ since = [k \in Kinds |-> now]
  /\ admitted = [k \in Kinds |-> 0]

-----------------------------------------------------------------------------

AtMost(x, bound) == IF x > bound THEN bound ELSE x

(* applyRateLimitsOnce: setRate cuts the tokens of both buckets. *)
AppliedTokens ==
  IF applied THEN tokens ELSE [k \in Kinds |-> AtMost(tokens[k], Rate(k))]

(* Fault: what a long pause brings is not cut.                             *)
RefilledUncut(k) ==
  IF lastRefillNs[k] > 0
  THEN AppliedTokens[k] + (now - lastRefillNs[k]) * PerTick[k]
  ELSE AppliedTokens[k]

(* refill; the first one only looks at the clock. *)
Refilled(k) ==
  IF lastRefillNs[k] > 0
  THEN AtMost(AppliedTokens[k] + (now - lastRefillNs[k]) * PerTick[k], Rate(k))
  ELSE AppliedTokens[k]

(* Fault: one bucket for both kinds of launches.                           *)
OneLimiter(k) == "eager"

Limiter(k) == k

(* The correlation part of an EXIT outside a sampling window. *)
Launch(k) ==
  LET b == Limiter(k) IN
  /\ applied' = TRUE
  /\ lastRefillNs' = [lastRefillNs EXCEPT ![b] = now]
  /\ tried' = [tried EXCEPT ![k] = now]
  /\ IF Refilled(b) >= Token
     THEN /\ tokens' = [AppliedTokens EXCEPT ![b] = Refilled(b) - Token]
          /\ admitted' = [admitted EXCEPT ![k] = @ + 1]
     ELSE /\ tokens' = [AppliedTokens EXCEPT ![b] = Refilled(b)]
          /\ UNCHANGED admitted
  /\ UNCHANGED <<now, since>>

Tick ==
  /\ now < MaxTime
  /\ now' = now + 1
  /\ UNCHANGED <<bucket, history>>

(* Counting starts afresh, at any moment. *)
CountFromNow(k) ==
  /\ since' = [since EXCEPT ![k] = now]
  /\ admitted' = [admitted EXCEPT ![k] = 0]
  /\ UNCHANGED <<now, bucket, tried>>

Next ==
  \/ Tick
  \/ \E k \in Kinds : Launch(k) \/ CountFromNow(k)

Spec == Init /\ [][Next]_vars

-----------------------------------------------------------------------------
(***************************************************************************)
(* Properties.                                                             *)
(***************************************************************************)

(* README.md:36, a limit in events/sec per thread: whenever one starts to   *)
(* count, d ticks bring no more than a full bucket, a second's worth, and   *)
(* what d ticks add, although the bucket is refilled only when asked.      *)
RateBound ==
  \A k \in Kinds :
    Token * admitted[k] <= Rate(k) + PerTick[k] * (now - since[k])

(* With a rate of one launch a second or more, a launch that comes after a *)
(* pause in which the rate allows one is admitted, whatever the other kind *)
(* did: "eager bursts can't starve graph sampling" (cupti.cpp:47-48).  At a*)
(* slower rate, which init_debug takes too, a full bucket holds no token,  *)
(* and no launch of the kind is ever admitted.                             *)
QuietLaunchAdmitted ==
  [][\A k \in Kinds :
       Launch(k) /\ Rate(k) >= Token /\ PerTick[k] * (now - tried[k]) >= Token
         => admitted'[k] = admitted[k] + 1]_vars

=============================================================================
