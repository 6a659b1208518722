------------------------- MODULE TokenBucketProofs -------------------------
(***************************************************************************)
(* Proofs about TokenBucket: for every clock and every rate.               *)
(***************************************************************************)
EXTENDS TokenBucket, TLAPS

(* Elapsed time is worth its ticks: the products the proofs need.           *)
LEMMA TickWorth ==
  ASSUME NEW p \in Nat, NEW a \in Int, NEW b \in Int
  PROVE  /\ p * (a - b) \in Int
         /\ a >= b => p * (a - b) >= 0 /\ p * (a - b) \in Nat
         /\ p * ((a + 1) - b) = p * (a - b) + p
<1>1. p * (a - b) \in Int
  OBVIOUS
<1>2. ASSUME a >= b PROVE p * (a - b) >= 0
  <2>1. a - b \in Nat
    BY <1>2
  <2>2. \A d \in Nat : p * d \in Nat
    OBVIOUS
  <2> QED  BY <2>1, <2>2
<1>3. p * ((a + 1) - b) = p * (a - b) + p
  <2>1. (a + 1) - b = (a - b) + 1
    OBVIOUS
  <2>2. \A d \in Int : p * (d + 1) = p * d + p
    OBVIOUS
  <2> QED  BY <2>1, <2>2
<1> QED  BY <1>1, <1>2, <1>3

(* Rates are numbers. *)
LEMMA RateIsNat == \A k \in Kinds : PerTick[k] \in Nat \ {0} /\ Rate(k) \in Nat
<1> SUFFICES ASSUME NEW k \in Kinds
             PROVE  PerTick[k] \in Nat \ {0} /\ Rate(k) \in Nat
  OBVIOUS
<1>1. PerTick[k] \in Nat \ {0} /\ Second \in Nat
  BY ClockAssumption, RateAssumption
<1>2. \A a, b \in Nat : a * b \in Nat
  OBVIOUS
<1> QED  BY <1>1, <1>2 DEF Rate

-----------------------------------------------------------------------------
(***************************************************************************)
(* The inductive invariant.  Credit is what the bucket would hold if it    *)
(* were refilled now; what was admitted and what is left never exceed a    *)
(* full bucket and what the time since then has brought.                   *)
(***************************************************************************)

Credit(k) ==
  IF lastRefillNs[k] > 0 THEN tokens[k] + PerTick[k] * (now - lastRefillNs[k])
                         ELSE tokens[k]

Accounted(k) ==
  Token * admitted[k] + AtMost(Credit(k), Rate(k))
    <= Rate(k) + PerTick[k] * (now - since[k])

(* Nothing is refilled, or admitted, before the rates are applied.         *)
AppliedFirst == \A k \in Kinds : lastRefillNs[k] > 0 => applied

(* The inductive invariant. *)
IInv == TypeOK /\ now > 0 /\ AppliedFirst /\ \A k \in Kinds : Accounted(k)

(* Credit is a number: the clock does not run backwards. *)
LEMMA CreditType ==
  ASSUME TypeOK, NEW k \in Kinds
  PROVE  Credit(k) \in Nat
<1>1. now \in Nat /\ lastRefillNs[k] \in Nat /\ lastRefillNs[k] <= now
        /\ tokens[k] \in Nat /\ PerTick[k] \in Nat
  BY RateIsNat DEF TypeOK
<1>2. PerTick[k] * (now - lastRefillNs[k]) \in Nat
  BY <1>1, TickWorth
<1> QED  BY <1>1, <1>2 DEF Credit

(* A launch finds the credit, cut at a full bucket; the tokens of a bucket  *)
(* that is not asked keep its credit.                                      *)
LEMMA LaunchFinds ==
  ASSUME TypeOK, AppliedFirst, NEW k \in Kinds
  PROVE  /\ Refilled(k) = AtMost(Credit(k), Rate(k))
         /\ Refilled(k) \in Nat
         /\ AppliedTokens[k] \in Nat
         /\ AppliedTokens[k] <= Rate(k)
         /\ ~applied => AppliedTokens[k] = AtMost(Credit(k), Rate(k))
         /\ applied => AppliedTokens[k] = tokens[k]
<1>1. tokens[k] \in Nat /\ Rate(k) \in Nat /\ Credit(k) \in Nat
        /\ lastRefillNs[k] \in Nat
  BY CreditType, RateIsNat DEF TypeOK
<1>2. CASE applied
  <2>1. AppliedTokens[k] = tokens[k] /\ tokens[k] <= Rate(k)
    BY <1>2 DEF AppliedTokens, TypeOK
  <2>2. (now - lastRefillNs[k]) * PerTick[k] = PerTick[k] * (now - lastRefillNs[k])
    BY RateIsNat DEF TypeOK
  <2>3. Refilled(k) = AtMost(Credit(k), Rate(k))
    BY <2>1, <2>2, <1>1 DEF Refilled, Credit, AtMost
  <2> QED  BY <1>1, <1>2, <2>1, <2>3 DEF AtMost
<1>3. CASE ~applied
  <2>1. ~(lastRefillNs[k] > 0)
    BY <1>3 DEF AppliedFirst
  <2>2. AppliedTokens[k] = AtMost(tokens[k], Rate(k))
    BY <1>3 DEF AppliedTokens
  <2> QED  BY <1>1, <1>3, <2>1, <2>2 DEF Refilled, Credit, AtMost
<1> QED  BY <1>2, <1>3

-----------------------------------------------------------------------------

(* Every step keeps the types. *)
LEMMA TypeStep ==
  ASSUME TypeOK, AppliedFirst, now > 0, [Next]_vars
  PROVE  TypeOK' /\ AppliedFirst' /\ now' > 0
<1> USE DEF Limiter
<1>1. ASSUME NEW k \in Kinds, Launch(k)
      PROVE  TypeOK' /\ AppliedFirst' /\ now' > 0
  <2>1. /\ applied' = TRUE
        /\ now' = now
        /\ since' = since
        /\ lastRefillNs' \in [Kinds -> 0 .. now]
        /\ tried' \in [Kinds -> 0 .. now]
    BY <1>1 DEF Launch, TypeOK
  <2>2. admitted' \in [Kinds -> Nat]
    BY <1>1 DEF Launch, TypeOK
  <2>3. tokens' \in [Kinds -> Nat] /\ \A j \in Kinds : tokens'[j] <= Rate(j)
    <3>1. /\ \A j \in Kinds : AppliedTokens[j] \in Nat /\ AppliedTokens[j] <= Rate(j)
          /\ AppliedTokens = [j \in Kinds |-> AppliedTokens[j]]
      BY LaunchFinds DEF AppliedTokens, TypeOK
    <3>2. Refilled(k) \in Nat /\ Refilled(k) <= Rate(k) /\ Rate(k) \in Nat
      BY LaunchFinds, CreditType, RateIsNat DEF AtMost
    <3>3. PICK n \in Nat : n <= Rate(k) /\ tokens' = [AppliedTokens EXCEPT ![k] = n]
      <4>1. CASE Refilled(k) >= Token
        <5>1. Refilled(k) - Token \in Nat /\ Refilled(k) - Token <= Rate(k)
          BY <3>2, <4>1, RateAssumption
        <5> QED  BY <1>1, <4>1, <5>1 DEF Launch
      <4>2. CASE ~(Refilled(k) >= Token)
        BY <1>1, <3>2, <4>2 DEF Launch
      <4> QED  BY <4>1, <4>2
    <3> QED  BY <3>1, <3>3
  <2> QED  BY <2>1, <2>2, <2>3 DEF TypeOK, AppliedFirst, Rate
<1>2. CASE Tick
  BY <1>2 DEF Tick, TypeOK, AppliedFirst, bucket, history, Rate
<1>3. ASSUME NEW k \in Kinds, CountFromNow(k)
      PROVE  TypeOK' /\ AppliedFirst' /\ now' > 0
  BY <1>3 DEF CountFromNow, TypeOK, AppliedFirst, bucket, Rate
<1>4. CASE UNCHANGED vars
  BY <1>4 DEF vars, bucket, history, TypeOK, AppliedFirst, Rate
<1> QED  BY <1>1, <1>2, <1>3, <1>4 DEF Next

(* The inductive invariant holds at first. *)
LEMMA InitIInv == Init => IInv
<1> SUFFICES ASSUME Init PROVE IInv
  OBVIOUS
<1>1. TypeOK /\ now > 0 /\ AppliedFirst
  <2>1. now = 1 /\ Token \in Nat /\ 0 \in 0 .. 1 /\ 1 \in 0 .. 1
    BY RateAssumption DEF Init
  <2>2. /\ applied = FALSE
        /\ tokens \in [Kinds -> Nat]
        /\ admitted \in [Kinds -> Nat]
        /\ lastRefillNs = [k \in Kinds |-> 0]
        /\ tried = [k \in Kinds |-> 0]
        /\ since = [k \in Kinds |-> 1]
    BY <2>1 DEF Init
  <2>3. lastRefillNs \in [Kinds -> 0 .. now] /\ tried \in [Kinds -> 0 .. now]
          /\ since \in [Kinds -> 0 .. now]
    BY <2>1, <2>2
  <2>4. \A k \in Kinds : lastRefillNs[k] = 0
    BY <2>2
  <2>5. TypeOK
    <3>1. now \in Nat /\ applied \in BOOLEAN
      BY <2>1, <2>2
    <3>2. applied => \A k \in Kinds : tokens[k] <= Rate(k)
      BY <2>2
    <3> QED  BY <2>2, <2>3, <3>1, <3>2 DEF TypeOK
  <2>6. AppliedFirst
    BY <2>4 DEF AppliedFirst
  <2> QED  BY <2>1, <2>5, <2>6
<1>2. ASSUME NEW k \in Kinds PROVE Accounted(k)
  <2>1. admitted[k] = 0 /\ since[k] = now /\ now = 1 /\ Credit(k) \in Nat
    BY <1>1, CreditType DEF Init
  <2>2. PerTick[k] * (now - since[k]) = 0 /\ Token * admitted[k] = 0
    BY <2>1, RateIsNat, RateAssumption
  <2> QED  BY <2>1, <2>2, RateIsNat DEF Accounted, AtMost
<1> QED  BY <1>1, <1>2 DEF IInv

(* Every step keeps the account. *)
LEMMA AccountedStep ==
  ASSUME IInv, [Next]_vars, NEW k \in Kinds
  PROVE  Accounted(k)'
<1> DEFINE worth == PerTick[k] * (now - since[k])
<1>1. TypeOK /\ AppliedFirst /\ now > 0 /\ Accounted(k)
  BY DEF IInv
<1>2. /\ Rate(k) \in Nat /\ Credit(k) \in Nat /\ worth \in Nat
      /\ admitted[k] \in Nat /\ tokens[k] \in Nat /\ now \in Nat
      /\ since[k] \in Nat /\ lastRefillNs[k] \in Nat
  BY <1>1, RateIsNat, CreditType, TickWorth DEF TypeOK
<1>3. Token \in Nat /\ Token * admitted[k] \in Nat
        /\ Token * (admitted[k] + 1) = Token * admitted[k] + Token
  BY <1>2, RateAssumption
<1>4. ASSUME NEW j \in Kinds, Launch(j), j = k PROVE Accounted(k)'
  <2>1. /\ now' = now /\ since' = since
        /\ lastRefillNs'[k] = now
        /\ IF Refilled(k) >= Token
           THEN tokens'[k] = Refilled(k) - Token /\ admitted'[k] = admitted[k] + 1
           ELSE tokens'[k] = Refilled(k) /\ admitted'[k] = admitted[k]
    <3>1. DOMAIN AppliedTokens = Kinds
      BY <1>1 DEF AppliedTokens, TypeOK
    <3> QED  BY <1>1, <1>4, <3>1 DEF Launch, Limiter, TypeOK
  <2>2. Refilled(k) = AtMost(Credit(k), Rate(k)) /\ Refilled(k) \in Nat
    BY <1>1, LaunchFinds
  <2>3. Credit(k)' = tokens'[k]
    <3>1. tokens'[k] \in Nat
      BY <1>3, <2>1, <2>2
    <3>2. PerTick[k] * (now' - lastRefillNs'[k]) = 0
      <4>1. now' - lastRefillNs'[k] = 0
        BY <1>2, <2>1
      <4>2. PerTick[k] * 0 = 0
        BY RateIsNat
      <4> QED  BY <4>1, <4>2
    <3>3. Credit(k)' = tokens'[k] + PerTick[k] * (now' - lastRefillNs'[k])
      BY <1>1, <2>1 DEF Credit
    <3> QED  BY <3>1, <3>2, <3>3
  <2>4. Token * admitted[k] + Refilled(k) <= Rate(k) + worth
    BY <1>1, <2>2 DEF Accounted
  <2>5. Token * admitted'[k] + AtMost(tokens'[k], Rate(k)) <= Rate(k) + worth
    BY <1>2, <1>3, <2>1, <2>2, <2>4 DEF AtMost
  <2> QED  BY <2>1, <2>3, <2>5 DEF Accounted, Rate, AtMost
<1>5. ASSUME NEW j \in Kinds, Launch(j), j # k PROVE Accounted(k)'
  <2>1. /\ now' = now /\ since' = since /\ applied' = TRUE
        /\ lastRefillNs'[k] = lastRefillNs[k]
        /\ tokens'[k] = AppliedTokens[k]
        /\ admitted'[k] = admitted[k]
    <3>1. DOMAIN AppliedTokens = Kinds
      BY <1>1 DEF AppliedTokens, TypeOK
    <3> QED  BY <1>1, <1>5, <3>1 DEF Launch, Limiter, TypeOK
  <2>2. AtMost(Credit(k)', Rate(k)) = AtMost(Credit(k), Rate(k))
    <3>1. CASE applied
      BY <1>1, <2>1, <3>1, LaunchFinds DEF Credit
    <3>2. CASE ~applied
      <4>1. ~(lastRefillNs[k] > 0)
        BY <1>1, <3>2 DEF AppliedFirst
      <4>2. Credit(k)' = AppliedTokens[k]
        BY <2>1, <4>1 DEF Credit
      <4> QED  BY <1>1, <1>2, <3>2, <4>2, LaunchFinds DEF AtMost
    <3> QED  BY <3>1, <3>2
  <2> QED  BY <1>1, <2>1, <2>2 DEF Accounted, Rate, AtMost
<1>6. CASE Tick
  <2>1. /\ now' = now + 1 /\ since' = since /\ admitted' = admitted
        /\ tokens' = tokens /\ lastRefillNs' = lastRefillNs
    BY <1>6 DEF Tick, bucket, history
  <2>2. PerTick[k] * (now' - since'[k]) = worth + PerTick[k]
    BY <1>2, <2>1, TickWorth, RateIsNat
  <2>3. Credit(k)' \in {Credit(k), Credit(k) + PerTick[k]}
    <3>1. PerTick[k] * (now' - lastRefillNs[k])
            = PerTick[k] * (now - lastRefillNs[k]) + PerTick[k]
      BY <1>2, <2>1, TickWorth, RateIsNat
    <3>2. PerTick[k] * (now - lastRefillNs[k]) \in Int
      BY <1>2, TickWorth, RateIsNat
    <3> QED  BY <1>2, <2>1, <3>1, <3>2, RateIsNat DEF Credit
  <2>4. AtMost(Credit(k)', Rate(k)) <= AtMost(Credit(k), Rate(k)) + PerTick[k]
    BY <1>2, <2>3, RateIsNat DEF AtMost
  <2>5. Token * admitted[k] + AtMost(Credit(k)', Rate(k)) <= Rate(k) + (worth + PerTick[k])
    <3>1. Token * admitted[k] + AtMost(Credit(k), Rate(k)) <= Rate(k) + worth
      BY <1>1 DEF Accounted
    <3>2. AtMost(Credit(k)', Rate(k)) \in Nat /\ AtMost(Credit(k), Rate(k)) \in Nat
      BY <1>2, <2>3, RateIsNat DEF AtMost
    <3> QED  BY <1>2, <1>3, <2>4, <3>1, <3>2, RateIsNat
  <2> QED  BY <2>1, <2>2, <2>5 DEF Accounted, Rate, AtMost
<1>7. ASSUME NEW j \in Kinds, CountFromNow(j) PROVE Accounted(k)'
  <2>1. now' = now /\ tokens' = tokens /\ lastRefillNs' = lastRefillNs
          /\ Credit(k)' = Credit(k)
    BY <1>7 DEF CountFromNow, bucket, Credit
  <2>2. CASE j = k
    <3>1. since'[k] = now /\ admitted'[k] = 0
      BY <1>1, <1>7, <2>2 DEF CountFromNow, TypeOK
    <3>2. Token * admitted'[k] = 0 /\ PerTick[k] * (now' - since'[k]) = 0
      BY <1>2, <1>3, <2>1, <3>1, RateIsNat
    <3> QED  BY <1>2, <2>1, <3>2 DEF Accounted, Rate, AtMost
  <2>3. CASE j # k
    <3>1. since'[k] = since[k] /\ admitted'[k] = admitted[k]
      BY <1>1, <1>7, <2>3 DEF CountFromNow, TypeOK
    <3> QED  BY <1>1, <2>1, <3>1 DEF Accounted, Rate, AtMost
  <2> QED  BY <2>2, <2>3
<1>8. CASE UNCHANGED vars
  BY <1>1, <1>8 DEF vars, bucket, history, Accounted, Credit, Rate, AtMost
<1> QED  BY <1>4, <1>5, <1>6, <1>7, <1>8 DEF Next

(* Every step keeps the inductive invariant. *)
LEMMA StepIInv == IInv /\ [Next]_vars => IInv'
<1> SUFFICES ASSUME IInv, [Next]_vars PROVE IInv'
  OBVIOUS
<1>1. TypeOK' /\ AppliedFirst' /\ now' > 0
  BY TypeStep DEF IInv
<1>2. \A k \in Kinds : Accounted(k)'
  BY AccountedStep
<1> QED  BY <1>1, <1>2 DEF IInv

(* The inductive invariant is an invariant. *)
LEMMA AlwaysIInv == Spec => []IInv
BY InitIInv, StepIInv, PTL DEF Spec

-----------------------------------------------------------------------------

(* The variables keep their types, and no bucket is ever more than full.   *)
THEOREM TypeCorrect == Spec => []TypeOK
<1>1. IInv => TypeOK
  BY DEF IInv
<1> QED  BY <1>1, AlwaysIInv, PTL

(* Whatever the rates: from any moment on, no more launches are admitted    *)
(* than a full bucket and the time that has passed allow.                  *)
THEOREM AdmissionsBounded == Spec => []RateBound
<1>1. IInv => RateBound
  <2> SUFFICES ASSUME IInv, NEW k \in Kinds
               PROVE  Token * admitted[k] <= Rate(k) + PerTick[k] * (now - since[k])
    BY DEF RateBound
  <2>1. TypeOK /\ Accounted(k)
    BY DEF IInv
  <2>2. AtMost(Credit(k), Rate(k)) \in Nat /\ Rate(k) \in Nat
    BY <2>1, CreditType, RateIsNat DEF AtMost
  <2>3. Token * admitted[k] \in Nat
    BY <2>1, RateAssumption DEF TypeOK
  <2>4. PerTick[k] * (now - since[k]) \in Nat
    BY <2>1, TickWorth, RateIsNat DEF TypeOK
  <2> QED  BY <2>1, <2>2, <2>3, <2>4 DEF Accounted
<1> QED  BY <1>1, AlwaysIInv, PTL

-----------------------------------------------------------------------------
(***************************************************************************)
(* A pause is rewarded where a full bucket holds a whole token.            *)
(***************************************************************************)

(* Until its first launch a bucket keeps the token it began with, unless   *)
(* the rate cuts it.                                                       *)
FirstToken ==
  \A k \in Kinds :
    /\ tried[k] = lastRefillNs[k]
    /\ Rate(k) >= Token /\ lastRefillNs[k] = 0 => tokens[k] >= Token

(* Every step keeps FirstToken. *)
LEMMA FirstTokenStep ==
  ASSUME IInv, FirstToken, [Next]_vars
  PROVE  FirstToken'
<1> SUFFICES ASSUME NEW k \in Kinds
             PROVE  /\ tried'[k] = lastRefillNs'[k]
                    /\ Rate(k) >= Token /\ lastRefillNs'[k] = 0 => tokens'[k] >= Token
  BY DEF FirstToken
<1>1. TypeOK /\ AppliedFirst /\ now > 0
  BY DEF IInv
<1>2. tried[k] = lastRefillNs[k]
        /\ (Rate(k) >= Token /\ lastRefillNs[k] = 0 => tokens[k] >= Token)
  BY DEF FirstToken
<1>3. ASSUME NEW j \in Kinds, Launch(j), j = k
      PROVE  tried'[k] = now /\ lastRefillNs'[k] = now
  BY <1>1, <1>3 DEF Launch, Limiter, TypeOK
<1>4. ASSUME NEW j \in Kinds, Launch(j), j # k
      PROVE  /\ tried'[k] = tried[k] /\ lastRefillNs'[k] = lastRefillNs[k]
             /\ Rate(k) >= Token /\ tokens[k] >= Token => tokens'[k] >= Token
  <2>1. tried'[k] = tried[k] /\ lastRefillNs'[k] = lastRefillNs[k]
    BY <1>1, <1>4 DEF Launch, Limiter, TypeOK
  <2>2. tokens'[k] = AppliedTokens[k]
    <3>1. DOMAIN AppliedTokens = Kinds
      BY <1>1 DEF AppliedTokens, TypeOK
    <3> QED  BY <1>1, <1>4, <3>1 DEF Launch, Limiter, TypeOK
  <2>3. AppliedTokens[k] \in {tokens[k], AtMost(tokens[k], Rate(k))}
    BY DEF AppliedTokens
  <2>4. Rate(k) \in Nat /\ tokens[k] \in Nat /\ Token \in Nat
    BY <1>1, RateIsNat, RateAssumption DEF TypeOK
  <2> QED  BY <2>1, <2>2, <2>3, <2>4 DEF AtMost
<1>5. CASE Tick
  BY <1>2, <1>5 DEF Tick, bucket, history
<1>6. ASSUME NEW j \in Kinds, CountFromNow(j)
      PROVE  tried' = tried /\ lastRefillNs' = lastRefillNs /\ tokens' = tokens
  BY <1>6 DEF CountFromNow, bucket
<1>7. CASE UNCHANGED vars
  BY <1>2, <1>7 DEF vars, bucket, history
<1> QED  BY <1>1, <1>2, <1>3, <1>4, <1>5, <1>6, <1>7 DEF Next

(* For every kind whose rate is one launch a second or more, the launch     *)
(* after a long enough pause is admitted, whatever launches of the other   *)
(* kind, and at whatever rate, came between.                               *)
THEOREM PausesRewarded == Spec => QuietLaunchAdmitted
<1> DEFINE Reward ==
      \A k \in Kinds :
        Launch(k) /\ Rate(k) >= Token /\ PerTick[k] * (now - tried[k]) >= Token
          => admitted'[k] = admitted[k] + 1
<1>1. Init => FirstToken
  BY RateAssumption DEF Init, FirstToken
<1>2. IInv /\ FirstToken /\ [Next]_vars => FirstToken'
  BY FirstTokenStep
<1>3. IInv /\ FirstToken /\ [Next]_vars => [Reward]_vars
  <2> SUFFICES ASSUME IInv, FirstToken, NEW k \in Kinds, Launch(k), Rate(k) >= Token,
                      PerTick[k] * (now - tried[k]) >= Token
               PROVE  admitted'[k] = admitted[k] + 1
    BY DEF Reward
  <2>1. TypeOK /\ AppliedFirst
    BY DEF IInv
  <2>2. Refilled(k) = AtMost(Credit(k), Rate(k))
    BY <2>1, LaunchFinds
  <2>3. Credit(k) >= Token
    <3>1. lastRefillNs[k] \in Nat /\ tokens[k] \in Nat /\ Token \in Nat
            /\ now \in Nat /\ PerTick[k] * (now - lastRefillNs[k]) \in Int
      BY <2>1, TickWorth, RateIsNat, RateAssumption DEF TypeOK
    <3>2. tried[k] = lastRefillNs[k]
        /\ (Rate(k) >= Token /\ lastRefillNs[k] = 0 => tokens[k] >= Token)
      BY DEF FirstToken
    <3>3. PerTick[k] * (now - lastRefillNs[k]) >= Token
      BY <3>2
    <3> QED  BY <3>1, <3>2, <3>3 DEF Credit
  <2>4. Refilled(k) >= Token
    BY <2>2, <2>3 DEF AtMost
  <2> QED  BY <2>1, <2>4 DEF Launch, Limiter, TypeOK
<1> QED  BY <1>1, <1>2, <1>3, AlwaysIInv, PTL DEF Spec, QuietLaunchAdmitted

=============================================================================
