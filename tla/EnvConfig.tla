------------------------------ MODULE EnvConfig ------------------------------
(***************************************************************************)
(* The environment variables of the profiler: what init_debug,             *)
(* getGPUSamplingFrequency, pcHardwareBufferMB and isSupported make of them*)
(* (src/src/cupti.cpp, src/src/pc_sampling.cpp), and what validateEnvVars  *)
(* reports (src/src/env_config.cpp).                                       *)
(*                                                                         *)
(* An environment maps the names of PARCAGPU_ variables that are set to    *)
(* the numbers atof and atoi make of their values; text that is no number  *)
(* is 0 to both.  "nan", which compares with nothing, is left out.         *)
(***************************************************************************)
EXTENDS Integers

knownVars == {"DEBUG", "RATE_LIMIT", "SAMPLING_FACTOR", "PC_SAMPLING_RATE",
              "PC_HW_BUFFER_MB"}

(* The value of a variable where it is set and valid, otherwise a default. *)
ValueIf(env, name, valid, default) ==
  IF name \in DOMAIN env THEN IF env[name] \in valid THEN env[name] ELSE default
                         ELSE default

Positive == Nat \ {0}

(* Rates of the token buckets, in launches a second. *)
EagerRate(env) == ValueIf(env, "RATE_LIMIT", Positive, 100)
GraphRate(env) == ValueIf(env, "GRAPH_RATE_LIMIT", Positive, 20)

(* The controller's target, in samples a second, and the probability it    *)
(* starts with, in thousandths: kPCInitialProbabilityAtDefaultRate, scaled *)
(* and clamped.                                                            *)
TargetRate(env) == ValueIf(env, "PC_SAMPLING_RATE", Positive, 100)
InitialProbability(env) ==
  LET scaled == (20 * TargetRate(env)) \div 100 IN
  IF scaled < 1 THEN 1 ELSE IF scaled > 1000 THEN 1000 ELSE scaled

(* Fault: one more than the hardware takes. *)
ValidFactorTo32 == 5 .. 32

ValidFactor == 5 .. 31
SamplingFactor(env) == ValueIf(env, "SAMPLING_FACTOR", ValidFactor, 20)

(* 0 leaves the size of the hardware buffer to CUPTI. *)
HardwareBufferMB(env) == ValueIf(env, "PC_HW_BUFFER_MB", Positive, 0)

(* That the variable is set is enough. *)
SamplingRequested(env) == "PC_SAMPLING_RATE" \in DOMAIN env

Configured(env) ==
  [eager |-> EagerRate(env), graph |-> GraphRate(env),
   target |-> TargetRate(env), probability |-> InitialProbability(env)]

(* Before init_debug has run. *)
Defaults == [eager |-> 100, graph |-> 20, target |-> 100, probability |-> 20]

-----------------------------------------------------------------------------

(* validateEnvVars: an error for every name it does not know, and for      *)
(* every value it takes to be wrong.                                       *)
Unrecognised(env) == DOMAIN env \ knownVars

Wrong(name, v) ==
  CASE name = "RATE_LIMIT" -> v <= 0
    [] name = "SAMPLING_FACTOR" -> v # 0 /\ (v < 5 \/ v > 31)
    [] name = "PC_SAMPLING_RATE" -> v < 0
    [] name = "PC_HW_BUFFER_MB" -> v < 0
    [] OTHER -> FALSE

Rejected(env) == {name \in DOMAIN env \cap knownVars : Wrong(name, env[name])}

=============================================================================
