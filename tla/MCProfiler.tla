----------------------------- MODULE MCProfiler -----------------------------
(* Instances of Profiler for TLC. *)
EXTENDS Profiler, TLC

(* Nothing set, or one variable, at and about the bounds of what is        *)
(* accepted, or two.                                                       *)
Values ==
  [RATE_LIMIT |-> {-1, 0, 5}, GRAPH_RATE_LIMIT |-> {0, 5},
   SAMPLING_FACTOR |-> {0, 4, 5, 31, 32}, PC_SAMPLING_RATE |-> {-1, 0, 31},
   PC_HW_BUFFER_MB |-> {-1, 0, 5}, TYPO |-> {0}]
OneOrTwo ==
  {[n \in {} |-> 0], [PC_SAMPLING_RATE |-> 6000, GRAPH_RATE_LIMIT |-> -1]}
    \cup UNION {[{n} -> Values[n]] : n \in DOMAIN Values}

(* Threads are alike. *)
Alike == Permutations(Launchers)

=============================================================================
