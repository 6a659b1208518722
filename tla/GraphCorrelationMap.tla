------------------------ MODULE GraphCorrelationMap ------------------------
(***************************************************************************)
(* The data structure of src/src/correlation_filter.h: an entry per graph  *)
(* launch, with one state for each of two alternating buffer cycles.  Each *)
(* member function of class GraphCorrelationMap runs under the map's mutex *)
(* from end to end, so it is one operator from the old map to the new one. *)
(*                                                                         *)
(* A map is a function whose domain is the set of tracked correlation ids. *)
(***************************************************************************)
EXTENDS Integers

CONSTANTS
  CycleMod,   (* 2^32 in the code: buffer cycles are uint32_t             *)
  MaxAge      (* 100 in the code: an unseen entry older than this goes    *)

(***************************************************************************)
(* The two slots alternate with the parity of the cycle, so the cycle      *)
(* counter must wrap from an odd number to 0; an age must be able to pass  *)
(* MaxAge before it wraps.  Both hold of 2^32 and 100.                     *)
(***************************************************************************)
ASSUME CycleModAssumption == CycleMod \in Nat /\ CycleMod % 2 = 0
ASSUME MaxAgeAssumption == MaxAge \in Nat \ {0} /\ MaxAge + 2 <= CycleMod

Cycles == 0 .. (CycleMod - 1)

(* Fault: a counter that does not wrap.                                    *)
NextCycleUnwrapped(cycle) == cycle + 1

(* The increment of a uint32_t. *)
NextCycle(cycle) == (cycle + 1) % CycleMod

Slots == {0, 1}
SlotStates == {"UNINITIALIZED", "CYCLE_CLEARED", "KERNEL_SEEN"}

Entry == [state : [Slots -> SlotStates],
          ever_seen_kernel : BOOLEAN,
          insertion_cycle : Cycles]

(* A map that tracks some of the ids in S. *)
IsMap(m, S) == DOMAIN m \subseteq S /\ m \in [DOMAIN m -> Entry]

(* Fault: a new entry's slots count as cleared.                            *)
ClearedCorrelationEntry(cycle) ==
  [state |-> [s \in Slots |-> "CYCLE_CLEARED"],
   ever_seen_kernel |-> FALSE,
   insertion_cycle |-> cycle]

GraphCorrelationEntry(cycle) ==
  [state |-> [s \in Slots |-> "UNINITIALIZED"],
   ever_seen_kernel |-> FALSE,
   insertion_cycle |-> cycle]

(* GraphCorrelationMap::insert: emplace leaves an existing entry alone. *)
Inserted(m, id, current) ==
  [i \in DOMAIN m \cup {id} |->
     IF i \in DOMAIN m THEN m[i] ELSE GraphCorrelationEntry(current)]

(* Fault: the slot is not the cycle's.                                     *)
FirstSlotStarted(m, cycle) ==
  [i \in DOMAIN m |-> [m[i] EXCEPT !.state[0] = "CYCLE_CLEARED"]]

(* GraphCorrelationMap::cycle_start, the loop over the entries. *)
CycleStarted(m, cycle) ==
  [i \in DOMAIN m |-> [m[i] EXCEPT !.state[cycle % 2] = "CYCLE_CLEARED"]]

(* GraphCorrelationMap::check_and_mark_seen, its effect on the map. *)
MarkedSeen(m, id, cycle) ==
  [i \in DOMAIN m |->
     IF i = id
     THEN [m[i] EXCEPT !.state[cycle % 2] = "KERNEL_SEEN",
                       !.ever_seen_kernel = TRUE]
     ELSE m[i]]

(* The subtraction of two uint32_t: it wraps when current is behind. *)
Age(e, current) == (current - e.insertion_cycle) % CycleMod

(* Fault: one cleared slot is enough.                                      *)
ShouldRemoveAfterOne(e, current) ==
  /\ \E s \in Slots : e.state[s] = "CYCLE_CLEARED"
  /\ e.ever_seen_kernel \/ Age(e, current) > MaxAge

(* Fault: entries without a kernel do not wait.                            *)
ShouldRemoveAtAnyAge(e, current) ==
  \A s \in Slots : e.state[s] = "CYCLE_CLEARED"

ShouldRemove(e, current) ==
  /\ \A s \in Slots : e.state[s] = "CYCLE_CLEARED"
  /\ e.ever_seen_kernel \/ Age(e, current) > MaxAge

(* GraphCorrelationMap::cycle_end. *)
CycleEnded(m, current) ==
  [i \in {j \in DOMAIN m : ~ShouldRemove(m[j], current)} |-> m[i]]

=============================================================================
