-------------------------- MODULE SamplingWindows --------------------------
(***************************************************************************)
(* What start and stop of class PCSampling (src/src/pc_sampling.cpp) make  *)
(* of sampling windows, without contexts, records, errors or resets: a     *)
(* thread opens its window and sampling may be on from then; whoever closes*)
(* a window first while it is on switches it off, and holds a mutex until  *)
(* its window is closed.  PCSampling and SampleDrain both implement it, one*)
(* with all contexts and locks, the other with the samples.                *)
(***************************************************************************)
CONSTANTS
  Threads,
  Nobody

VARIABLES
  window,    (* who has a window open                                      *)
  active,    (* sampling is on                                             *)
  holder     (* the thread that has switched it off and is draining        *)

wvars == <<window, active, holder>>

WInit ==
  /\ window = [t \in Threads |-> FALSE]
  /\ active = FALSE
  /\ holder = Nobody

Opens(t) ==
  /\ ~window[t]
  /\ holder = Nobody
  /\ window' = [window EXCEPT ![t] = TRUE]
  /\ active' \in {active, TRUE}
  /\ UNCHANGED holder

SwitchesOff(t) ==
  /\ window[t] /\ active
  /\ holder = Nobody
  /\ holder' = t
  /\ active' = FALSE
  /\ UNCHANGED window

FindsItOff(t) ==
  /\ window[t] /\ ~active
  /\ holder = Nobody
  /\ window' = [window EXCEPT ![t] = FALSE]
  /\ UNCHANGED <<active, holder>>

Closes(t) ==
  /\ holder = t
  /\ holder' = Nobody
  /\ window' = [window EXCEPT ![t] = FALSE]
  /\ UNCHANGED active

(* The context goes, or is reset. *)
Ends ==
  /\ holder = Nobody
  /\ active' = FALSE
  /\ UNCHANGED <<window, holder>>

WNext ==
  \/ \E t \in Threads : Opens(t) \/ SwitchesOff(t) \/ FindsItOff(t) \/ Closes(t)
  \/ Ends

WSpec == WInit /\ [][WNext]_wvars

(* While sampling is on, somebody will close a window; while a drain of a  *)
(* closing window is under way, nobody can switch it on.                   *)
WindowsKept ==
  /\ active => \E t \in Threads : window[t]
  /\ holder # Nobody => ~active

=============================================================================
