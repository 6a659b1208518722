----------------------------- MODULE GraphQuiet -----------------------------
(***************************************************************************)
(* What GraphCorrelationMap promises when activity buffers are processed   *)
(* one after the other, without slots, parities or wrapping counters:      *)
(*                                                                         *)
(*   a graph launch stays tracked until two whole consecutive buffers have *)
(*   brought no kernel of it, and, if it never had a kernel at all, until  *)
(*   more than MaxAge buffers have begun since it was inserted.            *)
(***************************************************************************)
EXTENDS Integers

CONSTANTS Ids, MaxAge

VARIABLES
  tracked,   (* id -> what is remembered of a tracked launch              *)
  open,      (* is a buffer being processed?                              *)
  started    (* has any buffer been processed yet?                        *)

qvars == <<tracked, open, started>>

(***************************************************************************)
(* quiet:       the latest buffer began after the insertion and has brought*)
(*              no kernel of the launch                                    *)
(* quietBefore: the same of the buffer before it                           *)
(* seen:        some buffer brought a kernel of the launch                 *)
(* waited:      buffers begun since the insertion, 0 once a kernel is seen *)
(***************************************************************************)
QuietEntry == [quiet : BOOLEAN, quietBefore : BOOLEAN, seen : BOOLEAN,
               waited : 0 .. (MaxAge + 1)]

QTypeOK ==
  /\ DOMAIN tracked \subseteq Ids
  /\ tracked \in [DOMAIN tracked -> QuietEntry]
  /\ open \in BOOLEAN
  /\ started \in BOOLEAN

NoNews == [quiet |-> FALSE, quietBefore |-> FALSE, seen |-> FALSE, waited |-> 0]

QInit ==
  /\ tracked = [i \in {} |-> NoNews]
  /\ open = FALSE
  /\ started = FALSE

Track(id) ==
  /\ id \notin DOMAIN tracked
  /\ tracked' = [i \in DOMAIN tracked \cup {id} |->
                   IF i \in DOMAIN tracked THEN tracked[i] ELSE NoNews]
  /\ UNCHANGED <<open, started>>

(* The first buffer of all has the number an earlier insertion recorded.  *)
OneMore(e) == IF e.seen \/ ~started THEN e.waited ELSE e.waited + 1

Begin ==
  /\ ~open
  /\ open' = TRUE
  /\ started' = TRUE
  /\ tracked' = [i \in DOMAIN tracked |->
                   [quiet |-> TRUE, quietBefore |-> tracked[i].quiet,
                    seen |-> tracked[i].seen, waited |-> OneMore(tracked[i])]]

Kernel(id) ==
  /\ open
  /\ id \in DOMAIN tracked
  /\ tracked' = [tracked EXCEPT ![id] =
                   [quiet |-> FALSE, quietBefore |-> @.quietBefore,
                    seen |-> TRUE, waited |-> 0]]
  /\ UNCHANGED <<open, started>>

Done(e) == e.quiet /\ e.quietBefore /\ (e.seen \/ e.waited > MaxAge)

End ==
  /\ open
  /\ open' = FALSE
  /\ tracked' = [i \in {j \in DOMAIN tracked : ~Done(tracked[j])} |-> tracked[i]]
  /\ UNCHANGED started

QNext ==
  \/ \E id \in Ids : Track(id) \/ Kernel(id)
  \/ Begin
  \/ End

QSpec == QInit /\ [][QNext]_qvars

=============================================================================
