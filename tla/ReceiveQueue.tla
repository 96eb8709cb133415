---------------------------- MODULE ReceiveQueue ----------------------------
(***************************************************************************)
(* What the receiver of a DUART channel promises, whatever its ring of     *)
(* three cells and its indexes look like: a bounded queue, and behind a    *)
(* full one a single place in which one more character waits.              *)
(*                                                                         *)
(* It says nothing of what the waiting character is worth when it enters   *)
(* the queue: the shift register that keeps it may have been cleared, or   *)
(* partly filled again, by then.                                           *)
(***************************************************************************)
EXTENDS Naturals, Sequences

CONSTANT Depth   \* places in the queue: 3 in the DUART

VARIABLES
  queue,    \* the cells that may be read, oldest first
  waiting,  \* does a character wait behind the full queue?
  overrun   \* was a waiting character shifted into since the last reset?

vars == <<queue, waiting, overrun>>

Init == queue = <<>> /\ waiting = FALSE /\ overrun = FALSE

(* One cell, any one, enters at the end of q. *)
Enters(q) == Len(queue') = Len(q) + 1
             /\ queue' = Append(q, queue'[Len(queue')])

Arrive ==
  /\ Len(queue) < Depth /\ ~waiting
  /\ Enters(queue)
  /\ UNCHANGED <<waiting, overrun>>

Hold ==
  /\ Len(queue) = Depth
  /\ waiting' = TRUE
  /\ overrun' = (overrun \/ waiting)
  /\ UNCHANGED queue

Overrun ==
  /\ waiting
  /\ overrun' = TRUE
  /\ UNCHANGED <<queue, waiting>>

(* A read takes the oldest cell and lets the waiting character in. *)
Read ==
  /\ queue # <<>>
  /\ IF waiting THEN Enters(Tail(queue)) ELSE queue' = Tail(queue)
  /\ waiting' = FALSE
  /\ UNCHANGED overrun

Clear ==
  /\ queue' = <<>> /\ waiting' = FALSE
  /\ overrun' \in {overrun, FALSE}

ForgetOverrun == overrun' = FALSE /\ UNCHANGED <<queue, waiting>>

Next == Arrive \/ Hold \/ Overrun \/ Read \/ Clear \/ ForgetOverrun

Spec == Init /\ [][Next]_vars

=============================================================================
