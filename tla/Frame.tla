------------------------------- MODULE Frame -------------------------------
(***************************************************************************)
(* What the display promises to the software of the machine: frame after   *)
(* frame the same three events, the real-time clock in the picture, the    *)
(* vertical blank when the picture goes off, and the next frame.           *)
(***************************************************************************)
EXTENDS Naturals

VARIABLES
  phase,  \* "upper" before the clock, "lower" after it, "blank"
  shown,  \* is the picture on?
  event   \* the last interrupt raised, "none" before the first

vars == <<phase, shown, event>>

Init == phase = "upper" /\ shown \in BOOLEAN /\ event = "none"

Clock ==
  /\ phase = "upper"
  /\ phase' = "lower" /\ event' = "rtc"
  /\ UNCHANGED shown

Blank ==
  /\ phase = "lower"
  /\ phase' = "blank" /\ event' = "vbl" /\ shown' = FALSE

NextFrame ==
  /\ phase = "blank"
  /\ phase' = "upper" /\ shown' = TRUE
  /\ UNCHANGED event

(* The user resets the machine. *)
Restart ==
  /\ phase' = "upper" /\ shown' = FALSE
  /\ UNCHANGED event

Next == Clock \/ Blank \/ NextFrame \/ Restart

Spec == Init /\ [][Next]_vars /\ WF_vars(Clock \/ Blank \/ NextFrame)
=============================================================================
