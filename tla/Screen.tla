------------------------------- MODULE Screen -------------------------------
(***************************************************************************)
(* The display under a program that writes the mode and the start of the   *)
(* screen whenever it likes, in the middle of a picture too, and a user    *)
(* who resets it.                                                          *)
(***************************************************************************)
EXTENDS Raster

VARIABLES
  g,          \* the display
  mode, start \* what the registers FE07, and FE02 and FE03, say

screen == <<g, mode, start>>

ScreenInit ==                          \* the ULA is a static, then resetula
  /\ g = FirstDisplay /\ mode = 6 /\ start = 0

ScreenTick == g' = Tick(g, mode, start) /\ UNCHANGED <<mode, start>>
ScreenMode == mode' \in Modes /\ UNCHANGED <<g, start>>
ScreenStart == start' \in Starts /\ UNCHANGED <<g, mode>>
ScreenReset ==
  /\ g' = FreshDisplay(g) /\ mode' = 6
  /\ UNCHANGED start

ScreenNext == ScreenTick \/ ScreenMode \/ ScreenStart \/ ScreenReset

ScreenSpec == ScreenInit /\ [][ScreenNext]_screen

-----------------------------------------------------------------------------
(* Every variable of the display has its type.                              *)
ScreenTypeOK == g \in Display /\ mode \in Modes /\ start \in Starts

(* Nothing but RAM is ever displayed: one step back by the length of the    *)
(* screen is always enough, even when the mode changed in the picture and   *)
(* rows and addresses of another mode are left over.                        *)
PictureInRam == Showing(g, mode) => CellAddress(g, mode) \in 0..(Top - 1)

(* The inductive invariant: no more lines of a row than lines of a frame.   *)
ScreenInv == ScreenTypeOK /\ g.sc <= g.y
=============================================================================
