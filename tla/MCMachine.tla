----------------------------- MODULE MCMachine -----------------------------
(***************************************************************************)
(* A machine of three cells a line and four or five lines a frame, whose   *)
(* program is made of instructions of each way to sample the lines.        *)
(***************************************************************************)
EXTENDS Machine

Code == INSTANCE Instructions WITH Sign <- 128

MCModes == {0, 6}
MCCharRows == [m \in MCModes |-> IF m = 0 THEN 8 ELSE 10]
MCLength == [m \in MCModes |-> 16]
MCEndLine == [m \in MCModes |-> IF m = 0 THEN 3 ELSE 2]
MCStarts == {0}
MCModeLines == {0}
MCMasks == {Lines}
MCUlaModes == {"standard"}
MCShapes == Code!ShapesOf({\h00, \h40, \h58, \h8D, \hD0})   \* BRK RTI CLI STA BNE
=============================================================================
