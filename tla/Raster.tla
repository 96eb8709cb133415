------------------------------- MODULE Raster -------------------------------
(***************************************************************************)
(* The display of the ULA, yield of src/ula.c: one step of the inner loops *)
(* is a cell of eight pixels, a cycle of 2 MHz.  A line has LineCells      *)
(* cells, the first PictureCells of them visible; a frame has FrameLines   *)
(* lines, every other one one more.                                        *)
(*                                                                         *)
(* What is drawn is left out, except the address each cell is read from.   *)
(* A mode is one of 0 to 7; modes 4 to 7 read one byte for two cells.      *)
(***************************************************************************)
EXTENDS Integers

CONSTANTS
  LineCells,     \* 128: ula.x counts pixels, up to 1024
  PictureCells,  \* 80: 640 pixels
  RtcLine,       \* 99
  LastLine,      \* 258
  FrameLines,    \* 312
  Modes,         \* 0..7
  CellBytes,     \* 8: the bytes of a cell, one below the other
  CharRows,      \* modescs: the lines of a row of characters
  Length,        \* modelens: the bytes of a screen
  EndLine,       \* modeend: the first line under the picture
  Top,           \* 0x8000, the end of the RAM
  Starts         \* the values of (addrlo<<1)|(addrhi<<9)

Half(mode) == mode >= 4                \* mode & 4

RowBytes(mode) ==
  IF Half(mode) THEN (PictureCells \div 2) * CellBytes
  ELSE PictureCells * CellBytes

ASSUME RasterAssumption ==
  /\ PictureCells \in Nat \ {0} /\ LineCells \in Nat
  /\ LineCells > PictureCells
  /\ RtcLine \in Nat \ {0} /\ LastLine \in Nat /\ FrameLines \in Nat
  /\ RtcLine < LastLine /\ LastLine < FrameLines
  /\ CellBytes \in Nat \ {0} /\ Top \in Nat
  /\ Modes \subseteq 0..7 /\ 6 \in Modes
  /\ CharRows \in [Modes -> Nat \ {0}]
  /\ EndLine \in [Modes -> (RtcLine + 1)..LastLine]
  /\ Length \in [Modes -> 1..Top]
  /\ Starts \subseteq 0..(Top - 1) /\ 0 \in Starts

(* A screen is long enough that one step back by its length brings back     *)
(* what has run over the end of the RAM: a row of characters, all the lines *)
(* a frame can count without a new row, and what another mode left behind.  *)
ASSUME LengthAssumption ==
  \A m \in Modes :
    /\ PictureCells * CellBytes + FrameLines + 1 <= Length[m]
    /\ RowBytes(m) <= PictureCells * CellBytes

Display ==
  [ x : 0..(LineCells - 1), y : 0..FrameLines, sc : 0..(FrameLines + 1),
    dispon : BOOLEAN, oddeven : BOOLEAN,
    addr : 0..(Top - 1), addrback : 0..(Top - 1) ]

FirstDisplay ==
  [ x |-> 0, y |-> 0, sc |-> 0, dispon |-> FALSE, oddeven |-> FALSE,
    addr |-> 0, addrback |-> 0 ]

FreshDisplay(g) ==                     \* resetula leaves the addresses
  [g EXCEPT !.x = 0, !.y = 0, !.sc = 0, !.dispon = FALSE, !.oddeven = FALSE]

-----------------------------------------------------------------------------
(* Where a cell of the picture is read.  From the line on where the rows of *)
(* characters end (bit 3 of sc) nothing is.                                 *)
Showing(g, mode) ==
  /\ g.dispon /\ g.x < PictureCells
  /\ (g.sc \div CellBytes) % 2 = 0
  /\ Half(mode) => g.x % 2 = 0

Offset(g, mode) ==
  IF Half(mode) THEN (g.x \div 2) * CellBytes ELSE g.x * CellBytes

Wrapped_Never(address, mode) == address   \* mutant: no step back

Wrapped(address, mode) ==
  IF address >= Top THEN address - Length[mode] ELSE address

CellAddress(g, mode) == Wrapped(g.addr + g.sc + Offset(g, mode), mode)

-----------------------------------------------------------------------------
(* The end of a line *)

(* A row of characters ends when sc is what the mode says: after a change   *)
(* of mode it may have run past that.                                       *)
NextRow(g, mode) ==
  LET next == g.sc + 1
      addr == Wrapped(g.addr + RowBytes(mode), mode)
  IN  IF ~g.dispon THEN g
      ELSE IF next = CharRows[mode]
      THEN [g EXCEPT !.sc = 0, !.addr = addr, !.addrback = addr]
      ELSE [g EXCEPT !.sc = next, !.addr = g.addrback]

DisplayOff_AtLastLine(g, mode) ==      \* mutant: on until the last line
  IF g.y = LastLine THEN [g EXCEPT !.dispon = FALSE] ELSE g

DisplayOff(g, mode) ==
  IF g.y \in {EndLine[mode], LastLine} THEN [g EXCEPT !.dispon = FALSE] ELSE g

FrameOver_Late(g) ==                   \* mutant: a line too many
  g.y > FrameLines /\ (g.oddeven => g.y > FrameLines + 1)

FrameOver(g) == g.y >= FrameLines /\ (g.oddeven => g.y >= FrameLines + 1)

NextFrame(g, mode, start) ==
  LET addr == IF start = 0 THEN Top - Length[mode] ELSE start
  IN  [g EXCEPT !.y = 0, !.oddeven = ~@, !.dispon = TRUE, !.sc = 0,
                !.addr = addr, !.addrback = addr]

LineEnd(g, mode, start) ==
  LET below == [NextRow(g, mode) EXCEPT !.x = 0, !.y = @ + 1]
      shown == DisplayOff(below, mode)
  IN  IF FrameOver(shown) THEN NextFrame(shown, mode, start) ELSE shown

Tick(g, mode, start) ==
  IF g.x + 1 = LineCells THEN LineEnd(g, mode, start)
  ELSE [g EXCEPT !.x = @ + 1]

(* The interrupts of that tick, by the line that begins. *)
Raised(g, mode) ==
  IF g.x + 1 # LineCells THEN {}
  ELSE (IF g.y + 1 = RtcLine THEN {"rtc"} ELSE {})
       \cup (IF g.y + 1 = EndLine[mode] THEN {"vbl"} ELSE {})
=============================================================================
