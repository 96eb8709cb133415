--------------------------- MODULE MachineProofs ---------------------------
(***************************************************************************)
(* Proofs about Machine for every raster, every program and every length   *)
(* of a slice: the types, that the machine's display is the one of Screen, *)
(* that a handler is entered on a fresh sample when every instruction that *)
(* leaves interrupts enabled samples the line, and that the display keeps  *)
(* its frames when the mode is written above the line of the clock; and,   *)
(* first, about the display of Screen alone, for every size of line, frame *)
(* and memory and every table of modes that keeps the assumptions of       *)
(* Raster: its counters stay in their ranges and it shows nothing but RAM. *)
(*                                                                         *)
(* The ranges of the display's counters are not inductive: a row may count *)
(* lines past its height when the mode changes, and the lines of the frame *)
(* bound it.                                                               *)
(*                                                                         *)
(* The counters of cycles are typed because the display has caught up when *)
(* an instruction is fetched, and only a reset of the CPU, which follows   *)
(* from one of the user, lets it run ahead.                                *)
(***************************************************************************)
EXTENDS Machine, TLAPS

-----------------------------------------------------------------------------
(* The constants of the raster are numbers, and no row of characters has    *)
(* more bytes than the picture has.                                         *)
LEMMA Sizes ==
  /\ PictureCells \in Nat \ {0} /\ LineCells \in Nat /\ LineCells > PictureCells
  /\ RtcLine \in Nat \ {0} /\ LastLine \in Nat /\ FrameLines \in Nat
  /\ RtcLine < LastLine /\ LastLine < FrameLines
  /\ CellBytes \in Nat \ {0} /\ Top \in Nat
  BY RasterAssumption

(* A row of characters has a number of bytes. *)
LEMMA RowBytesType ==
  ASSUME NEW mo \in Modes
  PROVE  RowBytes(mo) \in Nat
<1>1. mo \in Int /\ CellBytes \in Nat /\ PictureCells \in Nat
  BY RasterAssumption
<1>2. PictureCells \div 2 \in Nat
  BY <1>1
<1>3. (PictureCells \div 2) * CellBytes \in Nat
  BY <1>1, <1>2
<1>4. PictureCells * CellBytes \in Nat
  BY <1>1
<1> QED  BY <1>3, <1>4 DEF RowBytes

(* One step back by the length of the screen is enough for a row. *)
LEMMA RowWrapped ==
  ASSUME NEW mo \in Modes, NEW at \in 0..(Top - 1)
  PROVE  Wrapped(at + RowBytes(mo), mo) \in 0..(Top - 1)
<1>1. RowBytes(mo) \in Nat
  BY RowBytesType
<1>2. Length[mo] \in Nat /\ Length[mo] <= Top /\ Top \in Nat
  BY RasterAssumption
<1>3. RowBytes(mo) <= Length[mo]
  <2>1. PictureCells * CellBytes \in Nat
    BY Sizes
  <2>2. PictureCells * CellBytes + FrameLines + 1 <= Length[mo]
    BY LengthAssumption
  <2>3. RowBytes(mo) <= PictureCells * CellBytes
    BY LengthAssumption
  <2> HIDE DEF RowBytes
  <2> QED  BY <1>1, <1>2, <2>1, <2>2, <2>3, Sizes
<1> QED  BY <1>1, <1>2, <1>3 DEF Wrapped

(* The bytes of a cell are within the first row of the picture. *)
LEMMA OffsetBound ==
  ASSUME NEW d \in Display, NEW mo \in Modes, d.x < PictureCells
  PROVE  Offset(d, mo) \in Nat /\ Offset(d, mo) <= PictureCells * CellBytes
<1>1. d.x \in Nat /\ CellBytes \in Nat /\ PictureCells \in Nat
  BY Sizes DEF Display
<1>2. d.x \div 2 \in Nat /\ d.x \div 2 <= d.x
  BY <1>1
<1>3. \A k \in 0..PictureCells : k * CellBytes \in Nat /\ k * CellBytes <= PictureCells * CellBytes
  <2> SUFFICES ASSUME NEW k \in 0..PictureCells
               PROVE  k * CellBytes \in Nat /\ k * CellBytes <= PictureCells * CellBytes
    OBVIOUS
  <2>1. PictureCells - k \in Nat
    BY <1>1
  <2>2. (PictureCells - k) * CellBytes \in Nat
    BY <1>1, <2>1
  <2>3. (PictureCells - k) * CellBytes = PictureCells * CellBytes - k * CellBytes
    BY <1>1
  <2>4. k * CellBytes \in Nat /\ PictureCells * CellBytes \in Nat
    BY <1>1
  <2> QED  BY <2>2, <2>3, <2>4
<1>4. d.x \in 0..PictureCells /\ d.x \div 2 \in 0..PictureCells
  BY <1>1, <1>2
<1> QED  BY <1>3, <1>4 DEF Offset

(* What is displayed is in RAM, whatever mode the display is in.  (yield)   *)
LEMMA CellInRam ==
  ASSUME NEW d \in Display, NEW mo \in Modes, Showing(d, mo)
  PROVE  CellAddress(d, mo) \in 0..(Top - 1)
<1>1. d.x < PictureCells
  BY DEF Showing
<1>2. Offset(d, mo) \in Nat /\ Offset(d, mo) <= PictureCells * CellBytes
  BY <1>1, OffsetBound
<1>3. d.addr \in 0..(Top - 1) /\ d.sc \in 0..(FrameLines + 1)
  BY DEF Display
<1>4. Length[mo] \in Nat /\ Length[mo] <= Top /\ Top \in Nat
  BY RasterAssumption
<1>5. PictureCells * CellBytes \in Nat
  BY Sizes
<1>6. PictureCells * CellBytes + FrameLines + 1 <= Length[mo]
  BY LengthAssumption
<1> DEFINE over == d.sc + Offset(d, mo)
<1>7. over \in Nat /\ over <= Length[mo]
  BY <1>2, <1>3, <1>4, <1>5, <1>6, Sizes
<1>8. d.addr + d.sc + Offset(d, mo) = d.addr + over
  BY <1>2, <1>3
<1> HIDE DEF over
<1>9. Wrapped(d.addr + over, mo) \in 0..(Top - 1)
  BY <1>3, <1>4, <1>7 DEF Wrapped
<1> QED  BY <1>8, <1>9 DEF CellAddress

-----------------------------------------------------------------------------
(* The end of a line.  (yield) *)

(* A new row keeps the line and what is on; its count of lines goes up by   *)
(* one or starts again.                                                     *)
LEMMA NextRowType ==
  ASSUME NEW d \in Display, NEW mo \in Modes, d.sc <= d.y
  PROVE  LET row == NextRow(d, mo)
         IN  /\ row \in Display /\ row.y = d.y /\ row.sc <= d.y + 1
             /\ row.dispon = d.dispon /\ row.oddeven = d.oddeven
<1> DEFINE next == d.sc + 1
           at == Wrapped(d.addr + RowBytes(mo), mo)
<1>1. d.sc \in Nat /\ d.y \in 0..FrameLines /\ d.addr \in 0..(Top - 1)
      /\ d.addrback \in 0..(Top - 1)
  BY DEF Display
<1>2. next \in 0..(FrameLines + 1) /\ next <= d.y + 1 /\ 0 \in 0..(FrameLines + 1)
      /\ d.sc <= d.y + 1 /\ 0 <= d.y + 1
  BY <1>1, Sizes
<1>3. at \in 0..(Top - 1)
  BY <1>1, RowWrapped
<1> HIDE DEF next, at
<1>4. CASE ~d.dispon
  <2>1. NextRow(d, mo) = d
    BY <1>4 DEF NextRow
  <2> QED  BY <1>2, <2>1
<1>5. CASE d.dispon /\ next = CharRows[mo]
  <2>1. NextRow(d, mo) = [d EXCEPT !.sc = 0, !.addr = at, !.addrback = at]
    BY <1>5 DEF NextRow, next, at
  <2>2. NextRow(d, mo) \in Display
    BY <1>2, <1>3, <2>1 DEF Display
  <2> QED  BY <1>2, <2>1, <2>2 DEF Display
<1>6. CASE d.dispon /\ next # CharRows[mo]
  <2>1. NextRow(d, mo) = [d EXCEPT !.sc = next, !.addr = d.addrback]
    BY <1>6 DEF NextRow, next
  <2>2. NextRow(d, mo) \in Display
    BY <1>1, <1>2, <2>1 DEF Display
  <2> QED  BY <1>2, <2>1, <2>2 DEF Display
<1> QED  BY <1>4, <1>5, <1>6

(* What a cell, a new line and a new frame change of a display leaves a     *)
(* display.                                                                 *)
LEMMA CellTyped ==
  ASSUME NEW d \in Display, NEW x \in 0..(LineCells - 1)
  PROVE  [d EXCEPT !.x = x] \in Display
  BY Zenon DEF Display

(* The beginning of a line, with the picture on or off, is a display. *)
LEMMA LineTyped ==
  ASSUME NEW d \in Display, NEW y \in 0..FrameLines, NEW on \in BOOLEAN
  PROVE  [d EXCEPT !.x = 0, !.y = y, !.dispon = on] \in Display
<1>1. 0 \in 0..(LineCells - 1)
  BY Sizes
<1> QED  BY <1>1, Zenon DEF Display

(* So is the beginning of a frame, at any address in RAM. *)
LEMMA FrameTyped ==
  ASSUME NEW d \in Display, NEW to \in 0..(Top - 1), NEW odd \in BOOLEAN
  PROVE  [d EXCEPT !.x = 0, !.y = 0, !.oddeven = odd, !.dispon = TRUE,
                   !.sc = 0, !.addr = to, !.addrback = to] \in Display
<1>1. 0 \in 0..(LineCells - 1) /\ 0 \in 0..FrameLines /\ 0 \in 0..(FrameLines + 1)
  BY Sizes
<1>2. TRUE \in BOOLEAN
  OBVIOUS
<1> QED  BY <1>1, <1>2, Zenon DEF Display

(* A frame that goes on, and one that is over: what the end of a line makes *)
(* of the display.                                                          *)
LEMMA LineEndCases ==
  ASSUME NEW d \in Display, NEW mo \in Modes, NEW st \in Starts, d.sc <= d.y
  PROVE  LET after == LineEnd(d, mo, st)
         IN  \/ /\ d.y + 1 <= FrameLines
                /\ after \in Display /\ after.y = d.y + 1 /\ after.sc <= after.y
                /\ after.dispon = (d.dispon /\ d.y + 1 \notin {EndLine[mo], LastLine})
             \/ /\ d.y + 1 >= FrameLines
                /\ after \in Display /\ after.y = 0 /\ after.sc = 0
                /\ after.dispon = TRUE
<1> DEFINE row == NextRow(d, mo)
           below == [row EXCEPT !.x = 0, !.y = @ + 1]
           shown == DisplayOff(below, mo)
<1>1. /\ row \in Display /\ row.y = d.y /\ row.sc <= d.y + 1
      /\ row.dispon = d.dispon /\ row.oddeven = d.oddeven
  BY NextRowType
<1>2. d.y \in 0..FrameLines
  BY DEF Display
<1>3. /\ below = [row EXCEPT !.x = 0, !.y = d.y + 1]
      /\ below.y = d.y + 1 /\ below.sc = row.sc /\ below.dispon = d.dispon
      /\ below.oddeven = d.oddeven
  BY <1>1 DEF Display
<1>4. /\ shown.y = d.y + 1 /\ shown.sc = row.sc /\ shown.oddeven = d.oddeven
      /\ shown.dispon = (d.dispon /\ d.y + 1 \notin {EndLine[mo], LastLine})
      /\ d.y + 1 <= FrameLines => shown \in Display
      /\ shown = [row EXCEPT !.x = 0, !.y = d.y + 1, !.dispon = shown.dispon]
  <2>1. CASE d.y + 1 \in {EndLine[mo], LastLine}
    <3>1. shown = [below EXCEPT !.dispon = FALSE]
      BY <1>3, <2>1 DEF DisplayOff
    <3>2. shown = [row EXCEPT !.x = 0, !.y = d.y + 1, !.dispon = FALSE]
      BY <1>1, <1>3, <3>1 DEF Display
    <3>3. d.y + 1 <= FrameLines => shown \in Display
      <4>1. d.y + 1 <= FrameLines => d.y + 1 \in 0..FrameLines
        BY <1>2, Sizes
      <4>2. FALSE \in BOOLEAN
        OBVIOUS
      <4> QED  BY <1>1, <3>2, <4>1, <4>2, LineTyped, Zenon
    <3> HIDE DEF shown, below, row
    <3> QED  BY <1>1, <1>3, <2>1, <3>2, <3>3 DEF Display
  <2>2. CASE d.y + 1 \notin {EndLine[mo], LastLine}
    <3>1. shown = below
      BY <1>3, <2>2 DEF DisplayOff
    <3>2. d.y + 1 <= FrameLines => shown \in Display
      <4>1. d.y + 1 <= FrameLines => d.y + 1 \in 0..FrameLines
        BY <1>2, Sizes
      <4>2. row.dispon \in BOOLEAN
        BY <1>1, Zenon DEF Display
      <4>3. shown = [row EXCEPT !.x = 0, !.y = d.y + 1, !.dispon = row.dispon]
        BY <1>1, <1>3, <3>1 DEF Display
      <4> HIDE DEF shown, below, row
      <4> QED  BY <1>1, <4>1, <4>2, <4>3, LineTyped, Zenon
    <3> HIDE DEF shown, row
    <3> QED  BY <1>1, <1>3, <2>2, <3>1, <3>2 DEF Display
  <2> QED  BY <2>1, <2>2
<1>5. LineEnd(d, mo, st) = IF FrameOver(shown) THEN NextFrame(shown, mo, st) ELSE shown
  BY DEF LineEnd
<1>6. FrameOver(shown) <=> d.y + 1 >= FrameLines /\ (d.oddeven => d.y + 1 >= FrameLines + 1)
  BY <1>4 DEF FrameOver
<1> HIDE DEF shown, below
<1>7. CASE FrameOver(shown)
  <2> DEFINE to == IF st = 0 THEN Top - Length[mo] ELSE st
             odd == ~shown.oddeven
  <2>1. NextFrame(shown, mo, st) =
          [shown EXCEPT !.y = 0, !.oddeven = odd, !.dispon = TRUE,
                        !.sc = 0, !.addr = to, !.addrback = to]
    BY DEF NextFrame
  <2>2. to \in 0..(Top - 1)
    BY RasterAssumption
  <2>3. odd \in BOOLEAN
    OBVIOUS
  <2> HIDE DEF to, odd
  <2>4. NextFrame(shown, mo, st) =
          [row EXCEPT !.x = 0, !.y = 0, !.oddeven = odd, !.dispon = TRUE,
                      !.sc = 0, !.addr = to, !.addrback = to]
    BY <1>1, <1>4, <2>1 DEF Display
  <2> HIDE DEF row
  <2>5. NextFrame(shown, mo, st) \in Display
    <3> DEFINE new(a, b) == [row EXCEPT !.x = 0, !.y = 0, !.oddeven = b,
                               !.dispon = TRUE, !.sc = 0, !.addr = a, !.addrback = a]
    <3>1. row \in Display
      BY <1>1
    <3>2. \A a \in 0..(Top - 1), b \in BOOLEAN : new(a, b) \in Display
      BY <3>1, FrameTyped, Zenon
    <3>3. new(to, odd) \in Display
      BY <2>2, <2>3, <3>2, Zenon
    <3> QED  BY <2>4, <3>3, Zenon
  <2>6. /\ NextFrame(shown, mo, st).y = 0 /\ NextFrame(shown, mo, st).sc = 0
        /\ NextFrame(shown, mo, st).dispon = TRUE
    BY <1>1, <2>4 DEF Display
  <2> QED  BY <1>5, <1>6, <1>7, <2>5, <2>6
<1>8. CASE ~FrameOver(shown)
  <2>1. d.y + 1 <= FrameLines
    BY <1>1, <1>2, <1>6, <1>8, Sizes DEF Display
  <2> QED  BY <1>1, <1>4, <1>5, <1>8, <2>1
<1> QED  BY <1>7, <1>8

(* A step of the raster and a reset keep the counters of a display right.   *)
LEMMA TickKeeps ==
  ASSUME NEW d \in Display, NEW mo \in Modes, NEW st \in Starts, d.sc <= d.y
  PROVE  Tick(d, mo, st) \in Display /\ Tick(d, mo, st).sc <= Tick(d, mo, st).y
<1>1. CASE d.x + 1 = LineCells
  <2>1. Tick(d, mo, st) = LineEnd(d, mo, st)
    BY <1>1 DEF Tick
  <2>2. LineEnd(d, mo, st) \in Display
    BY LineEndCases, Zenon
  <2>3. \/ LineEnd(d, mo, st).sc <= LineEnd(d, mo, st).y
        \/ LineEnd(d, mo, st).y = 0 /\ LineEnd(d, mo, st).sc = 0
    BY LineEndCases, Zenon
  <2> QED  BY <2>1, <2>2, <2>3
<1>2. CASE d.x + 1 # LineCells
  <2>1. Tick(d, mo, st) = [d EXCEPT !.x = d.x + 1]
    BY <1>2 DEF Tick
  <2>2. d.x + 1 \in 0..(LineCells - 1)
    BY <1>2, Sizes DEF Display
  <2>3. Tick(d, mo, st) \in Display
    BY <2>1, <2>2, CellTyped, Zenon
  <2>4. Tick(d, mo, st).sc = d.sc /\ Tick(d, mo, st).y = d.y
    BY <2>1 DEF Display
  <2> QED  BY <2>3, <2>4
<1> QED  BY <1>1, <1>2

(* A reset display is one, at the top of the frame, with no picture. *)
LEMMA FreshKeeps ==
  ASSUME NEW d \in Display
  PROVE  /\ FreshDisplay(d) \in Display
         /\ FreshDisplay(d).y = 0 /\ FreshDisplay(d).sc = 0
         /\ FreshDisplay(d).dispon = FALSE
<1>1. 0 \in 0..(LineCells - 1) /\ 0 \in 0..FrameLines /\ 0 \in 0..(FrameLines + 1)
  BY Sizes
<1>2. FALSE \in BOOLEAN
  OBVIOUS
<1>3. FreshDisplay(d) \in Display
  BY <1>1, <1>2, Zenon DEF Display, FreshDisplay
<1> QED  BY <1>3 DEF Display, FreshDisplay

(* The machine is switched on with such a display. *)
LEMMA FirstInv ==
  ASSUME ScreenInit
  PROVE  ScreenInv
<1>1. 0 \in 0..(LineCells - 1) /\ 0 \in 0..FrameLines /\ 0 \in 0..(FrameLines + 1)
      /\ 0 \in 0..(Top - 1)
  BY Sizes, RasterAssumption
<1>2. FALSE \in BOOLEAN
  OBVIOUS
<1>3. FirstDisplay \in Display
  BY <1>1, <1>2, Zenon DEF Display, FirstDisplay
<1>4. FirstDisplay.sc = 0 /\ FirstDisplay.y = 0
  BY DEF FirstDisplay
<1>5. 6 \in Modes /\ 0 \in Starts
  BY RasterAssumption
<1> QED  BY <1>3, <1>4, <1>5 DEF ScreenInit, ScreenInv, ScreenTypeOK

-----------------------------------------------------------------------------
(* The invariant of the display holds at first, and every step keeps it:    *)
(* a cell, a mode, a start address, a reset.                                *)
LEMMA ScreenStep ==
  ASSUME ScreenInv, [ScreenNext]_screen
  PROVE  ScreenInv'
<1>1. g \in Display /\ mode \in Modes /\ start \in Starts /\ g.sc <= g.y
  BY DEF ScreenInv, ScreenTypeOK
<1>2. CASE ScreenTick
  BY <1>1, <1>2, TickKeeps DEF ScreenTick, ScreenInv, ScreenTypeOK
<1>3. CASE ScreenMode
  BY <1>1, <1>3 DEF ScreenMode, ScreenInv, ScreenTypeOK
<1>4. CASE ScreenStart
  BY <1>1, <1>4 DEF ScreenStart, ScreenInv, ScreenTypeOK
<1>5. CASE ScreenReset
  <2>1. 6 \in Modes
    BY RasterAssumption
  <2>2. g' = FreshDisplay(g) /\ mode' = 6 /\ start' = start
    BY <1>5 DEF ScreenReset
  <2>3. g' \in Display /\ g'.y = 0 /\ g'.sc = 0
    BY <1>1, <2>2, FreshKeeps
  <2> QED  BY <1>1, <2>1, <2>2, <2>3 DEF ScreenInv, ScreenTypeOK
<1>6. CASE UNCHANGED screen
  BY <1>1, <1>6 DEF screen, ScreenInv, ScreenTypeOK
<1> QED  BY <1>2, <1>3, <1>4, <1>5, <1>6 DEF ScreenNext

(* The counters of the raster and the registers keep their ranges, and a    *)
(* row never counts more lines than the frame has shown, whatever modes and *)
(* start addresses are written and whenever the display is reset.           *)
THEOREM ScreenCorrect == ScreenSpec => []ScreenInv
<1>1. ScreenInit => ScreenInv
  BY FirstInv
<1>2. ScreenInv /\ [ScreenNext]_screen => ScreenInv'
  BY ScreenStep
<1> QED  BY <1>1, <1>2, PTL DEF ScreenSpec

(* Nothing but RAM is ever displayed, for every memory, every table of      *)
(* modes whose screens are long enough, and every order of writes and       *)
(* resets in the middle of a picture.                                       *)
THEOREM PictureKept == ScreenSpec => []PictureInRam
<1>1. ScreenInv => PictureInRam
  BY CellInRam DEF ScreenInv, ScreenTypeOK, PictureInRam
<1> QED  BY <1>1, ScreenCorrect, PTL

-----------------------------------------------------------------------------
(* The machine's display *)

(* Whatever the machine does is a step of the display alone, or none.       *)
LEMMA StepOfScreen ==
  ASSUME [Next]_vars
  PROVE  [ScreenNext]_screen
<1> USE DEF screen
<1>1. CASE Fetch
  BY <1>1 DEF Fetch, ula
<1>2. CASE Access
  BY <1>2 DEF Access, ula
<1>3. CASE Charged
  BY <1>3 DEF Charged, ula
<1>4. CASE WriteEnable
  BY <1>4 DEF WriteEnable, Store
<1>5. CASE WriteClear
  BY <1>5 DEF WriteClear, Store
<1>6. CASE WriteMode
  BY <1>6 DEF WriteMode, Store, ScreenNext, ScreenMode
<1>7. CASE WriteStart
  BY <1>7 DEF WriteStart, Store, ScreenNext, ScreenStart
<1>8. CASE Display_Tick
  BY <1>8 DEF Display_Tick, ScreenNext
<1>9. CASE DoInts
  BY <1>9 DEF DoInts, ula
<1>10. CASE Enter
  BY <1>10 DEF Enter, ula
<1>11. CASE EndInstruction
  BY <1>11 DEF EndInstruction, ula
<1>12. CASE EndSlice
  BY <1>12 DEF EndSlice
<1>13. CASE HardReset
  BY <1>13 DEF HardReset, ResetUla, ScreenNext
<1>14. CASE BreakKey
  BY <1>14 DEF BreakKey
<1>15. CASE LoadRom
  BY <1>15 DEF LoadRom, ResetUla, ScreenNext
<1>16. CASE UNCHANGED vars
  BY <1>16 DEF vars
<1> QED  BY <1>1, <1>2, <1>3, <1>4, <1>5, <1>6, <1>7, <1>8, <1>9, <1>10, <1>11,
            <1>12, <1>13, <1>14, <1>15, <1>16 DEF Next, Cpu, User

(* The machine implements Screen: the display under a program that writes   *)
(* its registers whenever it likes, all that PictureKept is about.          *)
THEOREM MachineIsScreen == Spec => ScreenSpec
<1>1. Init => ScreenInit
  BY DEF Init
<1>2. [Next]_vars => [ScreenNext]_screen
  BY StepOfScreen
<1> QED  BY <1>1, <1>2, PTL DEF Spec, ScreenSpec

-----------------------------------------------------------------------------
(* Types *)

LinesOK == isr \subseteq Lines /\ ier \subseteq Lines /\ irq \in BOOLEAN
           /\ event \in {"none"} \cup Lines

CpuOK ==
  /\ ulamode \in UlaModes
  /\ i \in BOOLEAN /\ realirq \in BOOLEAN
  /\ stage \in {"fetch", "run", "enter"}
  /\ leaves \in BOOLEAN /\ fresh \in BOOLEAN
  /\ todo \in Seq(Steps)
  /\ cpureset \in BOOLEAN /\ resets \in 0..MaxResets

(* The display has caught up when an instruction is fetched, and is ahead   *)
(* only after a reset, at once or due.                                      *)
TimeOK ==
  /\ cycles \in Nat /\ ulacycles \in Nat
  /\ stage = "fetch" => ulacycles >= cycles
  /\ resets = 0 => ulacycles <= cycles /\ ~cpureset

MachineInv == ScreenInv /\ LinesOK /\ CpuOK /\ TimeOK

(* The invariant implies the types of all the variables. *)
LEMMA InvIsTyped ==
  ASSUME MachineInv
  PROVE  TypeOK
  BY DEF MachineInv, ScreenInv, LinesOK, CpuOK, TimeOK, TypeOK

(* It holds when the machine is switched on. *)
LEMMA FirstMachineInv ==
  ASSUME Init
  PROVE  MachineInv
<1>1. ScreenInv
  BY FirstInv DEF Init
<1>2. LinesOK
  BY DEF Init, LinesOK
<1>3. CpuOK
  <2>1. 0 \in 0..MaxResets
    BY MachineAssumption
  <2>2. todo \in Seq(Steps)
    BY DEF Init
  <2> QED  BY <2>1, <2>2 DEF Init, CpuOK
<1>4. TimeOK
  BY DEF Init, TimeOK
<1> QED  BY <1>1, <1>2, <1>3, <1>4 DEF MachineInv

(* The interrupt registers stay sets of lines. *)
LEMMA LinesStep ==
  ASSUME LinesOK, [Next]_vars
  PROVE  LinesOK'
<1> USE DEF LinesOK
<1>1. CASE Fetch
  BY <1>1 DEF Fetch, ula
<1>2. CASE Access
  BY <1>2 DEF Access, ula
<1>3. CASE Charged
  BY <1>3 DEF Charged, ula
<1>4. CASE WriteEnable
  BY <1>4, MachineAssumption DEF WriteEnable, Store
<1>5. CASE WriteClear
  BY <1>5 DEF WriteClear, Store
<1>6. CASE WriteMode
  BY <1>6 DEF WriteMode, Store
<1>7. CASE WriteStart
  BY <1>7 DEF WriteStart, Store
<1>8. CASE Display_Tick
  <2> DEFINE raised == Raised(g, mode)
  <2>1. raised \subseteq Lines
    BY DEF Raised, Lines
  <2>2. raised # {} => (CHOOSE line \in raised : TRUE) \in raised
    OBVIOUS
  <2>3. ier' = ier
    BY <1>8 DEF Display_Tick
  <2>4. CASE raised = {}
    <3>1. UNCHANGED <<isr, irq, event>>
      BY <1>8, <2>4 DEF Display_Tick
    <3> QED  BY <2>3, <3>1
  <2>5. CASE raised # {}
    <3>1. /\ isr' = isr \cup raised /\ irq' = (isr' \cap ier # {})
          /\ event' = CHOOSE line \in raised : TRUE
      BY <1>8, <2>5 DEF Display_Tick
    <3> HIDE DEF raised
    <3> QED  BY <2>1, <2>2, <2>3, <2>5, <3>1
  <2> QED  BY <2>4, <2>5
<1>9. CASE DoInts
  BY <1>9 DEF DoInts, ula
<1>10. CASE Enter
  BY <1>10 DEF Enter, ula
<1>11. CASE EndInstruction
  BY <1>11 DEF EndInstruction, ula
<1>12. CASE EndSlice
  BY <1>12 DEF EndSlice
<1>13. CASE HardReset
  BY <1>13 DEF HardReset, UserResets, ResetUla
<1>14. CASE BreakKey
  BY <1>14 DEF BreakKey, UserResets
<1>15. CASE LoadRom
  BY <1>15 DEF LoadRom, UserResets, ResetUla
<1>16. CASE UNCHANGED vars
  BY <1>16 DEF vars
<1> QED  BY <1>1, <1>2, <1>3, <1>4, <1>5, <1>6, <1>7, <1>8, <1>9, <1>10, <1>11,
            <1>12, <1>13, <1>14, <1>15, <1>16 DEF Next, Cpu, User

(* The sequence of steps of an instruction only gets shorter. *)
LEMMA TailType ==
  ASSUME NEW q \in Seq(Steps), q # <<>>
  PROVE  Tail(q) \in Seq(Steps)
  OBVIOUS

(* The registers of the CPU and what the user asks for keep their types. *)
LEMMA CpuStep ==
  ASSUME CpuOK, irq \in BOOLEAN, [Next]_vars
  PROVE  CpuOK'
<1> USE DEF CpuOK
<1>1. CASE Fetch
  <2>1. PICK shape \in Shapes : todo' = shape.todo /\ leaves' = shape.leaves
    BY <1>1 DEF Fetch, Program
  <2>2. shape.todo \in Seq(Steps) /\ shape.leaves \in BOOLEAN
    BY MachineAssumption, Zenon
  <2> QED  BY <1>1, <2>1, <2>2 DEF Fetch, ula, user
<1>2. CASE Access
  BY <1>2, TailType DEF Access, NextStep, ula, user
<1>3. CASE Charged
  BY <1>3, TailType DEF Charged, NextStep, ula, user
<1>4. CASE WriteEnable
  BY <1>4, TailType DEF WriteEnable, Store, NextStep, user
<1>5. CASE WriteClear
  BY <1>5, TailType DEF WriteClear, Store, NextStep, user
<1>6. CASE WriteMode
  BY <1>6, TailType DEF WriteMode, Store, NextStep, user
<1>7. CASE WriteStart
  BY <1>7, TailType DEF WriteStart, Store, NextStep, user
<1>8. CASE Display_Tick
  BY <1>8 DEF Display_Tick, cpu, user
<1>9. CASE DoInts
  BY <1>9, TailType DEF DoInts, NextStep, ula, user
<1>10. CASE Enter
  <2>1. EntrySteps \in Seq(Steps)
    BY DEF EntrySteps, Steps
  <2> QED  BY <1>10, <2>1 DEF Enter, ula, user
<1>11. CASE EndInstruction
  BY <1>11 DEF EndInstruction, Reset6502, ula
<1>12. CASE EndSlice
  BY <1>12 DEF EndSlice
<1>13. CASE User
  <2>1. resets + 1 \in 0..MaxResets /\ resets' = resets + 1
    BY <1>13, MachineAssumption DEF User, HardReset, BreakKey, LoadRom, UserResets
  <2>2. UNCHANGED <<ulamode, realirq, stage, todo, leaves, fresh>>
    BY <1>13 DEF User, HardReset, BreakKey, LoadRom, UserResets
  <2>3. cpureset' \in BOOLEAN /\ i' \in BOOLEAN
    BY <1>13 DEF User, HardReset, BreakKey, LoadRom, Reset6502
  <2> QED  BY <2>1, <2>2, <2>3
<1>14. CASE UNCHANGED vars
  BY <1>14 DEF vars
<1> HIDE DEF CpuOK
<1> QED  BY <1>1, <1>2, <1>3, <1>4, <1>5, <1>6, <1>7, <1>8, <1>9, <1>10, <1>11,
            <1>12, <1>13, <1>14 DEF Next, Cpu

(* What an access waits is never negative: in the picture there are cells   *)
(* of the line to come.  (waitforramsync) *)
LEMMA ReadyType ==
  ASSUME g \in Display, NEW c \in Nat, NEW place
  PROVE  Ready(place, c) \in Nat /\ Ready(place, c) >= c
<1>1. g.x \in Nat /\ PictureCells \in Nat
  BY Sizes DEF Display
<1>2. c % 2 \in Nat
  OBVIOUS
<1>3. g.x < PictureCells => PictureCells - g.x \in Nat
  BY <1>1
<1>4. Wait(c) \in Nat
  <2> DEFINE picture == g.dispon /\ g.x < PictureCells
  <2>1. CASE picture /\ ~Half(mode)
    BY <1>3, <2>1 DEF Wait
  <2>2. CASE picture /\ Half(mode)
    BY <1>2, <2>2 DEF Wait
  <2>3. CASE ~picture
    BY <1>2, <2>3 DEF Wait
  <2> QED  BY <2>1, <2>2, <2>3
<1> QED  BY <1>4 DEF Ready

(* The counters of cycles: the CPU's only goes up in an instruction, the    *)
(* display's goes up to it, and both lose a slice at once.                  *)
LEMMA TimeStep ==
  ASSUME TimeOK, g \in Display, resets \in Nat, [Next]_vars
  PROVE  TimeOK'
<1> USE DEF TimeOK
<1>1. CASE Fetch
  <2>1. PICK place \in Places : cycles' = Ready(place, cycles) + 1
    BY <1>1 DEF Fetch
  <2>2. cycles' \in Nat /\ cycles' >= cycles
    BY <2>1, ReadyType
  <2> QED  BY <1>1, <2>2 DEF Fetch, ula, user
<1>2. CASE Access
  <2>1. PICK place \in Places :
          cycles' = Ready(place, cycles) + (IF Head(todo) = "r" THEN 0 ELSE 1)
    BY <1>2 DEF Access
  <2>2. cycles' \in Nat /\ cycles' >= cycles
    BY <2>1, ReadyType
  <2> QED  BY <1>2, <2>2 DEF Access, NextStep, ula, user
<1>3. CASE Charged
  BY <1>3 DEF Charged, NextStep, ula, user
<1>4. CASE WriteEnable \/ WriteClear \/ WriteMode \/ WriteStart
  <2>1. Store
    BY <1>4 DEF WriteEnable, WriteClear, WriteMode, WriteStart
  <2> QED  BY <2>1 DEF Store, NextStep, user
<1>5. CASE Display_Tick
  <2>1. stage # "fetch"
    BY <1>5 DEF Display_Tick, Yields, NextStep
  <2> QED  BY <1>5, <2>1 DEF Display_Tick, cpu, user
<1>6. CASE DoInts
  BY <1>6 DEF DoInts, ula, user
<1>7. CASE Enter
  BY <1>7 DEF Enter, ula, user
<1>8. CASE EndInstruction
  BY <1>8 DEF EndInstruction, Reset6502, ula
<1>9. CASE EndSlice
  BY <1>9, MachineAssumption DEF EndSlice, SliceOver
<1>10. CASE User
  <2>1. ulacycles' = ulacycles - Slice /\ resets' # 0 /\ stage' = stage /\ stage = "fetch"
        /\ cycles >= Slice
    BY <1>10 DEF User, HardReset, BreakKey, LoadRom, UserResets, SliceOver
  <2>2. cycles' = 0 \/ cycles' = cycles - Slice
    BY <1>10 DEF User, HardReset, BreakKey, LoadRom, Reset6502
  <2> QED  BY <2>1, <2>2, MachineAssumption
<1>11. CASE UNCHANGED vars
  BY <1>11 DEF vars
<1> QED  BY <1>1, <1>2, <1>3, <1>4, <1>5, <1>6, <1>7, <1>8, <1>9, <1>10, <1>11
         DEF Next, Cpu

(* It is kept by every step, part by part. *)
LEMMA MachineStep ==
  ASSUME MachineInv, [Next]_vars
  PROVE  MachineInv'
<1>1. ScreenInv'
  BY StepOfScreen, ScreenStep DEF MachineInv
<1>2. LinesOK'
  BY LinesStep DEF MachineInv
<1>3. CpuOK'
  BY CpuStep DEF MachineInv, LinesOK
<1>4. TimeOK'
  <2>1. g \in Display /\ TimeOK
    BY DEF MachineInv, ScreenInv, ScreenTypeOK
  <2>2. resets \in Nat
    BY MachineAssumption DEF MachineInv, CpuOK
  <2> QED  BY <2>1, <2>2, TimeStep
<1> QED  BY <1>1, <1>2, <1>3, <1>4 DEF MachineInv

(* The counters of cycles never go below 0, the display is never ahead of   *)
(* the CPU before a reset, and the counters of the raster and the steps of  *)
(* an instruction keep their types, for any program and any RAM interface.  *)
THEOREM MachineTypeCorrect == Spec => []TypeOK
<1>1. Init => MachineInv
  BY FirstMachineInv
<1>2. MachineInv /\ [Next]_vars => MachineInv'
  BY MachineStep
<1>3. MachineInv => TypeOK
  BY InvIsTyped
<1> QED  BY <1>1, <1>2, <1>3, PTL DEF Spec
-----------------------------------------------------------------------------
(* Fresh samples.  An instruction that leaves the i flag clear samples the  *)
(* lines somewhere on its way: SamplesLines of module Decode says so of     *)
(* every opcode.                                                            *)
ToSample(steps) == \E k \in 1..Len(steps) : steps[k] = "I"

SampledOrMasked == \A shape \in Shapes : shape.leaves \/ ToSample(shape.todo)

(* While an instruction runs its sample is taken or still to come. *)
FreshInv ==
  /\ stage = "run" => fresh \/ leaves \/ ToSample(todo)
  /\ stage = "enter" => fresh

(* A step that is not the sample leaves it to come. *)
LEMMA SampleToCome ==
  ASSUME NEW q \in Seq(Steps), q # <<>>, Head(q) # "I", ToSample(q)
  PROVE  ToSample(Tail(q))
<1>1. PICK k \in 1..Len(q) : q[k] = "I"
  BY DEF ToSample
<1>2. Head(q) = q[1] /\ Len(q) \in Nat
  OBVIOUS
<1>3. k - 1 \in 1..Len(Tail(q)) /\ Tail(q)[k - 1] = q[k]
  BY <1>1, <1>2
<1> QED  BY <1>1, <1>3 DEF ToSample

(* Every step keeps it, if every instruction has a sample when it needs one. *)
LEMMA FreshStep ==
  ASSUME SampledOrMasked, CpuOK, FreshInv, [Next]_vars
  PROVE  FreshInv'
<1>1. todo \in Seq(Steps)
  BY DEF CpuOK
<1>2. CASE Fetch
  <2>1. PICK shape \in Shapes : todo' = shape.todo /\ leaves' = shape.leaves
    BY <1>2 DEF Fetch, Program, CpuOK
  <2>2. stage' = "run"
    BY <1>2 DEF Fetch
  <2>3. leaves' \/ ToSample(todo')
    BY <2>1 DEF SampledOrMasked
  <2> QED  BY <2>2, <2>3 DEF FreshInv
<1>3. CASE Access \/ Charged \/ WriteEnable \/ WriteClear \/ WriteMode \/ WriteStart
  <2>1. /\ todo # <<>> /\ Head(todo) # "I" /\ todo' = Tail(todo)
        /\ UNCHANGED <<stage, leaves, fresh>>
    BY <1>3 DEF Access, Charged, WriteEnable, WriteClear, WriteMode, WriteStart,
                Store, NextStep
  <2> QED  BY <1>1, <2>1, SampleToCome DEF FreshInv
<1>4. CASE Display_Tick
  BY <1>4 DEF Display_Tick, cpu, FreshInv
<1>5. CASE DoInts
  BY <1>5 DEF DoInts, FreshInv
<1>6. CASE Enter
  <2>1. ~ToSample(<<>>)
    BY DEF ToSample
  <2>2. fresh /\ fresh' = fresh /\ stage' = "enter"
    BY <1>6, <2>1 DEF Enter, FreshInv
  <2> QED  BY <2>2 DEF FreshInv
<1>7. CASE EndInstruction
  BY <1>7 DEF EndInstruction, FreshInv
<1>8. CASE EndSlice
  BY <1>8 DEF EndSlice, SliceOver, FreshInv
<1>9. CASE User
  BY <1>9 DEF User, HardReset, BreakKey, LoadRom, UserResets, SliceOver, FreshInv
<1>10. CASE UNCHANGED vars
  BY <1>10 DEF vars, FreshInv
<1> QED  BY <1>2, <1>3, <1>4, <1>5, <1>6, <1>7, <1>8, <1>9, <1>10 DEF Next, Cpu

(* A handler is never entered on a sample of an earlier instruction, for    *)
(* any program whose instructions sample the lines or leave interrupts      *)
(* disabled.                                                                *)
THEOREM HandlerEnteredFresh ==
  ASSUME SampledOrMasked
  PROVE  Spec => []IrqFresh
<1>1. Init => MachineInv /\ FreshInv
  BY FirstMachineInv DEF Init, FreshInv
<1>2. MachineInv /\ FreshInv /\ [Next]_vars => (MachineInv /\ FreshInv)'
  <2>1. MachineInv => CpuOK
    BY DEF MachineInv
  <2> QED  BY <2>1, MachineStep, FreshStep
<1>3. FreshInv => IrqFresh
  BY DEF FreshInv, IrqFresh
<1> QED  BY <1>1, <1>2, <1>3, PTL DEF Spec

-----------------------------------------------------------------------------
(* Frames.  The phase of the frame is a function of the line and the mode,  *)
(* and does not change when the mode does above the line of the clock.      *)
ModesAbove == ModeLines \subseteq 0..(RtcLine - 1)

Phase(d, mo) ==
  CASE d.y < RtcLine -> "upper"
    [] d.y >= RtcLine /\ d.y < EndLine[mo] -> "lower"
    [] OTHER -> "blank"

(* The display is off under the picture. *)
FrameInv == Phase(g, mode) = "blank" => ~g.dispon

(* The picture of every mode ends below the line of the clock. *)
LEMMA EndLineBetween ==
  ASSUME NEW mo \in Modes
  PROVE  EndLine[mo] \in Int /\ RtcLine < EndLine[mo] /\ EndLine[mo] <= LastLine
  BY RasterAssumption

(* What a tick may do to the phase and to the picture, with the interrupts  *)
(* it raises: nothing, or one of the three events of a frame.               *)
PhaseStep(d, after, mo, raised) ==
  /\ Phase(after, mo) = "blank" => ~after.dispon
  /\ \/ /\ Phase(after, mo) = Phase(d, mo) /\ after.dispon = d.dispon
        /\ raised = {}
     \/ /\ Phase(d, mo) = "upper" /\ Phase(after, mo) = "lower"
        /\ after.dispon = d.dispon /\ raised = {"rtc"}
     \/ /\ Phase(d, mo) = "lower" /\ Phase(after, mo) = "blank"
        /\ after.dispon = FALSE /\ raised = {"vbl"}
     \/ /\ Phase(d, mo) = "blank" /\ Phase(after, mo) = "upper"
        /\ after.dispon = TRUE /\ raised = {}

(* A tick of the raster is such a step.  (yield) *)
LEMMA TickPhases ==
  ASSUME NEW d \in Display, NEW mo \in Modes, NEW st \in Starts, d.sc <= d.y,
         Phase(d, mo) = "blank" => ~d.dispon
  PROVE  PhaseStep(d, Tick(d, mo, st), mo, Raised(d, mo))
<1> DEFINE after == Tick(d, mo, st)
<1> SUFFICES PhaseStep(d, after, mo, Raised(d, mo))
  OBVIOUS
<1>1. d.y \in 0..FrameLines /\ d.dispon \in BOOLEAN
  BY DEF Display
<1>2. EndLine[mo] \in Int /\ RtcLine < EndLine[mo] /\ EndLine[mo] <= LastLine
  BY EndLineBetween
<1>3. CASE d.x + 1 # LineCells
  <2>1. after = [d EXCEPT !.x = d.x + 1]
    BY <1>3 DEF Tick
  <2>2. after.y = d.y /\ after.dispon = d.dispon
    BY <2>1 DEF Display
  <2>3. Raised(d, mo) = {}
    BY <1>3 DEF Raised
  <2> HIDE DEF after
  <2>4. Phase(after, mo) = Phase(d, mo)
    BY <2>2 DEF Phase
  <2> QED  BY <2>2, <2>3, <2>4 DEF PhaseStep
<1>4. CASE d.x + 1 = LineCells
  <2> DEFINE end == LineEnd(d, mo, st)
  <2>1. after = end
    BY <1>4 DEF Tick
  <2>2. Raised(d, mo) = (IF d.y + 1 = RtcLine THEN {"rtc"} ELSE {})
                         \cup (IF d.y + 1 = EndLine[mo] THEN {"vbl"} ELSE {})
    BY <1>4 DEF Raised
  <2>3. \/ /\ d.y + 1 <= FrameLines /\ end.y = d.y + 1
           /\ end.dispon = (d.dispon /\ d.y + 1 \notin {EndLine[mo], LastLine})
        \/ /\ d.y + 1 >= FrameLines /\ end.y = 0 /\ end.dispon = TRUE
    BY LineEndCases, Zenon
  <2> HIDE DEF end, after
  <2>4. CASE after.y = 0
    <3>1. d.y + 1 >= FrameLines /\ after.dispon = TRUE
      BY <1>1, <2>1, <2>3, <2>4
    <3>2. Phase(d, mo) = "blank" /\ Phase(after, mo) = "upper"
      BY <1>1, <1>2, <2>4, <3>1, Sizes DEF Phase
    <3>3. Raised(d, mo) = {}
      BY <1>1, <1>2, <2>2, <3>1, Sizes
    <3> QED  BY <3>1, <3>2, <3>3 DEF PhaseStep
  <2>5. CASE after.y # 0
    <3>1. /\ d.y + 1 <= FrameLines /\ after.y = d.y + 1
          /\ after.dispon = (d.dispon /\ d.y + 1 \notin {EndLine[mo], LastLine})
      BY <2>1, <2>3, <2>5
    <3>2. CASE d.y + 1 = RtcLine
      <4>1. Phase(d, mo) = "upper" /\ Phase(after, mo) = "lower"
        BY <1>1, <1>2, <3>1, <3>2, Sizes DEF Phase
      <4>2. after.dispon = d.dispon
        BY <1>1, <1>2, <3>1, <3>2, Sizes
      <4>3. Raised(d, mo) = {"rtc"}
        BY <1>1, <1>2, <2>2, <3>2, Sizes
      <4> QED  BY <4>1, <4>2, <4>3 DEF PhaseStep
    <3>3. CASE d.y + 1 = EndLine[mo]
      <4>1. Phase(d, mo) = "lower" /\ Phase(after, mo) = "blank"
        BY <1>1, <1>2, <3>1, <3>3, Sizes DEF Phase
      <4>2. after.dispon = FALSE
        BY <3>1, <3>3
      <4>3. Raised(d, mo) = {"vbl"}
        BY <1>1, <1>2, <2>2, <3>3, Sizes
      <4> QED  BY <4>1, <4>2, <4>3 DEF PhaseStep
    <3>4. CASE d.y + 1 # RtcLine /\ d.y + 1 # EndLine[mo]
      <4>1. Raised(d, mo) = {}
        BY <2>2, <3>4
      <4>2. Phase(after, mo) = Phase(d, mo)
        BY <1>1, <1>2, <3>1, <3>4, Sizes DEF Phase
      <4>3. after.dispon = d.dispon
        <5>1. CASE d.y + 1 = LastLine
          <6>1. Phase(d, mo) = "blank"
            BY <1>1, <1>2, <3>4, <5>1, Sizes DEF Phase
          <6> QED  BY <1>1, <3>1, <6>1
        <5>2. CASE d.y + 1 # LastLine
          BY <1>1, <3>1, <3>4, <5>2
        <5> QED  BY <5>1, <5>2
      <4> QED  BY <4>1, <4>2, <4>3 DEF PhaseStep
    <3> QED  BY <3>2, <3>3, <3>4
  <2> QED  BY <2>4, <2>5
<1> QED  BY <1>3, <1>4
(* A step of the display, of the user or of a program that writes the mode  *)
(* above the line of the clock is a step of Frame, or none.                 *)
LEMMA FrameStep ==
  ASSUME ModesAbove, MachineInv, FrameInv, [Next]_vars
  PROVE  FrameInv' /\ [AsFrame!Next]_(AsFrame!vars)
<1> USE DEF AsFrame!vars
<1>1. g \in Display /\ mode \in Modes /\ start \in Starts /\ g.sc <= g.y
  BY DEF MachineInv, ScreenInv, ScreenTypeOK
<1>2. CASE g' = g /\ mode' = mode /\ event' = event
  BY <1>2 DEF FrameInv, Phase
<1>3. CASE WriteMode
  <2>1. g' = g /\ event' = event /\ g.y \in 0..(RtcLine - 1)
    BY <1>3 DEF WriteMode, Store, ModesAbove
  <2>2. g.y \in Int /\ g'.y \in Int /\ RtcLine \in Int
        /\ g.y < RtcLine /\ g'.y < RtcLine
    BY <2>1, Sizes
  <2>3. Phase(g, mode) = "upper"
    BY <2>2 DEF Phase
  <2>4. Phase(g, mode)' = "upper"
    BY <2>2 DEF Phase
  <2> QED  BY <2>1, <2>3, <2>4 DEF FrameInv, Phase
<1>4. CASE Display_Tick
  <2> DEFINE raised == Raised(g, mode)
  <2>1. g' = Tick(g, mode, start) /\ mode' = mode
    BY <1>4 DEF Display_Tick, ScreenTick
  <2>2. PhaseStep(g, g', mode, raised)
    BY <1>1, <2>1, TickPhases DEF FrameInv
  <2>3. /\ raised = {} => event' = event
        /\ raised # {} => event' = CHOOSE line \in raised : TRUE
    BY <1>4 DEF Display_Tick
  <2> HIDE DEF raised
  <2>4. Phase(g, mode)' = Phase(g', mode)
    BY <2>1 DEF Phase
  <2>5. FrameInv'
    BY <2>2, <2>4 DEF FrameInv, PhaseStep
  <2>6. (CHOOSE line \in {"rtc"} : TRUE) = "rtc" /\ (CHOOSE line \in {"vbl"} : TRUE) = "vbl"
    OBVIOUS
  <2>7. CASE Phase(g', mode) = Phase(g, mode) /\ g'.dispon = g.dispon /\ raised = {}
    BY <2>3, <2>4, <2>5, <2>7 DEF Phase
  <2>8. CASE /\ Phase(g, mode) = "upper" /\ Phase(g', mode) = "lower"
             /\ g'.dispon = g.dispon /\ raised = {"rtc"}
    <3>1. event' = "rtc"
      BY <2>3, <2>6, <2>8
    <3>2. AsFrame!Clock
      BY <2>4, <2>8, <3>1 DEF AsFrame!Clock, Phase
    <3> QED  BY <2>5, <3>2 DEF AsFrame!Next
  <2>9. CASE /\ Phase(g, mode) = "lower" /\ Phase(g', mode) = "blank"
             /\ g'.dispon = FALSE /\ raised = {"vbl"}
    <3>1. event' = "vbl"
      BY <2>3, <2>6, <2>9
    <3>2. AsFrame!Blank
      BY <2>4, <2>9, <3>1 DEF AsFrame!Blank, Phase
    <3> QED  BY <2>5, <3>2 DEF AsFrame!Next
  <2>10. CASE /\ Phase(g, mode) = "blank" /\ Phase(g', mode) = "upper"
              /\ g'.dispon = TRUE /\ raised = {}
    <3>1. AsFrame!NextFrame
      BY <2>3, <2>4, <2>10 DEF AsFrame!NextFrame, Phase
    <3> QED  BY <2>5, <3>1 DEF AsFrame!Next
  <2> QED  BY <2>2, <2>7, <2>8, <2>9, <2>10 DEF PhaseStep
<1>5. CASE HardReset \/ LoadRom
  <2>1. g' = FreshDisplay(g) /\ event' = event
    BY <1>5 DEF HardReset, LoadRom, UserResets, ResetUla, ScreenReset
  <2>2. g'.y = 0 /\ g'.dispon = FALSE
    BY <1>1, <2>1, FreshKeeps
  <2>3. Phase(g, mode)' = "upper"
    BY <2>2, Sizes DEF Phase
  <2>4. AsFrame!Restart
    BY <2>1, <2>2, <2>3 DEF AsFrame!Restart, Phase
  <2> QED  BY <2>3, <2>4 DEF AsFrame!Next, FrameInv
<1>6. CASE Fetch \/ Access \/ Charged \/ DoInts \/ Enter \/ EndInstruction
  BY <1>2, <1>6 DEF Fetch, Access, Charged, DoInts, Enter, EndInstruction, ula
<1>7. CASE WriteEnable \/ WriteClear \/ WriteStart
  BY <1>2, <1>7 DEF WriteEnable, WriteClear, WriteStart, Store
<1>8. CASE EndSlice \/ BreakKey \/ UNCHANGED vars
  BY <1>2, <1>8 DEF EndSlice, BreakKey, UserResets, vars
<1> QED  BY <1>3, <1>4, <1>5, <1>6, <1>7, <1>8 DEF Next, Cpu, User

(* The safety of ImplementsFrame, for every raster and every program that   *)
(* writes the mode above the line of the clock only: each frame has its     *)
(* clock, then its blank as the picture goes off, and both before the next. *)
THEOREM FramesKept ==
  ASSUME ModesAbove
  PROVE  Spec => AsFrame!Init /\ [][AsFrame!Next]_(AsFrame!vars)
<1>1. Init => MachineInv /\ FrameInv /\ AsFrame!Init
  <2> SUFFICES ASSUME Init PROVE MachineInv /\ FrameInv /\ AsFrame!Init
    OBVIOUS
  <2>1. g.y = 0 /\ g.dispon = FALSE /\ event = "none"
    BY DEF Init, ScreenInit, FirstDisplay
  <2>2. Phase(g, mode) = "upper"
    BY <2>1, Sizes DEF Phase
  <2> QED  BY <2>1, <2>2, FirstMachineInv DEF FrameInv, Phase, AsFrame!Init
<1>2. MachineInv /\ FrameInv /\ [Next]_vars =>
        (MachineInv /\ FrameInv)' /\ [AsFrame!Next]_(AsFrame!vars)
  BY MachineStep, FrameStep
<1> QED  BY <1>1, <1>2, PTL DEF Spec
=============================================================================
