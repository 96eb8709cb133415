---------------------------- MODULE DuartProofs ----------------------------
(***************************************************************************)
(* Theorems about the DUART of module Duart, for every number of           *)
(* characters, every set of baud rates, poll lengths, commands, modes and  *)
(* masks.  Nothing is assumed of the order in which the CPU, the poll and  *)
(* the peer take their steps.                                              *)
(***************************************************************************)
EXTENDS Duart, SequenceTheorems, TLAPS

USE CharAssumption, SizeAssumption, DuartAssumption

(* What an operator may leave as it was: the modes of MR1, what is being    *)
(* shifted in, the ring, and what the program sees of it.                   *)
SameModes(p, r) ==
  p.size = r.size /\ p.intFull = r.intFull /\ p.rtsControl = r.rtsControl
SameLine(p, r) ==
  p.rsr = r.rsr /\ p.bits = r.bits /\ p.have = r.have /\ p.input = r.input
SameRing(p, r) ==
  p.data = r.data /\ p.front = r.front /\ p.back = r.back /\ p.empty = r.empty
SameFlags(p, r) ==
  p.RxRDY = r.RxRDY /\ p.FFULL = r.FFULL /\ p.isr = r.isr /\ p.rts = r.rts

-----------------------------------------------------------------------------
(* The receiver's operators: their types and the fields they leave.         *)

(* The types of the fields of a receiver *)
LEMMA RxFields ==
  ASSUME NEW r \in Receiver
  PROVE  /\ r.enabled \in BOOLEAN /\ r.mr \in {0, 1} /\ r.size \in Sizes
         /\ r.intFull \in BOOLEAN /\ r.rtsControl \in BOOLEAN
         /\ r.rts \in BOOLEAN /\ r.rsr \in Cell /\ r.bits \in Nat
         /\ r.occupied \in BOOLEAN /\ r.have \in BOOLEAN /\ r.input \in Char
         /\ r.data \in [Slot -> Cell] /\ r.front \in Slot /\ r.back \in Slot
         /\ r.empty \in BOOLEAN /\ r.RxRDY \in BOOLEAN /\ r.FFULL \in BOOLEAN
         /\ r.overrun \in BOOLEAN /\ r.isr \in BOOLEAN
  BY SMT DEF Receiver

(* The successor of a slot is another slot. *)
LEMMA Slots ==
  ASSUME NEW s \in Slot
  PROVE  Succ(s) \in Slot /\ Succ(s) # s
  BY DEF Slot, Succ

(* The characters are the numbers the bounds allow, and 0. *)
LEMMA Characters == Char = 0..MaxChars /\ Zero \in Cell
<1>1. Char = 0..MaxChars
  BY DEF Char
<1> QED  BY <1>1 DEF Cell, Zero

(* channel_push_fifo *)
LEMMA PushFields ==
  ASSUME NEW r \in Receiver
  PROVE  LET p == PushFifo(r)
             full == r.front = Succ(r.back)
         IN  /\ p \in Receiver
             /\ SameModes(p, r) /\ SameLine(p, r) /\ p.overrun = r.overrun
             /\ p.data = [r.data EXCEPT ![r.back] = r.rsr]
             /\ p.front = r.front /\ p.back = Succ(r.back)
             /\ p.empty = FALSE /\ p.occupied = FALSE
             /\ p.RxRDY = (r.RxRDY \/ r.empty) /\ p.FFULL = (r.FFULL \/ full)
             /\ p.isr = PushFlag(r, full)
             /\ p.rts = (r.rts \/ (full /\ r.rtsControl))
<1> DEFINE full == r.front = Succ(r.back)
           d == [r.data EXCEPT ![r.back] = r.rsr]
           k == Succ(r.back)
           R == r.RxRDY \/ r.empty
           F == r.FFULL \/ full
           I == PushFlag(r, full)
           T == r.rts \/ (full /\ r.rtsControl)
           p == [r EXCEPT !.data = d, !.back = k, !.empty = FALSE,
                          !.RxRDY = R, !.FFULL = F, !.isr = I, !.rts = T,
                          !.occupied = FALSE]
<1>1. PushFifo(r) = p
  BY Zenon DEF PushFifo
<1>2. d \in [Slot -> Cell] /\ k \in Slot
  BY Slots, RxFields
<1>3. R \in BOOLEAN /\ F \in BOOLEAN /\ I \in BOOLEAN /\ T \in BOOLEAN
  BY RxFields DEF PushFlag
<1> HIDE DEF d, k, R, F, I, T
<1>4. p \in Receiver
  BY <1>2, <1>3, ZenonT(30) DEF Receiver
<1>5. /\ p.data = d /\ p.front = r.front /\ p.back = k
      /\ p.empty = FALSE /\ p.occupied = FALSE
      /\ p.RxRDY = R /\ p.FFULL = F /\ p.isr = I /\ p.rts = T
      /\ p.overrun = r.overrun
  BY SMT DEF Receiver
<1>6. SameModes(p, r) /\ SameLine(p, r)
  BY SMT DEF Receiver, SameModes, SameLine
<1> HIDE DEF p
<1> QED  BY <1>1, <1>4, <1>5, <1>6, Zenon DEF d, k, R, F, I, T

(* channel_read, without the refill *)
LEMMA TakeFields ==
  ASSUME NEW r \in Receiver
  PROVE  LET p == TakeFront(r)
             front == IF r.empty THEN r.front ELSE Succ(r.front)
             drained == front = r.back
         IN  /\ p \in Receiver
             /\ SameModes(p, r) /\ SameLine(p, r) /\ p.overrun = r.overrun
             /\ p.data = r.data /\ p.back = r.back /\ p.rts = r.rts
             /\ p.occupied = r.occupied
             /\ p.front = front /\ p.empty = (r.empty \/ drained)
             /\ p.RxRDY = (r.RxRDY /\ ~drained) /\ p.FFULL = FALSE
             /\ p.isr = (r.isr /\ ~r.intFull /\ ~drained)
<1> DEFINE front == IF r.empty THEN r.front ELSE Succ(r.front)
           drained == front = r.back
           E == r.empty \/ drained
           R == r.RxRDY /\ ~drained
           I == r.isr /\ ~r.intFull /\ ~drained
           p == [r EXCEPT !.front = front, !.empty = E, !.RxRDY = R,
                          !.FFULL = FALSE, !.isr = I]
<1>1. TakeFront(r) = p
  BY Zenon DEF TakeFront
<1>2. front \in Slot
  BY Slots, RxFields
<1>3. E \in BOOLEAN /\ R \in BOOLEAN /\ I \in BOOLEAN
  BY RxFields
<1> HIDE DEF front, E, R, I
<1>4. p \in Receiver
  BY <1>2, <1>3, ZenonT(30) DEF Receiver
<1>5. /\ p.data = r.data /\ p.back = r.back /\ p.rts = r.rts
      /\ p.occupied = r.occupied
      /\ p.front = front /\ p.empty = E /\ p.RxRDY = R
      /\ p.FFULL = FALSE /\ p.isr = I /\ p.overrun = r.overrun
  BY SMT DEF Receiver
<1>6. SameModes(p, r) /\ SameLine(p, r)
  BY SMT DEF Receiver, SameModes, SameLine
<1> HIDE DEF p
<1> QED  BY <1>1, <1>4, <1>5, <1>6, Zenon DEF front, E, R, I

(* A change of a single field keeps the others. *)
LEMMA RtsFields ==
  ASSUME NEW r \in Receiver, NEW on \in BOOLEAN
  PROVE  LET p == [r EXCEPT !.rts = on]
         IN  /\ p \in Receiver
             /\ SameModes(p, r) /\ SameLine(p, r) /\ SameRing(p, r)
             /\ p.occupied = r.occupied /\ p.overrun = r.overrun
             /\ p.RxRDY = r.RxRDY /\ p.FFULL = r.FFULL /\ p.isr = r.isr
             /\ p.rts = on
<1> DEFINE p == [r EXCEPT !.rts = on]
<1>1. p \in Receiver
  BY Zenon DEF Receiver
<1>2. SameModes(p, r) /\ SameLine(p, r) /\ SameRing(p, r)
  BY SMT DEF Receiver, SameModes, SameLine, SameRing
<1>3. /\ p.occupied = r.occupied /\ p.overrun = r.overrun
      /\ p.RxRDY = r.RxRDY /\ p.FFULL = r.FFULL /\ p.isr = r.isr
      /\ p.rts = on
  BY SMT DEF Receiver
<1> QED  BY <1>1, <1>2, <1>3

(* A character stays in the shift register behind a full FIFO. *)
LEMMA HoldFields ==
  ASSUME NEW r \in Receiver
  PROVE  LET p == [r EXCEPT !.occupied = TRUE]
         IN  /\ p \in Receiver
             /\ SameModes(p, r) /\ SameLine(p, r) /\ SameRing(p, r)
             /\ SameFlags(p, r)
             /\ p.occupied = TRUE /\ p.overrun = r.overrun
<1> DEFINE p == [r EXCEPT !.occupied = TRUE]
<1>1. p \in Receiver
  BY Zenon DEF Receiver
<1>2. SameModes(p, r) /\ SameLine(p, r) /\ SameRing(p, r) /\ SameFlags(p, r)
  BY SMT DEF Receiver, SameModes, SameLine, SameRing, SameFlags
<1>3. p.occupied = TRUE /\ p.overrun = r.overrun
  BY SMT DEF Receiver
<1> QED  BY <1>1, <1>2, <1>3

(* Clearing the shift register at the end of a character *)
LEMMA ClearFields ==
  ASSUME NEW r \in Receiver
  PROVE  LET p == [r EXCEPT !.rsr = Zero, !.bits = 0, !.have = FALSE]
         IN  /\ p \in Receiver
             /\ SameModes(p, r) /\ SameRing(p, r) /\ SameFlags(p, r)
             /\ p.occupied = r.occupied /\ p.overrun = r.overrun
             /\ p.rsr = Zero /\ p.bits = 0 /\ p.have = FALSE
             /\ p.input = r.input
<1> DEFINE p == [r EXCEPT !.rsr = Zero, !.bits = 0, !.have = FALSE]
<1>1. p \in Receiver
  BY Characters, Zenon DEF Receiver
<1>2. SameModes(p, r) /\ SameRing(p, r) /\ SameFlags(p, r)
  BY SMT DEF Receiver, SameModes, SameRing, SameFlags
<1>3. /\ p.occupied = r.occupied /\ p.overrun = r.overrun
      /\ p.rsr = Zero /\ p.bits = 0 /\ p.have = FALSE
      /\ p.input = r.input
  BY SMT DEF Receiver
<1> QED  BY <1>1, <1>2, <1>3

(* One more bit enters the shift register. *)
LEMMA ShiftedFields ==
  ASSUME NEW r \in Receiver
  PROVE  LET p == [r EXCEPT !.rsr = <<r.input, r.bits + 1>>, !.bits = @ + 1,
                            !.overrun = @ \/ r.occupied]
         IN  /\ p \in Receiver
             /\ SameModes(p, r) /\ SameRing(p, r) /\ SameFlags(p, r)
             /\ p.occupied = r.occupied /\ p.overrun = (r.overrun \/ r.occupied)
             /\ p.rsr = <<r.input, r.bits + 1>> /\ p.bits = r.bits + 1
             /\ p.have = r.have /\ p.input = r.input
<1> DEFINE cell == <<r.input, r.bits + 1>>
           n == r.bits + 1
           V == r.overrun \/ r.occupied
           p == [r EXCEPT !.rsr = cell, !.bits = n, !.overrun = V]
<1>1. [r EXCEPT !.rsr = <<r.input, r.bits + 1>>, !.bits = @ + 1,
                !.overrun = @ \/ r.occupied] = p
  BY Zenon
<1>2. cell \in Cell /\ n \in Nat /\ V \in BOOLEAN
  BY RxFields DEF Cell
<1> HIDE DEF cell, n, V
<1>3. p \in Receiver
  BY <1>2, Zenon DEF Receiver
<1>4. SameModes(p, r) /\ SameRing(p, r) /\ SameFlags(p, r)
  BY SMT DEF Receiver, SameModes, SameRing, SameFlags
<1>5. /\ p.occupied = r.occupied /\ p.overrun = V
      /\ p.rsr = cell /\ p.bits = n
      /\ p.have = r.have /\ p.input = r.input
  BY SMT DEF Receiver
<1> HIDE DEF p
<1> QED  BY <1>1, <1>3, <1>4, <1>5, Zenon DEF cell, n, V

(* channel_get_input *)
LEMMA InputFields ==
  ASSUME NEW r \in Receiver, NEW ch \in Char
  PROVE  LET p == GetInput(r, ch)
         IN  /\ p \in Receiver
             /\ SameModes(p, r) /\ SameRing(p, r) /\ SameFlags(p, r)
             /\ p.occupied = r.occupied /\ p.overrun = r.overrun
             /\ p.rsr = r.rsr /\ p.bits = r.bits
             /\ p.have = TRUE /\ p.input = ch
<1> DEFINE p == [r EXCEPT !.input = ch, !.have = TRUE]
<1>1. p \in Receiver
  BY Zenon DEF Receiver
<1>2. SameModes(p, r) /\ SameRing(p, r) /\ SameFlags(p, r)
  BY SMT DEF Receiver, SameModes, SameRing, SameFlags
<1>3. /\ p.occupied = r.occupied /\ p.overrun = r.overrun
      /\ p.rsr = r.rsr /\ p.bits = r.bits
      /\ p.have = TRUE /\ p.input = ch
  BY SMT DEF Receiver
<1> QED  BY <1>1, <1>2, <1>3 DEF GetInput

(* channel_reset_receiver *)
LEMMA ResetFields ==
  ASSUME NEW r \in Receiver
  PROVE  LET p == ResetReceiver(r)
         IN  /\ p \in Receiver
             /\ SameModes(p, r) /\ SameFlags(p, r)
             /\ p.front = 0 /\ p.back = 0 /\ p.empty = TRUE
             /\ p.occupied = FALSE /\ p.overrun = r.overrun
             /\ p.rsr = Zero /\ p.bits = 0
             /\ p.have = r.have /\ p.input = r.input
<1> DEFINE d == [s \in Slot |-> Zero]
           p == [r EXCEPT !.data = d, !.front = 0, !.back = 0,
                          !.empty = TRUE, !.enabled = FALSE, !.mr = 0,
                          !.rsr = Zero, !.bits = 0, !.occupied = FALSE]
<1>1. ResetReceiver(r) = p
  BY Zenon DEF ResetReceiver
<1>2. d \in [Slot -> Cell] /\ 0 \in Slot /\ Zero \in Cell
  BY Characters DEF Slot
<1> HIDE DEF d
<1>3. p \in Receiver
  BY <1>2, ZenonT(30) DEF Receiver
<1>4. SameModes(p, r) /\ SameFlags(p, r)
  BY SMT DEF Receiver, SameModes, SameFlags
<1>5. /\ p.front = 0 /\ p.back = 0 /\ p.empty = TRUE
      /\ p.occupied = FALSE /\ p.overrun = r.overrun
      /\ p.rsr = Zero /\ p.bits = 0
      /\ p.have = r.have /\ p.input = r.input
  BY SMT DEF Receiver
<1> QED  BY <1>1, <1>3, <1>4, <1>5

(* What resetserial leaves of a receiver *)
LEMMA FreshFields ==
  ASSUME NEW ch \in Char
  PROVE  LET p == FreshReceiver(ch)
         IN  /\ p \in Receiver
             /\ p.front = 0 /\ p.back = 0 /\ p.empty = TRUE
             /\ p.occupied = FALSE /\ p.overrun = FALSE /\ p.have = FALSE
             /\ p.rsr = Zero /\ p.bits = 0 /\ p.intFull = FALSE
             /\ p.input = ch
<1>1. /\ Zero \in Cell /\ [s \in Slot |-> Zero] \in [Slot -> Cell]
      /\ 0 \in Slot /\ 0 \in Nat
  BY Characters DEF Slot
<1>2. FreshReceiver(ch) \in Receiver
  BY <1>1, SMT DEF FreshReceiver, Receiver
<1> QED  BY <1>2 DEF FreshReceiver

(* The mode register index, the enable bit and the error flags *)
LEMMA SettingFields ==
  ASSUME NEW r \in Receiver, NEW n \in {0, 1}, NEW on \in BOOLEAN
  PROVE  /\ LET p == [r EXCEPT !.mr = n]
            IN  /\ p \in Receiver /\ SameModes(p, r) /\ SameLine(p, r)
                /\ SameRing(p, r) /\ SameFlags(p, r)
                /\ p.occupied = r.occupied /\ p.overrun = r.overrun
         /\ LET p == [r EXCEPT !.enabled = on]
            IN  /\ p \in Receiver /\ SameModes(p, r) /\ SameLine(p, r)
                /\ SameRing(p, r) /\ SameFlags(p, r)
                /\ p.occupied = r.occupied /\ p.overrun = r.overrun
         /\ LET p == ResetError(r)
            IN  /\ p \in Receiver /\ SameModes(p, r) /\ SameLine(p, r)
                /\ SameRing(p, r) /\ SameFlags(p, r)
                /\ p.occupied = r.occupied /\ p.overrun = FALSE
<1>1. /\ [r EXCEPT !.mr = n] \in Receiver
      /\ [r EXCEPT !.enabled = on] \in Receiver
      /\ [r EXCEPT !.overrun = FALSE] \in Receiver
  BY Zenon DEF Receiver
<1>2. LET p == [r EXCEPT !.mr = n]
      IN  /\ SameModes(p, r) /\ SameLine(p, r)
          /\ SameRing(p, r) /\ SameFlags(p, r)
          /\ p.occupied = r.occupied /\ p.overrun = r.overrun
  BY SMT DEF Receiver, SameModes, SameLine, SameRing, SameFlags
<1>3. LET p == [r EXCEPT !.enabled = on]
      IN  /\ SameModes(p, r) /\ SameLine(p, r)
          /\ SameRing(p, r) /\ SameFlags(p, r)
          /\ p.occupied = r.occupied /\ p.overrun = r.overrun
  BY SMT DEF Receiver, SameModes, SameLine, SameRing, SameFlags
<1>4. LET p == [r EXCEPT !.overrun = FALSE]
      IN  /\ SameModes(p, r) /\ SameLine(p, r)
          /\ SameRing(p, r) /\ SameFlags(p, r)
          /\ p.occupied = r.occupied /\ p.overrun = FALSE
  BY SMT DEF Receiver, SameModes, SameLine, SameRing, SameFlags
<1> QED  BY <1>1, <1>2, <1>3, <1>4 DEF ResetError

(* channel_set_mode, for MR1 *)
LEMMA ModeFields ==
  ASSUME NEW r \in Receiver, NEW m \in Mode1
  PROVE  LET p == SetMR1(r, m)
         IN  /\ p \in Receiver
             /\ SameLine(p, r) /\ SameRing(p, r) /\ SameFlags(p, r)
             /\ p.occupied = r.occupied /\ p.overrun = r.overrun
<1>1. m.size \in Sizes /\ m.intFull \in BOOLEAN /\ m.rtsControl \in BOOLEAN
  BY SMT DEF Mode1
<1> DEFINE p == [r EXCEPT !.size = m.size, !.intFull = m.intFull,
                          !.rtsControl = m.rtsControl, !.mr = 1]
<1>2. p \in Receiver
  BY <1>1, Zenon DEF Receiver
<1>3. SameLine(p, r) /\ SameRing(p, r) /\ SameFlags(p, r)
  BY SMT DEF Receiver, SameLine, SameRing, SameFlags
<1>4. p.occupied = r.occupied /\ p.overrun = r.overrun
  BY SMT DEF Receiver
<1> QED  BY <1>2, <1>3, <1>4 DEF SetMR1

-----------------------------------------------------------------------------
(* What the FIFO holds: its cells, oldest first.                            *)
CellOf(r, i) == r.data[(r.front + i) % 3]
Contents(r) == [i \in 1..FifoCount(r) |-> CellOf(r, i - 1)]
RingOK(r) == r.empty => r.front = r.back

(* A receiver p that is r with one cell put at the end of the FIFO, or the  *)
(* front cell taken                                                         *)
Pushed(p, r, cell) ==
  LET full == r.front = Succ(r.back)
  IN  /\ p.data = [r.data EXCEPT ![r.back] = cell]
      /\ p.front = r.front /\ p.back = Succ(r.back)
      /\ p.empty = FALSE /\ p.occupied = FALSE
      /\ p.RxRDY = (r.RxRDY \/ r.empty) /\ p.FFULL = (r.FFULL \/ full)
      /\ p.isr = PushFlag(r, full)
      /\ p.rts = (r.rts \/ (full /\ r.rtsControl))

TakenFrom(p, r) ==
  LET front == IF r.empty THEN r.front ELSE Succ(r.front)
      drained == front = r.back
  IN  /\ p.data = r.data /\ p.back = r.back
      /\ p.front = front /\ p.empty = (r.empty \/ drained)
      /\ p.RxRDY = (r.RxRDY /\ ~drained) /\ p.FFULL = FALSE
      /\ p.isr = (r.isr /\ ~r.intFull /\ ~drained)

(* The count of a FIFO tells whether it is empty, and whether it is full.   *)
LEMMA Count ==
  ASSUME NEW r \in Receiver
  PROVE  /\ FifoCount(r) \in 0..3
         /\ FifoCount(r) = 0 <=> r.empty
         /\ FifoCount(r) = 3 <=> FifoFull(r)
<1>1. r.front \in 0..2 /\ r.back \in 0..2 /\ r.empty \in BOOLEAN
  BY RxFields DEF Slot
<1> QED  BY <1>1 DEF FifoCount, FifoFull

(* The cells a FIFO holds are cells.                                        *)
LEMMA Cells ==
  ASSUME NEW r \in Receiver, NEW i \in Nat
  PROVE  CellOf(r, i) \in Cell
<1>1. r.front \in 0..2 /\ r.data \in [0..2 -> Cell]
  BY RxFields DEF Slot
<1>2. (r.front + i) % 3 \in 0..2
  BY <1>1
<1> QED  BY <1>1, <1>2 DEF CellOf

(* A push into a FIFO with room leaves one cell more, the new one last.     *)
LEMMA PushCells ==
  ASSUME NEW r \in Receiver, NEW p \in Receiver, NEW cell \in Cell,
         Pushed(p, r, cell), RingOK(r), ~FifoFull(r)
  PROVE  /\ FifoCount(p) = FifoCount(r) + 1 /\ RingOK(p)
         /\ \A i \in 0..(FifoCount(r) - 1) : CellOf(p, i) = CellOf(r, i)
         /\ CellOf(p, FifoCount(r)) = cell
<1> DEFINE f == r.front  b == r.back  n == FifoCount(r)
<1>1. f \in 0..2 /\ b \in 0..2 /\ r.empty \in BOOLEAN
      /\ r.data \in [0..2 -> Cell]
  BY RxFields DEF Slot
<1>2. p.front = f /\ p.back = (b + 1) % 3 /\ p.empty = FALSE
      /\ p.data = [r.data EXCEPT ![b] = cell]
  BY DEF Pushed, Succ
<1>3. n = (b - f + 3) % 3 /\ n \in 0..2
  BY <1>1 DEF FifoCount, FifoFull, RingOK
<1>4. FifoCount(p) = n + 1 /\ RingOK(p)
  <2>1. (f + n) % 3 = b
    BY <1>1, <1>3
  <2>2. FifoFull(p) <=> n = 2
    BY <1>1, <1>2, <1>3 DEF FifoFull
  <2>3. n # 2 => (((b + 1) % 3) - f + 3) % 3 = n + 1
    BY <1>1, <1>3
  <2> QED  BY <1>2, <1>3, <2>2, <2>3 DEF FifoCount, RingOK
<1>5. ASSUME NEW i \in 0..(n - 1)
      PROVE  CellOf(p, i) = CellOf(r, i)
  <2>1. (f + i) % 3 # b /\ (f + i) % 3 \in 0..2
    BY <1>1, <1>3
  <2> QED  BY <1>1, <1>2, <2>1 DEF CellOf
<1>6. CellOf(p, n) = cell
  <2>1. (f + n) % 3 = b
    BY <1>1, <1>3
  <2> QED  BY <1>1, <1>2, <2>1 DEF CellOf
<1> QED  BY <1>4, <1>5, <1>6

(* A read of a FIFO with data leaves one cell less, the oldest one gone; a  *)
(* read of an empty one leaves it as it was.                                *)
LEMMA TakeCells ==
  ASSUME NEW r \in Receiver, NEW p \in Receiver,
         TakenFrom(p, r), RingOK(r)
  PROVE  /\ RingOK(p) /\ ~FifoFull(p)
         /\ r.empty => FifoCount(p) = 0
         /\ ~r.empty => FifoCount(p) = FifoCount(r) - 1
         /\ \A i \in 0..(FifoCount(p) - 1) : CellOf(p, i) = CellOf(r, i + 1)
<1> DEFINE f == r.front  b == r.back  n == FifoCount(r)
<1>1. f \in 0..2 /\ b \in 0..2 /\ r.empty \in BOOLEAN
      /\ p.empty \in BOOLEAN
  BY RxFields DEF Slot
<1>2. CASE r.empty
  <2>1. p.empty /\ p.front = f /\ p.back = b /\ f = b
    BY <1>2, Zenon DEF TakenFrom, RingOK
  <2> QED  BY <1>2, <2>1 DEF RingOK, FifoFull, FifoCount
<1>3. CASE ~r.empty
  <2>1. /\ p.front = (f + 1) % 3 /\ p.back = b /\ p.data = r.data
        /\ p.empty = ((f + 1) % 3 = b)
    BY <1>3 DEF TakenFrom, Succ
  <2>2. n \in 1..3 /\ (f = b => n = 3) /\ (f # b => n = (b - f + 3) % 3)
    BY <1>1, <1>3 DEF FifoCount, FifoFull
  <2>3. RingOK(p) /\ ~FifoFull(p)
    BY <2>1 DEF RingOK, FifoFull
  <2>4. FifoCount(p) = n - 1
    <3>1. CASE (f + 1) % 3 = b
      <4>1. FifoCount(p) = 0
        BY <2>1, <3>1 DEF FifoCount
      <4>2. f # b /\ (b - f + 3) % 3 = 1
        BY <1>1, <3>1
      <4> QED  BY <2>2, <4>1, <4>2
    <3>2. CASE (f + 1) % 3 # b
      <4>1. FifoCount(p) = (b - p.front + 3) % 3
        BY <2>1, <3>2 DEF FifoCount, FifoFull
      <4>2. p.front # b /\ p.front = (f + 1) % 3
        BY <2>1, <3>2
      <4>3. CASE f = b
        BY <1>1, <2>2, <4>1, <4>2, <4>3
      <4>4. CASE f # b
        BY <1>1, <2>2, <4>1, <4>2, <4>4
      <4> QED  BY <4>3, <4>4
    <3> QED  BY <3>1, <3>2
  <2>5. ASSUME NEW i \in 0..(FifoCount(p) - 1)
        PROVE  CellOf(p, i) = CellOf(r, i + 1)
    <3>1. i \in Nat /\ (((f + 1) % 3) + i) % 3 = (f + (i + 1)) % 3
      BY <1>1, <2>2, <2>4
    <3> QED  BY <2>1, <3>1 DEF CellOf
  <2> QED  BY <1>3, <2>3, <2>4, <2>5
<1> QED  BY <1>1, <1>2, <1>3

(* The same ring has the same cells.                                        *)
LEMMA SameCells ==
  ASSUME NEW r, NEW p, SameRing(p, r)
  PROVE  /\ FifoCount(p) = FifoCount(r) /\ (FifoFull(p) <=> FifoFull(r))
         /\ RingOK(p) <=> RingOK(r)
         /\ \A i : CellOf(p, i) = CellOf(r, i)
         /\ Contents(p) = Contents(r)
BY DEF SameRing, FifoCount, FifoFull, RingOK, CellOf, Contents

(* The contents are a sequence of cells.                                    *)
LEMMA ContentsSeq ==
  ASSUME NEW r \in Receiver
  PROVE  /\ Contents(r) \in Seq(Cell) /\ Len(Contents(r)) = FifoCount(r)
         /\ \A i \in 1..FifoCount(r) : Contents(r)[i] = CellOf(r, i - 1)
<1>1. FifoCount(r) \in Nat
  BY Count
<1>2. \A i \in 1..FifoCount(r) : CellOf(r, i - 1) \in Cell
  BY <1>1, Cells
<1> QED  BY <1>1, <1>2 DEF Contents

(* As sequences: a push appends a cell.                                     *)
LEMMA PushAppends ==
  ASSUME NEW r \in Receiver, NEW p \in Receiver, NEW cell \in Cell,
         Pushed(p, r, cell), RingOK(r), ~FifoFull(r)
  PROVE  Contents(p) = Append(Contents(r), cell)
<1> DEFINE n == FifoCount(r)  s == Contents(p)  t == Append(Contents(r), cell)
<1>1. /\ FifoCount(p) = n + 1 /\ n \in 0..3
      /\ \A i \in 0..(n - 1) : CellOf(p, i) = CellOf(r, i)
      /\ CellOf(p, n) = cell
  BY PushCells, Count
<1>2. s \in Seq(Cell) /\ Len(s) = n + 1
      /\ \A i \in 1..(n + 1) : s[i] = CellOf(p, i - 1)
  BY <1>1, ContentsSeq
<1>3. /\ t \in Seq(Cell) /\ Len(t) = n + 1
      /\ \A i \in 1..n : t[i] = CellOf(r, i - 1)
      /\ t[n + 1] = cell
  BY ContentsSeq, AppendProperties
<1> HIDE DEF n, s, t
<1>4. \A i \in 1..(n + 1) : s[i] = t[i]
  BY <1>1, <1>2, <1>3
<1>5. s = t
  BY <1>2, <1>3, <1>4, SeqEqual
<1> QED  BY <1>5 DEF s, t

(* A read takes the head.                                                   *)
LEMMA TakeDropsHead ==
  ASSUME NEW r \in Receiver, NEW p \in Receiver,
         TakenFrom(p, r), RingOK(r), ~r.empty
  PROVE  Contents(r) # <<>> /\ Contents(p) = Tail(Contents(r))
<1> DEFINE n == FifoCount(r)  s == Contents(p)  t == Tail(Contents(r))
<1>1. /\ FifoCount(p) = n - 1 /\ n \in 1..3
      /\ \A i \in 0..(n - 2) : CellOf(p, i) = CellOf(r, i + 1)
  BY TakeCells, Count
<1>2. s \in Seq(Cell) /\ Len(s) = n - 1
      /\ \A i \in 1..(n - 1) : s[i] = CellOf(p, i - 1)
  BY <1>1, ContentsSeq
<1>3. Contents(r) # <<>>
  BY <1>1, ContentsSeq, EmptySeq
<1>4. /\ t \in Seq(Cell) /\ Len(t) = n - 1
      /\ \A i \in 1..(n - 1) : t[i] = CellOf(r, i)
  <2>1. \A i \in 1..Len(t) : t[i] = Contents(r)[i + 1]
    BY <1>3, ContentsSeq, HeadTailProperties
  <2>2. t \in Seq(Cell) /\ Len(t) = n - 1
    BY <1>3, ContentsSeq, HeadTailProperties
  <2> QED  BY <1>1, <2>1, <2>2, ContentsSeq
<1> HIDE DEF n, s, t
<1>5. \A i \in 1..(n - 1) : s[i] = t[i]
  BY <1>1, <1>2, <1>4
<1>6. s = t
  BY <1>2, <1>4, <1>5, SeqEqual
<1> QED  BY <1>3, <1>6 DEF s, t

-----------------------------------------------------------------------------
(* What a bit time, a read and a command leave of a receiver.               *)
Shifts(p, r) ==
  /\ SameModes(p, r) /\ SameRing(p, r) /\ SameFlags(p, r)
  /\ p.have = r.have /\ p.input = r.input /\ p.occupied = r.occupied
  /\ p.bits = r.bits + 1 /\ p.rsr = <<r.input, r.bits + 1>>
  /\ p.overrun = (r.overrun \/ r.occupied)

EndsInput(p, r) ==
  /\ SameModes(p, r)
  /\ p.have = FALSE /\ p.input = r.input /\ p.bits = 0 /\ p.rsr = Zero
  /\ p.overrun = (r.overrun \/ r.occupied)

KeptBack(p, r) ==
  /\ FifoFull(r)
  /\ SameRing(p, r) /\ SameFlags(p, r) /\ p.occupied = TRUE

Cleared(p, r) ==
  /\ p.front = 0 /\ p.back = 0 /\ p.empty = TRUE /\ p.occupied = FALSE
  /\ p.rsr = Zero /\ p.bits = 0 /\ p.input = r.input

(* channel_push_fifo puts what the shift register holds at the end.         *)
LEMMA PushIsPushed ==
  ASSUME NEW r \in Receiver
  PROVE  Pushed(PushFifo(r), r, r.rsr)
BY PushFields, Zenon DEF Pushed

(* receive_data: a bit is ignored, shifted in, or ends a character, which   *)
(* waits behind a full FIFO or enters one with room.                        *)
LEMMA BitOutcomes ==
  ASSUME NEW r \in Receiver
  PROVE  LET p == ReceiveBit(r)
         IN  /\ p \in Receiver
             /\ \/ r.bits >= r.size /\ p = r
                \/ r.bits + 1 < r.size /\ Shifts(p, r)
                \/ /\ r.bits + 1 = r.size /\ EndsInput(p, r)
                   /\ \/ KeptBack(p, r)
                      \/ ~FifoFull(r) /\ Pushed(p, r, <<r.input, r.size>>)
<1> DEFINE s == [r EXCEPT !.rsr = <<r.input, r.bits + 1>>, !.bits = @ + 1,
                          !.overrun = @ \/ r.occupied]
           q == Delivered(s)
           p == ReceiveBit(r)
<1>1. r.bits \in Nat /\ r.size \in Nat
  BY RxFields
<1>2. /\ s \in Receiver
      /\ SameModes(s, r) /\ SameRing(s, r) /\ SameFlags(s, r)
      /\ s.occupied = r.occupied /\ s.overrun = (r.overrun \/ r.occupied)
      /\ s.rsr = <<r.input, r.bits + 1>> /\ s.bits = r.bits + 1
      /\ s.have = r.have /\ s.input = r.input
  BY ShiftedFields
<1>3. p = IF r.bits < r.size
          THEN IF s.bits = r.size THEN EndCharacter(s) ELSE s
          ELSE r
  BY DEF ReceiveBit, ShiftIn
<1>4. CASE r.bits >= r.size
  BY <1>1, <1>3, <1>4
<1>5. CASE r.bits + 1 < r.size
  <2>1. p = s
    BY <1>1, <1>2, <1>3, <1>5
  <2>2. Shifts(s, r)
    BY <1>2, Zenon DEF Shifts
  <2> QED  BY <1>2, <1>5, <2>1, <2>2, Zenon
<1>6. CASE r.bits + 1 = r.size
  <2>1. p = EndCharacter(s)
    BY <1>1, <1>2, <1>3, <1>6
  <2>2. FifoFull(s) = FifoFull(r) /\ s.size = r.size /\ s.rsr = <<r.input, r.size>>
    BY <1>2, <1>6, Zenon DEF SameRing, SameModes, FifoFull
  <2> HIDE DEF s
  <2>3. /\ q \in Receiver /\ SameModes(q, s) /\ SameLine(q, s)
        /\ q.overrun = s.overrun
        /\ \/ FifoFull(s) /\ SameRing(q, s) /\ SameFlags(q, s)
              /\ q.occupied = TRUE
           \/ ~FifoFull(s) /\ Pushed(q, s, s.rsr)
    <3>1. CASE FifoFull(s)
      <4>1. q = [s EXCEPT !.occupied = TRUE]
        BY <3>1 DEF Delivered
      <4> QED  BY <1>2, <3>1, <4>1, HoldFields
    <3>2. CASE ~FifoFull(s)
      <4>1. q = PushFifo(s)
        BY <3>2 DEF Delivered
      <4>2. Pushed(q, s, s.rsr)
        BY <1>2, <4>1, PushIsPushed, Zenon
      <4> QED  BY <1>2, <3>2, <4>1, <4>2, PushFields, Zenon
    <3> QED  BY <3>1, <3>2
  <2>4. EndCharacter(s) = [q EXCEPT !.rsr = Zero, !.bits = 0, !.have = FALSE]
    BY DEF EndCharacter
  <2> HIDE DEF q, p
  <2>5. /\ p \in Receiver
        /\ SameModes(p, q) /\ SameRing(p, q) /\ SameFlags(p, q)
        /\ p.occupied = q.occupied /\ p.overrun = q.overrun
        /\ p.rsr = Zero /\ p.bits = 0 /\ p.have = FALSE /\ p.input = q.input
    <3>1. p = [q EXCEPT !.rsr = Zero, !.bits = 0, !.have = FALSE]
      BY <2>1, <2>4, Zenon
    <3> QED  BY <2>3, <3>1, ClearFields, Zenon
  <2>6. EndsInput(p, r)
    BY <1>2, <2>3, <2>5, Zenon DEF EndsInput, SameModes, SameLine
  <2>7. CASE FifoFull(s) /\ SameRing(q, s) /\ SameFlags(q, s)
             /\ q.occupied = TRUE
    <3>1. KeptBack(p, r)
      BY <1>2, <2>2, <2>5, <2>7, Zenon DEF KeptBack, SameRing, SameFlags
    <3> QED  BY <1>6, <2>5, <2>6, <3>1, Zenon DEF p
  <2>8. CASE ~FifoFull(s) /\ Pushed(q, s, s.rsr)
    <3>1. Pushed(q, r, <<r.input, r.size>>)
      BY <1>2, <2>2, <2>8, SMT
         DEF Pushed, SameRing, SameFlags, SameModes, PushFlag
    <3>2. Pushed(p, r, <<r.input, r.size>>)
      BY <2>5, <3>1, Zenon DEF Pushed, SameRing, SameFlags
    <3>3. ~FifoFull(r)
      BY <2>2, <2>8
    <3> QED  BY <1>6, <2>5, <2>6, <3>2, <3>3, Zenon DEF p
  <2> QED  BY <2>3, <2>7, <2>8, Zenon
<1> QED  BY <1>1, <1>4, <1>5, <1>6

(* channel_read: the front cell goes, and an occupied shift register        *)
(* refills the FIFO with what it holds.                                     *)
LEMMA ReadOutcomes ==
  ASSUME NEW r \in Receiver
  PROVE  LET p == ReadFifo(r)
         IN  /\ p \in Receiver /\ SameModes(p, r) /\ SameLine(p, r)
             /\ p.overrun = r.overrun /\ p.occupied = FALSE
             /\ \/ ~r.occupied /\ TakenFrom(p, r)
                   /\ p.rts = (r.rts /\ ~r.rtsControl)
                \/ r.occupied
                   /\ \E q \in Receiver : TakenFrom(q, r) /\ SameModes(q, r)
                                          /\ Pushed(p, q, r.rsr)
<1> DEFINE q == TakeFront(r)
           p == ReadFifo(r)
<1>1. /\ q \in Receiver /\ SameModes(q, r) /\ SameLine(q, r)
      /\ q.overrun = r.overrun /\ q.occupied = r.occupied
      /\ q.rts = r.rts
  BY TakeFields, Zenon
<1>2. TakenFrom(q, r)
  BY TakeFields, Zenon DEF TakenFrom
<1>3. CASE r.occupied
  <2>1. p = PushFifo(q)
    BY <1>3, Zenon DEF ReadFifo
  <2> HIDE DEF q, p
  <2>2. /\ p \in Receiver /\ SameModes(p, q) /\ SameLine(p, q)
        /\ p.overrun = q.overrun /\ p.occupied = FALSE
    BY <1>1, <2>1, PushFields, Zenon
  <2>3. Pushed(p, q, q.rsr)
    BY <1>1, <2>1, PushIsPushed, Zenon
  <2>4. q.rsr = r.rsr /\ SameModes(p, r) /\ SameLine(p, r)
    BY <1>1, <2>2, Zenon DEF SameModes, SameLine
  <2> QED  BY <1>1, <1>2, <1>3, <2>2, <2>3, <2>4, Zenon DEF p
<1>4. CASE ~r.occupied
  <2> DEFINE on == q.rts /\ ~r.rtsControl
  <2>1. p = [q EXCEPT !.rts = on]
    BY <1>4, Zenon DEF ReadFifo
  <2>2. on \in BOOLEAN
    BY Zenon
  <2> HIDE DEF q, p, on
  <2>3. /\ p \in Receiver
        /\ SameModes(p, q) /\ SameLine(p, q) /\ SameRing(p, q)
        /\ p.occupied = q.occupied /\ p.overrun = q.overrun
        /\ p.RxRDY = q.RxRDY /\ p.FFULL = q.FFULL /\ p.isr = q.isr
        /\ p.rts = on
    <3>1. LET o == [q EXCEPT !.rts = on]
          IN  /\ o \in Receiver
              /\ SameModes(o, q) /\ SameLine(o, q) /\ SameRing(o, q)
              /\ o.occupied = q.occupied /\ o.overrun = q.overrun
              /\ o.RxRDY = q.RxRDY /\ o.FFULL = q.FFULL /\ o.isr = q.isr
              /\ o.rts = on
      BY <1>1, <2>2, RtsFields
    <3> QED  BY <2>1, <3>1, Zenon
  <2>4. TakenFrom(p, r)
    BY <1>2, <2>3, Zenon DEF TakenFrom, SameRing
  <2>5. SameModes(p, r) /\ SameLine(p, r)
    BY <1>1, <2>3, Zenon DEF SameModes, SameLine
  <2>6. p.occupied = FALSE
    BY <1>1, <1>4, <2>3, RxFields, Zenon
  <2>7. p.rts = (r.rts /\ ~r.rtsControl)
    BY <1>1, <2>3, Zenon DEF on
  <2> QED  BY <1>1, <1>4, <2>3, <2>4, <2>5, <2>6, <2>7, Zenon DEF p
<1> QED  BY <1>3, <1>4

(* channel_write, for CR: a command resets the receiver, or leaves the FIFO *)
(* and what is being shifted in alone.                                      *)
LEMMA CommandOutcomes ==
  ASSUME NEW r \in Receiver, NEW cmd \in Command
  PROVE  LET p == SwitchReceiver(RxCommand(r, cmd), cmd)
         IN  /\ p \in Receiver /\ SameModes(p, r) /\ SameFlags(p, r)
             /\ p.have = r.have
             /\ \/ Cleared(p, r) /\ p.overrun = r.overrun
                \/ /\ SameLine(p, r) /\ SameRing(p, r)
                   /\ p.occupied = r.occupied
                   /\ \/ p.overrun = r.overrun
                      \/ p.overrun = FALSE
<1> DEFINE q == RxCommand(r, cmd)
           on == IF q.enabled THEN ~cmd.rxOff ELSE cmd.rxOn
           p == [q EXCEPT !.enabled = on]
<1>1. SwitchReceiver(RxCommand(r, cmd), cmd) = p
  BY Zenon DEF SwitchReceiver
<1>2. on \in BOOLEAN
  <2>1. cmd.rxOff \in BOOLEAN /\ cmd.rxOn \in BOOLEAN
    BY SMT DEF Command
  <2> QED  BY <2>1, Zenon
<1>3. /\ q \in Receiver /\ SameModes(q, r) /\ SameFlags(q, r)
      /\ q.have = r.have
      /\ \/ Cleared(q, r) /\ q.overrun = r.overrun
         \/ /\ SameLine(q, r) /\ SameRing(q, r) /\ q.occupied = r.occupied
            /\ \/ q.overrun = r.overrun
               \/ q.overrun = FALSE
  <2>1. \/ q = ResetReceiver(r)
        \/ q = [r EXCEPT !.mr = 0]
        \/ q = ResetError(r)
        \/ q = r
    BY DEF RxCommand
  <2>2. CASE q = ResetReceiver(r)
    <3> HIDE DEF q
    <3>1. Cleared(q, r)
      BY <2>2, ResetFields, Zenon DEF Cleared
    <3> QED  BY <2>2, <3>1, ResetFields, Zenon
  <2>3. CASE q = [r EXCEPT !.mr = 0]
    <3> HIDE DEF q
    <3>1. 0 \in {0, 1} /\ TRUE \in BOOLEAN
      OBVIOUS
    <3> QED  BY <2>3, <3>1, SettingFields, Zenon DEF SameLine
  <2>4. CASE q = ResetError(r)
    <3> HIDE DEF q
    <3>1. 0 \in {0, 1} /\ TRUE \in BOOLEAN
      OBVIOUS
    <3> QED  BY <2>4, <3>1, SettingFields, Zenon DEF SameLine
  <2>5. CASE q = r
    BY <2>5, Zenon DEF SameModes, SameFlags, SameLine, SameRing
  <2> QED  BY <2>1, <2>2, <2>3, <2>4, <2>5, Zenon
<1> HIDE DEF q, on
<1>4. /\ p \in Receiver /\ SameModes(p, q) /\ SameLine(p, q)
      /\ SameRing(p, q) /\ SameFlags(p, q)
      /\ p.occupied = q.occupied /\ p.overrun = q.overrun
  <2>1. 0 \in {0, 1}
    OBVIOUS
  <2> QED  BY <1>2, <1>3, <2>1, SettingFields, Zenon
<1> HIDE DEF p
<1>5. SameModes(p, r) /\ SameFlags(p, r) /\ p.have = r.have
  BY <1>3, <1>4, Zenon DEF SameModes, SameFlags, SameLine
<1>6. CASE Cleared(q, r) /\ q.overrun = r.overrun
  <2>1. Cleared(p, r) /\ p.overrun = r.overrun
    BY <1>4, <1>6, Zenon DEF Cleared, SameLine, SameRing
  <2> QED  BY <1>1, <1>4, <1>5, <2>1, Zenon
<1>7. CASE SameLine(q, r) /\ SameRing(q, r) /\ q.occupied = r.occupied
  <2>1. SameLine(p, r) /\ SameRing(p, r) /\ p.occupied = r.occupied
    BY <1>4, <1>7, Zenon DEF SameLine, SameRing
  <2>2. p.overrun = r.overrun \/ p.overrun = FALSE
    BY <1>3, <1>4, Zenon
  <2> QED  BY <1>1, <1>4, <1>5, <2>1, <2>2, Zenon
<1> QED  BY <1>3, <1>6, <1>7, Zenon

-----------------------------------------------------------------------------
(* The status bits of a receiver show its FIFO; its interrupt flag and RTS  *)
(* follow it.                                                               *)
Shown(r) ==
  /\ r.empty => r.front = r.back
  /\ ~r.empty => r.RxRDY
  /\ FifoFull(r) => r.FFULL
  /\ r.occupied => FifoFull(r)
Raised(r) ==
  /\ (IF r.intFull THEN FifoFull(r) ELSE ~r.empty) => r.isr
  /\ r.rtsControl /\ FifoFull(r) => r.rts

(* A push keeps the status and the flags right, when there is room.         *)
LEMMA PushShown ==
  ASSUME NEW r \in Receiver, NEW p \in Receiver, NEW cell \in Cell,
         Pushed(p, r, cell), SameModes(p, r), ~FifoFull(r),
         RingOK(r), ~r.empty => r.RxRDY
  PROVE  /\ Shown(p)
         /\ (~r.intFull /\ ~r.empty => r.isr) => Raised(p)
<1> DEFINE full == r.front = Succ(r.back)
<1>1. /\ p.front = r.front /\ p.back = Succ(r.back) /\ p.empty = FALSE
      /\ p.occupied = FALSE /\ p.RxRDY = (r.RxRDY \/ r.empty)
      /\ p.FFULL = (r.FFULL \/ full)
      /\ p.isr = (r.isr \/ (r.empty /\ ~r.intFull) \/ (full /\ r.intFull))
      /\ p.rts = (r.rts \/ (full /\ r.rtsControl))
  BY Zenon DEF Pushed, PushFlag
<1>2. FifoFull(p) <=> full
  BY <1>1, Zenon DEF FifoFull
<1>3. p.intFull = r.intFull /\ p.rtsControl = r.rtsControl
  BY DEF SameModes
<1>4. Shown(p)
  BY <1>1, <1>2, Zenon DEF Shown
<1>5. ASSUME ~r.intFull /\ ~r.empty => r.isr
      PROVE  Raised(p)
  BY <1>1, <1>2, <1>3, <1>5, RxFields, Zenon DEF Raised
<1> QED  BY <1>4, <1>5

(* So does a read that finds the shift register free.                       *)
LEMMA TakeShown ==
  ASSUME NEW r \in Receiver, NEW p \in Receiver,
         TakenFrom(p, r), SameModes(p, r), Shown(r)
  PROVE  /\ ~FifoFull(p) /\ RingOK(p)
         /\ ~p.empty => p.RxRDY
         /\ Raised(r) => (~p.intFull /\ ~p.empty => p.isr)
<1>1. ~FifoFull(p) /\ RingOK(p)
  BY TakeCells, Zenon DEF Shown, RingOK
<1>2. ~p.empty => /\ ~r.empty
                  /\ p.RxRDY = r.RxRDY
                  /\ p.isr = (r.isr /\ ~r.intFull)
  BY RxFields, Zenon DEF TakenFrom
<1>3. p.intFull = r.intFull
  BY DEF SameModes
<1> QED  BY <1>1, <1>2, <1>3, RxFields, Zenon DEF Shown, Raised

(* What leaves the ring and the flags alone keeps the status right; so it   *)
(* does the flags, unless it changes the modes.                             *)
LEMMA SameShown ==
  ASSUME NEW r, NEW p, SameRing(p, r), SameFlags(p, r), Shown(r),
         p.occupied => FifoFull(r)
  PROVE  Shown(p) /\ (SameModes(p, r) /\ Raised(r) => Raised(p))
<1>1. FifoFull(p) <=> FifoFull(r)
  BY SameCells, Zenon
<1> QED  BY <1>1, Zenon DEF Shown, Raised, SameRing, SameFlags, SameModes

(* An empty FIFO has nothing to show.                                       *)
LEMMA EmptyShown ==
  ASSUME NEW p, p.front = 0, p.back = 0, p.empty = TRUE, p.occupied = FALSE
  PROVE  Shown(p) /\ Raised(p)
BY Zenon DEF Shown, Raised, FifoFull

(* receive_data keeps the status and the flags right.                       *)
LEMMA BitShown ==
  ASSUME NEW r \in Receiver, Shown(r)
  PROVE  LET p == ReceiveBit(r)
         IN  Shown(p) /\ (Raised(r) => Raised(p))
<1> DEFINE p == ReceiveBit(r)
<1>1. CASE r.bits >= r.size /\ p = r
  BY <1>1
<1>2. CASE Shifts(p, r)
  BY <1>2, SameShown, Zenon DEF Shifts, Shown
<1>3. CASE EndsInput(p, r) /\ KeptBack(p, r)
  BY <1>3, SameShown, Zenon DEF KeptBack, EndsInput
<1>4. CASE /\ r.bits + 1 = r.size /\ EndsInput(p, r)
           /\ ~FifoFull(r) /\ Pushed(p, r, <<r.input, r.size>>)
  <2>1. <<r.input, r.size>> \in Cell
    BY RxFields DEF Cell
  <2>2. /\ p \in Receiver /\ SameModes(p, r) /\ RingOK(r)
        /\ ~r.empty => r.RxRDY
    BY <1>4, BitOutcomes, Zenon DEF EndsInput, Shown, RingOK
  <2>3. Shown(p) /\ ((~r.intFull /\ ~r.empty => r.isr) => Raised(p))
    BY <1>4, <2>1, <2>2, PushShown, Zenon DEF Shown, RingOK, EndsInput
  <2> QED  BY <2>3, Zenon DEF Raised
<1> QED  BY <1>1, <1>2, <1>3, <1>4, BitOutcomes, Zenon

(* channel_read does.                                                       *)
LEMMA ReadShown ==
  ASSUME NEW r \in Receiver, Shown(r)
  PROVE  LET p == ReadFifo(r)
         IN  Shown(p) /\ (Raised(r) => Raised(p))
<1> DEFINE p == ReadFifo(r)
<1>1. p \in Receiver /\ SameModes(p, r) /\ p.occupied = FALSE
  BY ReadOutcomes, Zenon
<1>2. CASE TakenFrom(p, r)
  <2>1. /\ ~FifoFull(p) /\ RingOK(p)
        /\ ~p.empty => p.RxRDY
        /\ Raised(r) => (~p.intFull /\ ~p.empty => p.isr)
    BY <1>1, <1>2, TakeShown, Zenon
  <2> QED  BY <1>1, <2>1, RxFields, Zenon DEF Shown, Raised, RingOK
<1>3. ASSUME NEW q \in Receiver,
             TakenFrom(q, r), SameModes(q, r), Pushed(p, q, r.rsr)
      PROVE  Shown(p) /\ (Raised(r) => Raised(p))
  <2>1. /\ ~FifoFull(q) /\ RingOK(q)
        /\ ~q.empty => q.RxRDY
        /\ Raised(r) => (~q.intFull /\ ~q.empty => q.isr)
    BY <1>3, TakeShown, Zenon
  <2>2. SameModes(p, q) /\ r.rsr \in Cell
    BY <1>1, <1>3, RxFields, Zenon DEF SameModes
  <2>3. Shown(p) /\ ((~q.intFull /\ ~q.empty => q.isr) => Raised(p))
    BY <1>1, <1>3, <2>1, <2>2, PushShown, Zenon
  <2> QED  BY <2>1, <2>3, Zenon
<1> QED  BY <1>2, <1>3, ReadOutcomes, Zenon

(* The commands do.                                                         *)
LEMMA CommandShown ==
  ASSUME NEW r \in Receiver, NEW cmd \in Command, Shown(r)
  PROVE  LET p == SwitchReceiver(RxCommand(r, cmd), cmd)
         IN  Shown(p) /\ (Raised(r) => Raised(p))
<1> DEFINE p == SwitchReceiver(RxCommand(r, cmd), cmd)
<1>1. p \in Receiver /\ SameModes(p, r) /\ SameFlags(p, r)
  BY CommandOutcomes, Zenon
<1>2. CASE Cleared(p, r)
  BY <1>2, EmptyShown, Zenon DEF Cleared
<1>3. CASE SameRing(p, r) /\ p.occupied = r.occupied
  BY <1>1, <1>3, SameShown, Zenon DEF Shown
<1> QED  BY <1>2, <1>3, CommandOutcomes, Zenon

-----------------------------------------------------------------------------
(* What a step of a receiver does to the queue it implements: the actions   *)
(* of ReceiveQueue, on the receivers before and after.                      *)
QueueSame(p, r) ==
  Contents(p) = Contents(r) /\ p.occupied = r.occupied /\ p.overrun = r.overrun
QueueArrives(p, r) ==
  /\ FifoCount(r) < 3 /\ ~r.occupied
  /\ \E cell \in Cell : Contents(p) = Append(Contents(r), cell)
  /\ p.occupied = r.occupied /\ p.overrun = r.overrun
QueueHolds(p, r) ==
  /\ FifoCount(r) = 3
  /\ Contents(p) = Contents(r) /\ p.occupied = TRUE
  /\ p.overrun = (r.overrun \/ r.occupied)
QueueOverruns(p, r) ==
  /\ r.occupied
  /\ Contents(p) = Contents(r) /\ p.occupied = r.occupied /\ p.overrun = TRUE
QueueRead(p, r) ==
  /\ Contents(r) # <<>>
  /\ IF r.occupied
     THEN \E cell \in Cell : Contents(p) = Append(Tail(Contents(r)), cell)
     ELSE Contents(p) = Tail(Contents(r))
  /\ p.occupied = FALSE /\ p.overrun = r.overrun
QueueClears(p, r) ==
  Contents(p) = <<>> /\ p.occupied = FALSE /\ p.overrun \in {r.overrun, FALSE}
QueueForgets(p, r) ==
  Contents(p) = Contents(r) /\ p.occupied = r.occupied /\ p.overrun = FALSE

QueueSteps(p, r) ==
  QueueSame(p, r) \/ QueueArrives(p, r) \/ QueueHolds(p, r)
    \/ QueueOverruns(p, r) \/ QueueRead(p, r) \/ QueueClears(p, r)
    \/ QueueForgets(p, r)

(* An empty ring holds nothing.                                             *)
LEMMA EmptyContents ==
  ASSUME NEW p \in Receiver, p.empty = TRUE
  PROVE  Contents(p) = <<>>
<1>1. FifoCount(p) = 0
  BY DEF FifoCount
<1>2. Contents(p) \in Seq(Cell) /\ Len(Contents(p)) = 0
  BY <1>1, ContentsSeq
<1> QED  BY <1>2, EmptySeq

(* A bit time is an arrival, a hold or an overrun of the queue, or nothing. *)
LEMMA BitQueue ==
  ASSUME NEW r \in Receiver, Shown(r)
  PROVE  QueueSteps(ReceiveBit(r), r)
<1> DEFINE p == ReceiveBit(r)
<1>1. p \in Receiver /\ r.occupied \in BOOLEAN /\ r.overrun \in BOOLEAN
  BY BitOutcomes, RxFields, Zenon
<1>2. CASE p = r
  BY <1>2, Zenon DEF QueueSteps, QueueSame
<1>3. CASE Shifts(p, r)
  <2>1. Contents(p) = Contents(r)
    BY <1>3, SameCells, Zenon DEF Shifts
  <2>2. CASE r.occupied
    <3>1. p.overrun = TRUE
      BY <1>3, <2>2, Zenon DEF Shifts
    <3> QED  BY <1>3, <2>1, <2>2, <3>1, Zenon
             DEF QueueSteps, QueueOverruns, Shifts
  <2>3. CASE ~r.occupied
    <3>1. p.overrun = r.overrun
      BY <1>1, <1>3, <2>3, Zenon DEF Shifts
    <3> QED  BY <1>3, <2>1, <3>1, Zenon DEF QueueSteps, QueueSame, Shifts
  <2> QED  BY <2>2, <2>3
<1>4. CASE EndsInput(p, r) /\ KeptBack(p, r)
  <2>1. Contents(p) = Contents(r)
    BY <1>4, SameCells, Zenon DEF KeptBack
  <2>2. FifoCount(r) = 3
    BY <1>4, Count, Zenon DEF KeptBack
  <2> QED  BY <1>4, <2>1, <2>2, Zenon
           DEF QueueSteps, QueueHolds, KeptBack, EndsInput
<1>5. CASE /\ EndsInput(p, r)
           /\ ~FifoFull(r) /\ Pushed(p, r, <<r.input, r.size>>)
  <2>1. <<r.input, r.size>> \in Cell
    BY RxFields DEF Cell
  <2>2. FifoCount(r) < 3
    <3>1. FifoCount(r) \in 0..3 /\ FifoCount(r) # 3
      BY <1>5, Count
    <3> QED  BY <3>1
  <2>3. Contents(p) = Append(Contents(r), <<r.input, r.size>>)
    BY <1>1, <1>5, <2>1, PushAppends, Zenon DEF Shown, RingOK
  <2>4. ~r.occupied /\ p.occupied = r.occupied /\ p.overrun = r.overrun
    BY <1>1, <1>5, Zenon DEF Shown, Pushed, EndsInput
  <2> QED  BY <2>1, <2>2, <2>3, <2>4, Zenon DEF QueueSteps, QueueArrives
<1> QED  BY <1>2, <1>3, <1>4, <1>5, BitOutcomes, Zenon

(* A read of the CPU is a read of the queue, or of nothing.                 *)
LEMMA ReadQueue ==
  ASSUME NEW r \in Receiver, Shown(r)
  PROVE  QueueSteps(ReadFifo(r), r)
<1> DEFINE p == ReadFifo(r)
<1>1. /\ p \in Receiver /\ p.occupied = FALSE /\ p.overrun = r.overrun
      /\ RingOK(r) /\ r.empty \in BOOLEAN
  BY ReadOutcomes, RxFields, Zenon DEF Shown, RingOK
<1>2. CASE ~r.occupied /\ TakenFrom(p, r) /\ r.empty
  <2>1. p.empty = TRUE
    BY <1>2, Zenon DEF TakenFrom
  <2>2. Contents(p) = <<>> /\ Contents(r) = <<>>
    BY <1>1, <1>2, <2>1, EmptyContents, Zenon
  <2> QED  BY <1>1, <2>2 DEF QueueSteps, QueueClears
<1>3. CASE ~r.occupied /\ TakenFrom(p, r) /\ ~r.empty
  <2>1. Contents(r) # <<>> /\ Contents(p) = Tail(Contents(r))
    BY <1>1, <1>3, TakeDropsHead, Zenon
  <2> QED  BY <1>1, <1>3, <2>1, Zenon DEF QueueSteps, QueueRead
<1>4. ASSUME r.occupied, NEW q \in Receiver,
             TakenFrom(q, r), Pushed(p, q, r.rsr)
      PROVE  QueueSteps(p, r)
  <2>1. ~r.empty
    BY <1>4, Zenon DEF Shown, FifoFull
  <2>2. Contents(r) # <<>> /\ Contents(q) = Tail(Contents(r))
    BY <1>1, <1>4, <2>1, TakeDropsHead, Zenon
  <2>3. RingOK(q) /\ ~FifoFull(q) /\ r.rsr \in Cell
    BY <1>1, <1>4, TakeCells, RxFields, Zenon
  <2>4. Contents(p) = Append(Contents(q), r.rsr)
    BY <1>1, <1>4, <2>3, PushAppends, Zenon
  <2> QED  BY <1>1, <1>4, <2>2, <2>3, <2>4, Zenon DEF QueueSteps, QueueRead
<1> QED  BY <1>1, <1>2, <1>3, <1>4, ReadOutcomes, Zenon

(* A command clears the queue, forgets the overrun, or does nothing to it.  *)
LEMMA CommandQueue ==
  ASSUME NEW r \in Receiver, NEW cmd \in Command
  PROVE  QueueSteps(SwitchReceiver(RxCommand(r, cmd), cmd), r)
<1> DEFINE p == SwitchReceiver(RxCommand(r, cmd), cmd)
<1>1. p \in Receiver
  BY CommandOutcomes, Zenon
<1>2. CASE Cleared(p, r) /\ p.overrun = r.overrun
  <2>1. Contents(p) = <<>>
    BY <1>1, <1>2, EmptyContents, Zenon DEF Cleared
  <2>2. p.overrun \in {r.overrun, FALSE}
    BY <1>2
  <2> QED  BY <1>2, <2>1, <2>2, Zenon DEF QueueSteps, QueueClears, Cleared
<1>3. CASE /\ SameRing(p, r) /\ p.occupied = r.occupied
           /\ p.overrun = r.overrun \/ p.overrun = FALSE
  <2>1. Contents(p) = Contents(r)
    BY <1>3, SameCells, Zenon
  <2> QED  BY <1>3, <2>1, Zenon DEF QueueSteps, QueueSame, QueueForgets
<1> QED  BY <1>2, <1>3, CommandOutcomes, Zenon

-----------------------------------------------------------------------------
(* The transmitter's operators: their types and the fields they leave.      *)

(* The types of the fields of a transmitter *)
LEMMA TxFields ==
  ASSUME NEW t \in Transmitter
  PROVE  /\ t.enabled \in BOOLEAN /\ t.cts \in BOOLEAN
         /\ t.THR_set \in BOOLEAN /\ t.THR \in Char /\ t.tsr \in Cell
         /\ t.bits \in Nat /\ t.TxRDY \in BOOLEAN /\ t.TxEMT \in BOOLEAN
         /\ t.isr \in BOOLEAN
  BY SMT DEF Transmitter

(* channel_write, for THR, when it is accepted                              *)
LEMMA WriteFields ==
  ASSUME NEW t \in Transmitter, NEW ch \in Char, Accepts(t)
  PROVE  LET p == WriteTHR(t, ch)
         IN  /\ p \in Transmitter
             /\ p.enabled = t.enabled /\ p.cts = t.cts
             /\ p.tsr = t.tsr /\ p.bits = t.bits
             /\ p.THR = ch /\ p.THR_set = TRUE /\ p.TxEMT = FALSE
             /\ p.TxRDY = FALSE /\ p.isr = FALSE
<1> DEFINE p == [t EXCEPT !.THR = ch, !.THR_set = TRUE, !.TxEMT = FALSE,
                          !.TxRDY = FALSE, !.isr = FALSE]
<1>1. WriteTHR(t, ch) = p
  BY Zenon DEF WriteTHR
<1>2. p \in Transmitter
  BY Zenon DEF Transmitter
<1>3. /\ p.enabled = t.enabled /\ p.cts = t.cts
      /\ p.tsr = t.tsr /\ p.bits = t.bits
      /\ p.THR = ch /\ p.THR_set = TRUE /\ p.TxEMT = FALSE
      /\ p.TxRDY = FALSE /\ p.isr = FALSE
  BY SMT DEF Transmitter
<1> QED  BY <1>1, <1>2, <1>3

(* channel_enable_transmitter and channel_disable_transmitter               *)
LEMMA EnableFields ==
  ASSUME NEW t \in Transmitter
  PROVE  LET p == EnableTransmitter(t)
         IN  /\ p \in Transmitter
             /\ p.enabled = TRUE /\ p.cts = t.cts
             /\ p.tsr = t.tsr /\ p.bits = t.bits
             /\ p.THR = t.THR /\ p.THR_set = FALSE /\ p.TxEMT = TRUE
             /\ p.TxRDY = TRUE /\ p.isr = TRUE
<1> DEFINE p == [t EXCEPT !.enabled = TRUE, !.TxEMT = TRUE, !.THR_set = FALSE,
                          !.TxRDY = TRUE, !.isr = TRUE]
<1>1. EnableTransmitter(t) = p
  BY Zenon DEF EnableTransmitter
<1>2. p \in Transmitter
  BY Zenon DEF Transmitter
<1>3. /\ p.enabled = TRUE /\ p.cts = t.cts
      /\ p.tsr = t.tsr /\ p.bits = t.bits
      /\ p.THR = t.THR /\ p.THR_set = FALSE /\ p.TxEMT = TRUE
      /\ p.TxRDY = TRUE /\ p.isr = TRUE
  BY SMT DEF Transmitter
<1> QED  BY <1>1, <1>2, <1>3

LEMMA DisableFields ==
  ASSUME NEW t \in Transmitter
  PROVE  LET p == DisableTransmitter(t)
         IN  /\ p \in Transmitter
             /\ p.enabled = FALSE /\ p.cts = t.cts
             /\ p.tsr = t.tsr /\ p.bits = t.bits
             /\ p.THR = t.THR /\ p.THR_set = t.THR_set /\ p.TxEMT = FALSE
             /\ p.TxRDY = FALSE /\ p.isr = FALSE
<1> DEFINE p == [t EXCEPT !.enabled = FALSE, !.TxEMT = FALSE,
                          !.TxRDY = FALSE, !.isr = FALSE]
<1>1. DisableTransmitter(t) = p
  BY Zenon DEF DisableTransmitter
<1>2. p \in Transmitter
  BY Zenon DEF Transmitter
<1>3. /\ p.enabled = FALSE /\ p.cts = t.cts
      /\ p.tsr = t.tsr /\ p.bits = t.bits
      /\ p.THR = t.THR /\ p.THR_set = t.THR_set /\ p.TxEMT = FALSE
      /\ p.TxRDY = FALSE /\ p.isr = FALSE
  BY SMT DEF Transmitter
<1> QED  BY <1>1, <1>2, <1>3

(* channel_reset_transmitter                                                *)
LEMMA ResetTxFields ==
  ASSUME NEW t \in Transmitter
  PROVE  LET p == ResetTransmitter(t)
         IN  /\ p \in Transmitter
             /\ p.enabled = FALSE /\ p.cts = t.cts /\ p.bits = 0
             /\ p.THR = t.THR /\ p.THR_set = FALSE /\ p.TxEMT = TRUE
             /\ p.TxRDY = t.TxRDY /\ p.isr = t.isr
<1> DEFINE p == [t EXCEPT !.TxEMT = TRUE, !.THR_set = FALSE,
                          !.enabled = FALSE, !.tsr = Zero, !.bits = 0]
<1>1. ResetTransmitter(t) = p
  BY Zenon DEF ResetTransmitter
<1>2. p \in Transmitter
  BY Characters, Zenon DEF Transmitter
<1>3. /\ p.enabled = FALSE /\ p.cts = t.cts /\ p.bits = 0
      /\ p.THR = t.THR /\ p.THR_set = FALSE /\ p.TxEMT = TRUE
      /\ p.TxRDY = t.TxRDY /\ p.isr = t.isr
  BY SMT DEF Transmitter
<1> QED  BY <1>1, <1>2, <1>3

(* channel_set_mode, for MR2                                                *)
LEMMA CtsFields ==
  ASSUME NEW t \in Transmitter, NEW on \in BOOLEAN
  PROVE  LET p == [t EXCEPT !.cts = on]
         IN  /\ p \in Transmitter
             /\ p.enabled = t.enabled
             /\ p.tsr = t.tsr /\ p.bits = t.bits
             /\ p.THR = t.THR /\ p.THR_set = t.THR_set /\ p.TxEMT = t.TxEMT
             /\ p.TxRDY = t.TxRDY /\ p.isr = t.isr
<1> DEFINE p == [t EXCEPT !.cts = on]
<1>1. p \in Transmitter
  BY Zenon DEF Transmitter
<1>2. /\ p.enabled = t.enabled
      /\ p.tsr = t.tsr /\ p.bits = t.bits
      /\ p.THR = t.THR /\ p.THR_set = t.THR_set /\ p.TxEMT = t.TxEMT
      /\ p.TxRDY = t.TxRDY /\ p.isr = t.isr
  BY SMT DEF Transmitter
<1> QED  BY <1>1, <1>2

(* What resetserial leaves of a transmitter                                 *)
LEMMA FreshTxFields ==
  /\ FreshTransmitter \in Transmitter
  /\ FreshTransmitter.enabled = FALSE /\ FreshTransmitter.THR_set = FALSE
  /\ FreshTransmitter.bits = 0
  /\ FreshTransmitter.TxRDY = FALSE /\ FreshTransmitter.isr = FALSE
<1>1. Zero \in Cell /\ NoChar \in Char /\ 0 \in Nat
  BY Characters DEF Char
<1>2. FreshTransmitter \in Transmitter
  BY <1>1, SMT DEF FreshTransmitter, Transmitter
<1> QED  BY <1>2 DEF FreshTransmitter

(* The two halves of a bit time: the shift register is loaded when TxEMT    *)
(* says so, and then shifted.                                               *)
LEMMA LoadFields ==
  ASSUME NEW t \in Transmitter, NEW size \in Sizes
  PROVE  LET p == LoadTSR(t, size)
         IN  /\ p \in Transmitter
             /\ p.enabled = t.enabled /\ p.cts = t.cts /\ p.THR = t.THR
             /\ p.TxEMT = t.TxEMT
             /\ \/ /\ ~t.TxEMT /\ t.bits = 0
                   /\ p.tsr = <<t.THR, size>> /\ p.bits = size
                   /\ p.THR_set = FALSE /\ p.TxRDY = TRUE /\ p.isr = TRUE
                \/ (t.TxEMT \/ t.bits # 0) /\ p = t
<1> DEFINE cell == <<t.THR, size>>
           p == [t EXCEPT !.tsr = cell, !.bits = size,
                          !.THR_set = FALSE, !.TxRDY = TRUE, !.isr = TRUE]
<1>1. LoadTSR(t, size) = IF ~t.TxEMT /\ t.bits = 0 THEN p ELSE t
  BY Zenon DEF LoadTSR
<1>2. cell \in Cell /\ size \in Nat
  BY TxFields DEF Cell
<1> HIDE DEF cell
<1>3. p \in Transmitter
  BY <1>2, Zenon DEF Transmitter
<1>4. /\ p.enabled = t.enabled /\ p.cts = t.cts /\ p.THR = t.THR
      /\ p.TxEMT = t.TxEMT
      /\ p.tsr = cell /\ p.bits = size
      /\ p.THR_set = FALSE /\ p.TxRDY = TRUE /\ p.isr = TRUE
  BY SMT DEF Transmitter
<1> HIDE DEF p
<1>5. CASE ~t.TxEMT /\ t.bits = 0
  <2>1. LoadTSR(t, size) = p
    BY <1>1, <1>5
  <2> QED  BY <1>3, <1>4, <1>5, <2>1, Zenon DEF cell
<1>6. CASE ~(~t.TxEMT /\ t.bits = 0)
  <2>1. LoadTSR(t, size) = t
    BY <1>1, <1>6
  <2> QED  BY <1>6, <2>1, Zenon
<1> QED  BY <1>5, <1>6

LEMMA ShiftOutFields ==
  ASSUME NEW t \in Transmitter, t.bits > 0
  PROVE  LET p == ShiftOut(t)
         IN  /\ p \in Transmitter
             /\ p.enabled = t.enabled /\ p.cts = t.cts /\ p.THR = t.THR
             /\ p.THR_set = t.THR_set /\ p.TxRDY = t.TxRDY /\ p.isr = t.isr
             /\ p.tsr = t.tsr /\ p.bits = t.bits - 1
             /\ p.TxEMT = (t.TxEMT \/ (t.bits = 1 /\ ~t.THR_set))
<1> DEFINE n == t.bits - 1
           E == t.TxEMT \/ (t.bits = 1 /\ ~t.THR_set)
           p == [t EXCEPT !.bits = n, !.TxEMT = E]
<1>1. ShiftOut(t) = p
  BY Zenon DEF ShiftOut
<1>2. n \in Nat /\ E \in BOOLEAN
  BY TxFields
<1> HIDE DEF n, E
<1>3. p \in Transmitter
  BY <1>2, Zenon DEF Transmitter
<1>4. /\ p.enabled = t.enabled /\ p.cts = t.cts /\ p.THR = t.THR
      /\ p.THR_set = t.THR_set /\ p.TxRDY = t.TxRDY /\ p.isr = t.isr
      /\ p.tsr = t.tsr /\ p.bits = n /\ p.TxEMT = E
  BY SMT DEF Transmitter
<1> HIDE DEF p
<1> QED  BY <1>1, <1>3, <1>4, Zenon DEF n, E

(* One bit time of transmit_data: nothing more than the load, or a shift of *)
(* what the load left, which may end the character.                         *)
LEMMA TransmitOutcomes ==
  ASSUME NEW t \in Transmitter, NEW size \in Sizes
  PROVE  LET q == LoadTSR(t, size)
             p == TransmitBit(t, size)
         IN  /\ p \in Transmitter /\ q \in Transmitter
             /\ EndsOutput(t, size) \in BOOLEAN
             /\ p.enabled = t.enabled /\ p.THR = t.THR
             /\ p.THR_set = q.THR_set /\ p.TxRDY = q.TxRDY /\ p.isr = q.isr
             /\ p.tsr = q.tsr
             /\ \/ p = q /\ ~EndsOutput(t, size)
                \/ /\ q.bits > 1 /\ ~EndsOutput(t, size)
                   /\ p.bits = q.bits - 1 /\ p.TxEMT = q.TxEMT
                \/ /\ q.bits = 1 /\ EndsOutput(t, size)
                   /\ p.bits = 0 /\ p.TxEMT = (q.TxEMT \/ ~q.THR_set)
<1> DEFINE q == LoadTSR(t, size)
           p == TransmitBit(t, size)
           s == ShiftOut(q)
<1>1. q \in Transmitter /\ q.enabled = t.enabled /\ q.THR = t.THR
  BY LoadFields, Zenon
<1>2. p = IF CanShift(q) THEN s ELSE q
  BY DEF TransmitBit
<1>3. EndsOutput(t, size) <=> CanShift(q) /\ q.bits = 1
  BY DEF EndsOutput
<1>4. EndsOutput(t, size) \in BOOLEAN
  BY DEF EndsOutput
<1>5. q.bits \in Nat
  BY <1>1, TxFields
<1> HIDE DEF q
<1>6. CASE ~CanShift(q)
  <2>1. p = q
    BY <1>2, <1>6
  <2> QED  BY <1>1, <1>3, <1>4, <1>6, <2>1, Zenon DEF q
<1>7. CASE CanShift(q)
  <2>1. p = s /\ q.bits > 0
    BY <1>2, <1>7 DEF CanShift
  <2>2. /\ s \in Transmitter
        /\ s.enabled = q.enabled /\ s.cts = q.cts /\ s.THR = q.THR
        /\ s.THR_set = q.THR_set /\ s.TxRDY = q.TxRDY /\ s.isr = q.isr
        /\ s.tsr = q.tsr /\ s.bits = q.bits - 1
        /\ s.TxEMT = (q.TxEMT \/ (q.bits = 1 /\ ~q.THR_set))
    BY <1>1, <2>1, ShiftOutFields, Zenon
  <2> HIDE DEF p, s
  <2>3. CASE q.bits = 1
    <3>1. s.bits = 0 /\ EndsOutput(t, size)
      BY <1>3, <1>7, <2>2, <2>3
    <3>2. s.TxEMT = (q.TxEMT \/ ~q.THR_set)
      BY <2>2, <2>3, Zenon
    <3> QED  BY <1>1, <1>4, <2>1, <2>2, <2>3, <3>1, <3>2, Zenon DEF p, q
  <2>4. CASE q.bits # 1
    <3>1. q.bits > 1 /\ ~EndsOutput(t, size)
      BY <1>3, <1>5, <2>1, <2>4
    <3>2. s.TxEMT = q.TxEMT
      BY <1>1, <2>2, <2>4, TxFields, Zenon
    <3> QED  BY <1>1, <1>4, <2>1, <2>2, <3>1, <3>2, Zenon DEF p, q
  <2> QED  BY <2>3, <2>4
<1> QED  BY <1>6, <1>7

(* channel_write, for CR: the transmitter may be reset, and then be enabled *)
(* or disabled, or left as it was.                                          *)
LEMMA TxCommandOutcomes ==
  ASSUME NEW t \in Transmitter, NEW cmd \in Command
  PROVE  LET p == SwitchTransmitter(TxCommand(t, cmd), cmd)
         IN  \/ p = t
             \/ /\ cmd.op = "resetTransmitter" /\ ~cmd.txOn
                /\ p = ResetTransmitter(t)
             \/ /\ ~t.enabled /\ p = EnableTransmitter(t)
             \/ /\ cmd.txOff /\ t.enabled /\ p = DisableTransmitter(t)
<1> DEFINE resets == cmd.op = "resetTransmitter" /\ ~cmd.txOn /\ ~cmd.txOff
<1>1. CASE resets
  <2>1. TxCommand(t, cmd) = ResetTransmitter(t)
    BY <1>1 DEF TxCommand
  <2>2. SwitchTransmitter(ResetTransmitter(t), cmd) = ResetTransmitter(t)
    BY <1>1 DEF SwitchTransmitter
  <2> QED  BY <1>1, <2>1, <2>2
<1>2. CASE ~resets
  <2>1. TxCommand(t, cmd) = t
    BY <1>2 DEF TxCommand
  <2> QED  BY <2>1 DEF SwitchTransmitter
<1> QED  BY <1>1, <1>2

-----------------------------------------------------------------------------
(* Types.                                                                   *)

(* The conversion to int gives an int.                                      *)
LEMMA Wrapped ==
  ASSUME NEW i \in Int
  PROVE  Wrap(i) \in Ints
<1>1. IntLimit \in Nat \ {0} /\ 2 * IntLimit \in Nat \ {0}
  OBVIOUS
<1>2. (i + IntLimit) % (2 * IntLimit) \in 0..(2 * IntLimit - 1)
  BY <1>1
<1> QED  BY <1>1, <1>2 DEF Wrap, Ints, IntMin, IntMax

(* What a step makes of one receiver, of the last character the CPU read of *)
(* it, and of the socket                                                    *)
ReceiverRests(c) ==
  rx'[c] = rx[c] /\ lastRead'[c] = lastRead[c] /\ taken' \in {taken, taken + 1}
ReceiverRead(c) ==
  /\ rx'[c] = ReadFifo(rx[c]) /\ taken' = taken
  /\ lastRead'[c] = IF ReadsChar(c) THEN ReadValue(rx[c])[1] ELSE lastRead[c]
ReceiverSet(c) ==
  /\ \/ \E cmd \in Commands :
          /\ WriteCR(c, cmd)
          /\ rx'[c] = SwitchReceiver(RxCommand(rx[c], cmd), cmd)
     \/ \E m \in Modes1 : /\ rx'[c] = SetMR1(rx[c], m)
                          /\ ModesFirst => ~rx[c].enabled /\ rx[c].empty
     \/ rx'[c] = [rx[c] EXCEPT !.mr = 1]
     \/ \E on \in OutputPort : rx'[c] = [rx[c] EXCEPT !.rts = on]
     \/ rx'[c] = FreshReceiver(rx[c].input)
  /\ taken' = taken /\ lastRead'[c] = lastRead[c]
ReceiverGets(c) ==
  /\ phase = "rx" /\ cur = c
  /\ rx[c].bits = 0 /\ taken < arrived /\ taken' = taken + 1
  /\ rx'[c] = ReceiveBit(GetInput(rx[c], taken + 1))
  /\ lastRead'[c] = lastRead[c]
ReceiverContinues(c) ==
  /\ phase = "rx" /\ cur = c
  /\ rx[c].bits # 0 \/ rx[c].have
  /\ rx'[c] = ReceiveBit(rx[c])
  /\ taken' = taken /\ lastRead'[c] = lastRead[c]

(* Those are all the things that can happen to a receiver.                  *)
LEMMA ReceiverSteps ==
  ASSUME TypeOK, [Next]_vars, NEW c \in Channel
  PROVE  \/ ReceiverRests(c)
         \/ ReceiverRead(c)
         \/ ReceiverSet(c)
         \/ ReceiverGets(c)
         \/ ReceiverContinues(c)
<1> USE DEF LineUnchanged, CpuUnchanged
<1>1. rx \in [Channel -> Receiver] /\ lastRead \in [Channel -> 0..MaxChars]
      /\ taken \in Nat /\ cur \in Channel
  BY DEF TypeOK
<1>2. rx' = rx /\ lastRead' = lastRead /\ taken' \in {taken, taken + 1}
      => ReceiverRests(c)
  BY Zenon DEF ReceiverRests
<1>3. ASSUME NEW d \in Channel, ReadRHR(d)
      PROVE  ReceiverRests(c) \/ ReceiverRead(c)
  BY <1>1, <1>3 DEF ReadRHR, ReceiverRests, ReceiverRead
<1>4. ASSUME NEW d \in Channel, NEW cmd \in Commands, WriteCR(d, cmd)
      PROVE  ReceiverRests(c) \/ ReceiverSet(c)
  <2>1. /\ rx' = [rx EXCEPT ![d] = SwitchReceiver(RxCommand(@, cmd), cmd)]
        /\ taken' = taken /\ lastRead' = lastRead
    BY <1>4 DEF WriteCR
  <2>2. CASE d = c
    <3>1. rx'[c] = SwitchReceiver(RxCommand(rx[c], cmd), cmd)
      BY <1>1, <2>1, <2>2
    <3> QED  BY <1>4, <2>1, <2>2, <3>1, Zenon DEF ReceiverSet
  <2>3. CASE d # c
    BY <1>1, <2>1, <2>3 DEF ReceiverRests
  <2> QED  BY <2>2, <2>3
<1>5. ASSUME NEW d \in Channel, NEW m \in Modes1, WriteMR1(d, m)
      PROVE  ReceiverRests(c) \/ ReceiverSet(c)
  BY <1>1, <1>5 DEF WriteMR1, ReceiverRests, ReceiverSet
<1>6. ASSUME NEW d \in Channel, ReadMR(d)
      PROVE  ReceiverRests(c) \/ ReceiverSet(c)
  BY <1>1, <1>6 DEF ReadMR, ReceiverRests, ReceiverSet
<1>7. ASSUME NEW selected \in SUBSET Channel, NEW on \in OutputPort,
             WriteOutputPort(selected, on)
      PROVE  ReceiverRests(c) \/ ReceiverSet(c)
  BY <1>1, <1>7 DEF WriteOutputPort, ReceiverRests, ReceiverSet
<1>8. ASSUME ResetSerial
      PROVE  ReceiverSet(c)
  BY <1>1, <1>8 DEF ResetSerial, ReceiverSet
<1>9. ASSUME ReceiveStep
      PROVE  ReceiverRests(c) \/ ReceiverGets(c) \/ ReceiverContinues(c)
  <2>1. /\ phase = "rx" /\ lastRead' = lastRead
        /\ \/ /\ rx[cur].bits = 0 /\ taken < arrived /\ taken' = taken + 1
              /\ rx' = [rx EXCEPT ![cur] = ReceiveBit(GetInput(@, taken + 1))]
           \/ /\ rx[cur].bits # 0 \/ rx[cur].have
              /\ rx' = [rx EXCEPT ![cur] = ReceiveBit(@)] /\ taken' = taken
           \/ rx' = rx /\ taken' = taken
    BY <1>9, Zenon DEF ReceiveStep, SocketReady, NextTaken
  <2> QED
    BY <1>1, <2>1 DEF ReceiverRests, ReceiverGets, ReceiverContinues
<1>10. ASSUME Cpu
       PROVE  ReceiverRests(c) \/ ReceiverRead(c) \/ ReceiverSet(c)
  <2>1. ASSUME NEW d \in Channel, CpuWritesTHR(d)
        PROVE  rx' = rx /\ lastRead' = lastRead /\ taken' = taken
    BY <2>1 DEF CpuWritesTHR
  <2>2. ASSUME NEW d \in Channel, NEW cts \in Modes2, WriteMR2(d, cts)
        PROVE  rx' = rx /\ lastRead' = lastRead /\ taken' = taken
    BY <2>2 DEF WriteMR2
  <2>3. ASSUME NEW d \in Channel, WriteCSR(d)
        PROVE  rx' = rx /\ lastRead' = lastRead /\ taken' = taken
    BY <2>3 DEF WriteCSR
  <2>4. ASSUME NEW mask \in Masks, WriteIMR(mask)
        PROVE  rx' = rx /\ lastRead' = lastRead /\ taken' = taken
    BY <2>4 DEF WriteIMR
  <2>5. taken \in {taken, taken + 1}
    OBVIOUS
  <2> QED  BY <1>2, <1>3, <1>4, <1>5, <1>6, <1>7, <1>8, <1>10,
              <2>1, <2>2, <2>3, <2>4, <2>5, Zenon DEF Cpu
<1>11. ASSUME Poll
       PROVE  ReceiverRests(c) \/ ReceiverGets(c) \/ ReceiverContinues(c)
  <2>1. ASSUME NEW cycles \in PollCycles, PollSerial(cycles)
        PROVE  rx' = rx /\ lastRead' = lastRead /\ taken' = taken
    BY <2>1 DEF PollSerial
  <2>2. ASSUME ReceiveDone \/ TransmitStep \/ TransmitDone
        PROVE  rx' = rx /\ lastRead' = lastRead /\ taken' = taken
    BY <2>2 DEF ReceiveDone, TransmitStep, TransmitDone
  <2> QED  BY <1>2, <1>9, <1>11, <2>1, <2>2 DEF Poll
<1>12. ASSUME PeerWrites \/ UNCHANGED vars
       PROVE  ReceiverRests(c)
  BY <1>2, <1>12 DEF PeerWrites, vars
<1> QED  BY <1>10, <1>11, <1>12, Zenon DEF Next

(* What a step makes of one transmitter, of the characters it accepted and  *)
(* of the last one it sent                                                  *)
TransmitterRests(c) ==
  tx'[c] = tx[c] /\ written'[c] = written[c] /\ sent'[c] = sent[c]
TransmitterAccepts(c) ==
  /\ written[c] < MaxChars /\ Accepts(tx[c])
  /\ tx'[c] = WriteTHR(tx[c], written[c] + 1)
  /\ written'[c] = written[c] + 1 /\ sent'[c] = sent[c]
TransmitterSet(c) ==
  /\ phase = "cpu"
  /\ \/ \E cmd \in Commands :
          tx'[c] = SwitchTransmitter(TxCommand(tx[c], cmd), cmd)
     \/ \E cts \in Modes2 : tx'[c] = [tx[c] EXCEPT !.cts = cts]
     \/ Resets /\ tx'[c] = FreshTransmitter
  /\ phase' = phase /\ written'[c] = written[c] /\ sent'[c] = sent[c]
TransmitterShifts(c) ==
  /\ phase = "tx" /\ cur = c /\ phase' = phase /\ cur' = cur
  /\ tx'[c] = TransmitBit(tx[c], rx[c].size)
  /\ sent'[c] = IF EndsOutput(tx[c], rx[c].size)
                THEN OutputCell(tx[c], rx[c].size)[1] ELSE sent[c]
  /\ written'[c] = written[c]

(* Those are all the things that can happen to a transmitter.               *)
LEMMA TransmitterSteps ==
  ASSUME TypeOK, [Next]_vars, NEW c \in Channel
  PROVE  \/ TransmitterRests(c)
         \/ TransmitterAccepts(c)
         \/ TransmitterSet(c)
         \/ TransmitterShifts(c)
<1> USE DEF LineUnchanged, CpuUnchanged, TimeUnchanged
<1>1. tx \in [Channel -> Transmitter] /\ written \in [Channel -> 0..MaxChars]
      /\ sent \in [Channel -> 0..MaxChars] /\ cur \in Channel
  BY DEF TypeOK
<1>2. tx' = tx /\ written' = written /\ sent' = sent => TransmitterRests(c)
  BY Zenon DEF TransmitterRests
<1>3. ASSUME NEW d \in Channel, CpuWritesTHR(d)
      PROVE  TransmitterRests(c) \/ TransmitterAccepts(c)
  BY <1>1, <1>3 DEF CpuWritesTHR, TransmitterRests, TransmitterAccepts
<1>4. ASSUME NEW d \in Channel, NEW cmd \in Commands, WriteCR(d, cmd)
      PROVE  TransmitterRests(c) \/ TransmitterSet(c)
  BY <1>1, <1>4 DEF WriteCR, Idle, TransmitterRests, TransmitterSet
<1>5. ASSUME NEW d \in Channel, NEW cts \in Modes2, WriteMR2(d, cts)
      PROVE  TransmitterRests(c) \/ TransmitterSet(c)
  BY <1>1, <1>5 DEF WriteMR2, Idle, TransmitterRests, TransmitterSet
<1>6. ASSUME ResetSerial
      PROVE  TransmitterSet(c)
  BY <1>1, <1>6 DEF ResetSerial, Idle, TransmitterSet
<1>7. ASSUME TransmitStep
      PROVE  TransmitterRests(c) \/ TransmitterShifts(c)
  BY <1>1, <1>7 DEF TransmitStep, TransmitterRests, TransmitterShifts
<1>8. ASSUME Cpu
      PROVE  \/ TransmitterRests(c) \/ TransmitterAccepts(c)
             \/ TransmitterSet(c)
  <2>1. ASSUME NEW d \in Channel,
               \/ ReadRHR(d) \/ ReadMR(d) \/ WriteCSR(d)
               \/ \E m \in Modes1 : WriteMR1(d, m)
        PROVE  tx' = tx /\ written' = written /\ sent' = sent
    BY <2>1 DEF ReadRHR, ReadMR, WriteCSR, WriteMR1
  <2>2. ASSUME NEW selected \in SUBSET Channel, NEW on \in OutputPort,
               WriteOutputPort(selected, on)
        PROVE  tx' = tx /\ written' = written /\ sent' = sent
    BY <2>2 DEF WriteOutputPort
  <2>3. ASSUME NEW mask \in Masks, WriteIMR(mask)
        PROVE  tx' = tx /\ written' = written /\ sent' = sent
    BY <2>3 DEF WriteIMR
  <2> QED  BY <1>2, <1>3, <1>4, <1>5, <1>6, <1>8, <2>1, <2>2, <2>3, Zenon
           DEF Cpu
<1>9. ASSUME Poll
      PROVE  TransmitterRests(c) \/ TransmitterShifts(c)
  <2>1. ASSUME NEW cycles \in PollCycles, PollSerial(cycles)
        PROVE  tx' = tx /\ written' = written /\ sent' = sent
    BY <2>1 DEF PollSerial
  <2>2. ASSUME ReceiveDone \/ ReceiveStep \/ TransmitDone
        PROVE  tx' = tx /\ written' = written /\ sent' = sent
    BY <2>2 DEF ReceiveDone, ReceiveStep, TransmitDone
  <2> QED  BY <1>2, <1>7, <1>9, <2>1, <2>2 DEF Poll
<1>10. ASSUME PeerWrites \/ UNCHANGED vars
       PROVE  TransmitterRests(c)
  BY <1>2, <1>10 DEF PeerWrites, vars
<1> QED  BY <1>8, <1>9, <1>10, Zenon DEF Next

-----------------------------------------------------------------------------
(* Every receiver stays one: what each step makes of it has its type.       *)
LEMMA ReceiverTyped ==
  ASSUME TypeOK, [Next]_vars, NEW c \in Channel
  PROVE  rx'[c] \in Receiver /\ lastRead'[c] \in 0..MaxChars
<1>1. /\ rx[c] \in Receiver /\ lastRead[c] \in 0..MaxChars
      /\ taken \in Nat /\ arrived \in 0..MaxChars /\ taken + 1 \in Nat
  BY DEF TypeOK
<1>2. CASE ReceiverRests(c)
  BY <1>1, <1>2 DEF ReceiverRests
<1>3. CASE ReceiverRead(c)
  <2>1. rx'[c] \in Receiver
    <3>1. ReadFifo(rx[c]) \in Receiver
      BY <1>1, ReadOutcomes
    <3> QED  BY <1>3, <3>1, Zenon DEF ReceiverRead
  <2>2. ReadValue(rx[c])[1] \in 0..MaxChars
    <3>1. rx[c].front \in Slot /\ rx[c].data \in [Slot -> Cell]
      BY <1>1, RxFields
    <3> QED  BY <3>1, Characters DEF ReadValue, Cell
  <2> QED  BY <1>1, <1>3, <2>1, <2>2, Zenon DEF ReceiverRead
<1>4. CASE ReceiverSet(c)
  <2>1. ASSUME NEW cmd \in Commands
        PROVE  SwitchReceiver(RxCommand(rx[c], cmd), cmd) \in Receiver
    <3>1. cmd \in Command
      OBVIOUS
    <3> QED  BY <1>1, <3>1, CommandOutcomes, Zenon
  <2>2. ASSUME NEW m \in Modes1
        PROVE  SetMR1(rx[c], m) \in Receiver
    <3>1. m \in Mode1
      OBVIOUS
    <3> QED  BY <1>1, <3>1, ModeFields, Zenon
  <2>3. [rx[c] EXCEPT !.mr = 1] \in Receiver
    BY <1>1, Zenon DEF Receiver
  <2>4. ASSUME NEW on \in OutputPort
        PROVE  [rx[c] EXCEPT !.rts = on] \in Receiver
    <3>1. on \in BOOLEAN
      OBVIOUS
    <3> QED  BY <1>1, <3>1, Zenon DEF Receiver
  <2>5. FreshReceiver(rx[c].input) \in Receiver
    BY <1>1, RxFields, FreshFields, Zenon
  <2> QED  BY <1>1, <1>4, <2>1, <2>2, <2>3, <2>4, <2>5 DEF ReceiverSet
<1>5. CASE ReceiverGets(c)
  <2>1. taken + 1 \in Char
    BY <1>1, <1>5, Characters DEF ReceiverGets
  <2>2. GetInput(rx[c], taken + 1) \in Receiver
    BY <1>1, <2>1, InputFields, Zenon
  <2>3. ReceiveBit(GetInput(rx[c], taken + 1)) \in Receiver
    BY <2>2, BitOutcomes
  <2> QED  BY <1>1, <1>5, <2>3, Zenon DEF ReceiverGets
<1>6. CASE ReceiverContinues(c)
  BY <1>1, <1>6, BitOutcomes, Zenon DEF ReceiverContinues
<1> QED  BY <1>2, <1>3, <1>4, <1>5, <1>6, ReceiverSteps, Zenon

(* So does every transmitter.                                               *)
LEMMA TransmitterTyped ==
  ASSUME TypeOK, [Next]_vars, NEW c \in Channel
  PROVE  /\ tx'[c] \in Transmitter
         /\ written'[c] \in 0..MaxChars /\ sent'[c] \in 0..MaxChars
<1>1. /\ tx[c] \in Transmitter
      /\ written[c] \in 0..MaxChars /\ sent[c] \in 0..MaxChars
      /\ rx[c] \in Receiver
  BY DEF TypeOK
<1>2. CASE TransmitterRests(c)
  BY <1>1, <1>2 DEF TransmitterRests
<1>3. CASE TransmitterAccepts(c)
  <2>1. written[c] + 1 \in 0..MaxChars /\ written[c] + 1 \in Char
    BY <1>1, <1>3, Characters DEF TransmitterAccepts
  <2> QED  BY <1>1, <1>3, <2>1, WriteFields, Zenon DEF TransmitterAccepts
<1>4. CASE TransmitterSet(c)
  <2>1. ASSUME NEW cmd \in Commands
        PROVE  SwitchTransmitter(TxCommand(tx[c], cmd), cmd) \in Transmitter
    <3>1. cmd \in Command
      OBVIOUS
    <3>2. /\ ResetTransmitter(tx[c]) \in Transmitter
          /\ EnableTransmitter(tx[c]) \in Transmitter
          /\ DisableTransmitter(tx[c]) \in Transmitter
      BY <1>1, ResetTxFields, EnableFields, DisableFields
    <3>3. SwitchTransmitter(TxCommand(tx[c], cmd), cmd)
            \in {tx[c], ResetTransmitter(tx[c]), EnableTransmitter(tx[c]),
                 DisableTransmitter(tx[c])}
      BY <1>1, <3>1, TxCommandOutcomes
    <3> QED  BY <1>1, <3>2, <3>3
  <2>2. ASSUME NEW cts \in Modes2
        PROVE  [tx[c] EXCEPT !.cts = cts] \in Transmitter
    <3>1. cts \in BOOLEAN
      OBVIOUS
    <3> QED  BY <1>1, <3>1, CtsFields, Zenon
  <2> QED  BY <1>1, <1>4, <2>1, <2>2, FreshTxFields, Zenon
           DEF TransmitterSet
<1>5. CASE TransmitterShifts(c)
  <2>1. rx[c].size \in Sizes
    BY <1>1, RxFields, Zenon
  <2>2. TransmitBit(tx[c], rx[c].size) \in Transmitter
    BY <1>1, <2>1, TransmitOutcomes, Zenon
  <2>3. OutputCell(tx[c], rx[c].size)[1] \in 0..MaxChars
    <3>1. LoadTSR(tx[c], rx[c].size) \in Transmitter
      BY <1>1, <2>1, LoadFields, Zenon
    <3>2. LoadTSR(tx[c], rx[c].size).tsr \in Cell
      BY <3>1, TxFields, Zenon
    <3> QED  BY <3>2, Characters DEF OutputCell, Cell
  <2> QED  BY <1>1, <1>5, <2>2, <2>3, Zenon DEF TransmitterShifts
<1> QED  BY <1>2, <1>3, <1>4, <1>5, TransmitterSteps, Zenon

(* The variables that are functions on the channels stay that.              *)
PerChannel(f) == f = [c \in Channel |-> f[c]]
AllPerChannel == /\ PerChannel(rx) /\ PerChannel(lastRead)
                 /\ PerChannel(tx) /\ PerChannel(written) /\ PerChannel(sent)
                 /\ PerChannel(rxPeriod) /\ PerChannel(txPeriod)

(* A step keeps their domain.                                               *)
LEMMA ChannelsKept ==
  ASSUME AllPerChannel, [Next]_vars
  PROVE  AllPerChannel'
<1> USE DEF AllPerChannel, PerChannel, LineUnchanged, ClocksUnchanged,
            CpuUnchanged
<1>1. ASSUME NEW d \in Channel, ReadRHR(d)
      PROVE  AllPerChannel'
  BY <1>1 DEF ReadRHR
<1>2. ASSUME NEW d \in Channel, CpuWritesTHR(d)
      PROVE  AllPerChannel'
  BY <1>2 DEF CpuWritesTHR
<1>3. ASSUME NEW d \in Channel, NEW cmd \in Commands, WriteCR(d, cmd)
      PROVE  AllPerChannel'
  BY <1>3 DEF WriteCR
<1>4. ASSUME NEW d \in Channel, NEW m \in Modes1, WriteMR1(d, m)
      PROVE  AllPerChannel'
  BY <1>4 DEF WriteMR1
<1>5. ASSUME NEW d \in Channel, NEW cts \in Modes2, WriteMR2(d, cts)
      PROVE  AllPerChannel'
  BY <1>5 DEF WriteMR2
<1>6. ASSUME NEW d \in Channel, ReadMR(d)
      PROVE  AllPerChannel'
  BY <1>6 DEF ReadMR
<1>7. ASSUME NEW d \in Channel, WriteCSR(d)
      PROVE  AllPerChannel'
  BY <1>7 DEF WriteCSR
<1>8. ASSUME NEW selected \in SUBSET Channel, NEW on \in OutputPort,
             WriteOutputPort(selected, on)
      PROVE  AllPerChannel'
  BY <1>8 DEF WriteOutputPort
<1>9. ASSUME NEW mask \in Masks, WriteIMR(mask)
      PROVE  AllPerChannel'
  BY <1>9 DEF WriteIMR
<1>10. ASSUME ResetSerial
       PROVE  AllPerChannel'
  BY <1>10 DEF ResetSerial
<1>11. ASSUME NEW cycles \in PollCycles, PollSerial(cycles)
       PROVE  AllPerChannel'
  BY <1>11 DEF PollSerial
<1>12. ASSUME ReceiveStep
       PROVE  AllPerChannel'
  BY <1>12 DEF ReceiveStep
<1>13. ASSUME TransmitStep
       PROVE  AllPerChannel'
  BY <1>13 DEF TransmitStep
<1>14. ASSUME ReceiveDone \/ TransmitDone \/ PeerWrites \/ UNCHANGED vars
       PROVE  AllPerChannel'
  BY <1>14 DEF ReceiveDone, TransmitDone, PeerWrites, vars
<1> HIDE DEF AllPerChannel
<1> QED  BY <1>1, <1>2, <1>3, <1>4, <1>5, <1>6, <1>7, <1>8, <1>9, <1>10,
            <1>11, <1>12, <1>13, <1>14, Zenon DEF Next, Cpu, Poll

(* The counters, the periods, the interrupt line and the state of the poll. *)
RestTyped ==
  /\ \A c \in Channel : rxPeriod[c] \in Ints /\ txPeriod[c] \in Ints
  /\ receiveCycles \in Ints /\ transmitCycles \in Ints
  /\ imr \in SUBSET Source /\ serialIrq \in BOOLEAN
  /\ phase \in {"cpu", "rx", "tx"} /\ cur \in Channel
  /\ arrived \in 0..MaxChars /\ taken \in 0..arrived

(* A step keeps them typed.                                                 *)
LEMMA RestKept ==
  ASSUME TypeOK, [Next]_vars
  PROVE  RestTyped'
<1> USE DEF LineUnchanged, ClocksUnchanged, CpuUnchanged, TimeUnchanged
<1>1. RestTyped
  BY DEF TypeOK, RestTyped
<1>2. rxPeriod = [c \in Channel |-> rxPeriod[c]]
      /\ txPeriod = [c \in Channel |-> txPeriod[c]]
  BY DEF TypeOK
<1>3. /\ Ints \subseteq Int /\ 0 \in Ints /\ 0 \in Channel
      /\ {IntMin, IntMax} \subseteq Ints /\ Rates \subseteq Ints
      /\ PollCycles \subseteq Int
  BY DEF Ints, IntMin, IntMax, Channel
<1> USE DEF RestTyped
<1>4. ASSUME NEW d \in Channel,
             \/ ReadRHR(d) \/ CpuWritesTHR(d) \/ ReadMR(d)
             \/ \E cmd \in Commands : WriteCR(d, cmd)
             \/ \E m \in Modes1 : WriteMR1(d, m)
             \/ \E cts \in Modes2 : WriteMR2(d, cts)
      PROVE  RestTyped'
  BY <1>1, <1>4 DEF ReadRHR, CpuWritesTHR, ReadMR, WriteCR, WriteMR1, WriteMR2
<1>5. ASSUME NEW d \in Channel, WriteCSR(d)
      PROVE  RestTyped'
  <2>1. PICK p \in Ints, q \in Ints :
               /\ rxPeriod' = [rxPeriod EXCEPT ![d] = p]
               /\ txPeriod' = [txPeriod EXCEPT ![d] = q]
    BY <1>3, <1>5 DEF WriteCSR, Period
  <2>2. \A c \in Channel : rxPeriod'[c] \in Ints /\ txPeriod'[c] \in Ints
    BY <1>1, <1>2, <2>1
  <2> QED  BY <1>1, <1>5, <2>2 DEF WriteCSR
<1>6. ASSUME NEW selected \in SUBSET Channel, NEW on \in OutputPort,
             WriteOutputPort(selected, on)
      PROVE  RestTyped'
  BY <1>1, <1>6 DEF WriteOutputPort
<1>7. ASSUME NEW mask \in Masks, WriteIMR(mask)
      PROVE  RestTyped'
  BY <1>1, <1>7 DEF WriteIMR
<1>8. ASSUME ResetSerial
      PROVE  RestTyped'
  BY <1>1, <1>3, <1>8 DEF ResetSerial
<1>9. ASSUME NEW cycles \in PollCycles, PollSerial(cycles)
      PROVE  RestTyped'
  <2>1. receiveCycles' \in Ints /\ transmitCycles' \in Ints
    <3>1. receiveCycles + cycles \in Int /\ transmitCycles + cycles \in Int
      BY <1>1, <1>3
    <3> QED  BY <1>9, <3>1, Wrapped DEF PollSerial
  <2> QED  BY <1>1, <1>3, <1>9, <2>1 DEF PollSerial
<1>10. ASSUME ReceiveStep
       PROVE  RestTyped'
  <2>1. receiveCycles' \in Ints
    <3>1. receiveCycles \in Ints /\ rxPeriod[cur] \in Ints
      BY <1>1
    <3>2. receiveCycles - rxPeriod[cur] \in Int
      BY <3>1 DEF Ints, IntMin, IntMax
    <3> QED  BY <1>10, <3>2, Wrapped DEF ReceiveStep, Spend
  <2>2. taken' \in 0..arrived
    BY <1>1, <1>10 DEF ReceiveStep, SocketReady, NextTaken
  <2> QED  BY <1>1, <1>10, <2>1, <2>2 DEF ReceiveStep
<1>11. ASSUME TransmitStep
       PROVE  RestTyped'
  <2>1. transmitCycles' \in Ints
    <3>1. transmitCycles \in Ints /\ txPeriod[cur] \in Ints
      BY <1>1
    <3>2. transmitCycles - txPeriod[cur] \in Int
      BY <3>1 DEF Ints, IntMin, IntMax
    <3> QED  BY <1>11, <3>2, Wrapped DEF TransmitStep, Spend
  <2> QED  BY <1>1, <1>11, <2>1 DEF TransmitStep
<1>12. FinishChannel => /\ phase' \in {"cpu", "rx", "tx"} /\ cur' \in Channel
                        /\ serialIrq' \in BOOLEAN
  BY <1>1, <1>3 DEF FinishChannel, InterruptLine
<1>13. ASSUME ReceiveDone
       PROVE  RestTyped'
  <2>1. /\ phase' \in {"cpu", "rx", "tx"} /\ cur' \in Channel
        /\ serialIrq' \in BOOLEAN
    BY <1>1, <1>12, <1>13 DEF ReceiveDone
  <2> QED  BY <1>1, <1>13, <2>1 DEF ReceiveDone
<1>14. ASSUME TransmitDone
       PROVE  RestTyped'
  BY <1>1, <1>12, <1>14 DEF TransmitDone
<1>15. ASSUME PeerWrites \/ UNCHANGED vars
       PROVE  RestTyped'
  BY <1>1, <1>15 DEF PeerWrites, vars
<1> HIDE DEF RestTyped
<1> QED  BY <1>4, <1>5, <1>6, <1>7, <1>8, <1>9, <1>10, <1>11, <1>13, <1>14,
            <1>15, Zenon DEF Next, Cpu, Poll

(* Type correctness: whatever the CPU writes to the registers, the counters *)
(* stay ints, a FIFO's indexes stay in its ring, and no more characters are *)
(* taken from the socket than the peer wrote.  (src/serial.c)               *)
THEOREM TypeCorrect == Spec => []TypeOK
<1>1. Init => TypeOK
  <2> SUFFICES ASSUME Init
               PROVE  TypeOK
    OBVIOUS
  <2>1. 0 \in Ints /\ 0 \in Channel /\ 0 \in 0..MaxChars /\ NoChar \in Char
    BY DEF Ints, IntMin, IntMax, Channel, Char
  <2>2. FreshReceiver(NoChar) \in Receiver /\ FreshTransmitter \in Transmitter
    BY <2>1, FreshFields, FreshTxFields
  <2>3. /\ rx \in [Channel -> Receiver] /\ tx \in [Channel -> Transmitter]
        /\ rxPeriod \in [Channel -> Ints] /\ txPeriod \in [Channel -> Ints]
    BY <2>1, <2>2 DEF Init
  <2>4. /\ written \in [Channel -> 0..MaxChars]
        /\ sent \in [Channel -> 0..MaxChars]
        /\ lastRead \in [Channel -> 0..MaxChars]
    BY <2>1 DEF Init
  <2>5. /\ receiveCycles \in Ints /\ transmitCycles \in Ints
        /\ cur \in Channel /\ arrived \in 0..MaxChars /\ taken \in 0..arrived
    BY <2>1 DEF Init
  <2>6. /\ imr \in SUBSET Source /\ serialIrq \in BOOLEAN
        /\ phase \in {"cpu", "rx", "tx"}
    BY Zenon DEF Init
  <2> QED  BY <2>3, <2>4, <2>5, <2>6 DEF TypeOK
<1>2. TypeOK /\ [Next]_vars => TypeOK'
  <2> SUFFICES ASSUME TypeOK, [Next]_vars
               PROVE  TypeOK'
    OBVIOUS
  <2>1. AllPerChannel
    BY DEF TypeOK, AllPerChannel, PerChannel
  <2>2. AllPerChannel' /\ RestTyped'
    BY <2>1, ChannelsKept, RestKept, Zenon
  <2>3. \A c \in Channel :
          /\ rx'[c] \in Receiver /\ lastRead'[c] \in 0..MaxChars
          /\ tx'[c] \in Transmitter
          /\ written'[c] \in 0..MaxChars /\ sent'[c] \in 0..MaxChars
    BY ReceiverTyped, TransmitterTyped, Zenon
  <2>4. ASSUME NEW f, NEW S, PerChannel(f), \A c \in Channel : f[c] \in S
        PROVE  f \in [Channel -> S]
    BY <2>4 DEF PerChannel
  <2>5. /\ rx' \in [Channel -> Receiver] /\ lastRead' \in [Channel -> 0..MaxChars]
        /\ tx' \in [Channel -> Transmitter]
        /\ written' \in [Channel -> 0..MaxChars]
        /\ sent' \in [Channel -> 0..MaxChars]
        /\ rxPeriod' \in [Channel -> Ints] /\ txPeriod' \in [Channel -> Ints]
    BY <2>2, <2>3, <2>4, Zenon DEF AllPerChannel, RestTyped
  <2> QED  BY <2>2, <2>5, Zenon DEF TypeOK, RestTyped
<1> QED  BY <1>1, <1>2, PTL DEF Spec

-----------------------------------------------------------------------------
(* The receiver's flags.                                                    *)

(* Every step of a receiver keeps its status right.                         *)
LEMMA ShownKept ==
  ASSUME TypeOK, [Next]_vars, NEW c \in Channel, Shown(rx[c])
  PROVE  Shown(rx'[c])
<1>1. rx[c] \in Receiver /\ taken \in Nat /\ arrived \in 0..MaxChars
  BY DEF TypeOK
<1>2. CASE ReceiverRests(c)
  BY <1>2, Zenon DEF ReceiverRests
<1>3. CASE ReceiverRead(c)
  BY <1>1, <1>3, ReadShown, Zenon DEF ReceiverRead
<1>4. CASE ReceiverSet(c)
  <2>1. ASSUME NEW cmd \in Commands
        PROVE  Shown(SwitchReceiver(RxCommand(rx[c], cmd), cmd))
    <3>1. cmd \in Command
      OBVIOUS
    <3> QED  BY <1>1, <3>1, CommandShown, Zenon
  <2>2. ASSUME NEW p, SameRing(p, rx[c]), SameFlags(p, rx[c]),
               p.occupied = rx[c].occupied
        PROVE  Shown(p)
    BY <2>2, SameShown, Zenon DEF Shown
  <2>3. ASSUME NEW m \in Modes1
        PROVE  Shown(SetMR1(rx[c], m))
    <3>1. m \in Mode1
      OBVIOUS
    <3> QED  BY <1>1, <2>2, <3>1, ModeFields, Zenon
  <2>4. Shown([rx[c] EXCEPT !.mr = 1])
    <3>1. 1 \in {0, 1} /\ TRUE \in BOOLEAN
      OBVIOUS
    <3> QED  BY <1>1, <2>2, <3>1, SettingFields, Zenon
  <2>5. ASSUME NEW on \in OutputPort
        PROVE  Shown([rx[c] EXCEPT !.rts = on])
    <3> DEFINE p == [rx[c] EXCEPT !.rts = on]
    <3>1. on \in BOOLEAN
      OBVIOUS
    <3>2. /\ SameRing(p, rx[c]) /\ p.occupied = rx[c].occupied
          /\ p.RxRDY = rx[c].RxRDY /\ p.FFULL = rx[c].FFULL
      BY <1>1, <3>1, RtsFields, Zenon
    <3> HIDE DEF p
    <3>3. FifoFull(p) <=> FifoFull(rx[c])
      BY <3>2, SameCells, Zenon
    <3> QED  BY <3>2, <3>3, Zenon DEF Shown, SameRing, p
  <2>6. Shown(FreshReceiver(rx[c].input))
    BY <1>1, RxFields, FreshFields, EmptyShown, Zenon
  <2> QED  BY <1>4, <2>1, <2>3, <2>4, <2>5, <2>6, Zenon DEF ReceiverSet
<1>5. CASE ReceiverGets(c)
  <2> DEFINE q == GetInput(rx[c], taken + 1)
  <2>1. taken + 1 \in Char
    BY <1>1, <1>5, Characters DEF ReceiverGets
  <2>2. /\ q \in Receiver /\ SameRing(q, rx[c]) /\ SameFlags(q, rx[c])
        /\ q.occupied = rx[c].occupied
    BY <1>1, <2>1, InputFields, Zenon
  <2> HIDE DEF q
  <2>3. Shown(q)
    BY <2>2, SameShown, Zenon DEF Shown
  <2>4. Shown(ReceiveBit(q))
    BY <2>2, <2>3, BitShown, Zenon
  <2> QED  BY <1>5, <2>4, Zenon DEF ReceiverGets, q
<1>6. CASE ReceiverContinues(c)
  BY <1>1, <1>6, BitShown, Zenon DEF ReceiverContinues
<1> QED  BY <1>2, <1>3, <1>4, <1>5, <1>6, ReceiverSteps, Zenon

(* What leaves the ring and the status bits alone leaves them exact.        *)
LEMMA SameExact ==
  ASSUME NEW r, NEW p, StatusExact(r),
         SameRing(p, r), p.RxRDY = r.RxRDY, p.FFULL = r.FFULL
  PROVE  StatusExact(p)
<1>1. FifoFull(p) <=> FifoFull(r)
  BY SameCells, Zenon
<1> QED  BY <1>1, Zenon DEF StatusExact, SameRing

(* A push into a FIFO with room makes them exact, if FFULL was.             *)
LEMMA PushExact ==
  ASSUME NEW r \in Receiver, NEW p, NEW cell, Pushed(p, r, cell),
         ~FifoFull(r), ~r.empty => r.RxRDY, ~r.FFULL
  PROVE  StatusExact(p)
<1> DEFINE full == r.front = Succ(r.back)
<1>1. /\ p.front = r.front /\ p.back = Succ(r.back) /\ p.empty = FALSE
      /\ p.RxRDY = (r.RxRDY \/ r.empty) /\ p.FFULL = (r.FFULL \/ full)
  BY Zenon DEF Pushed
<1>2. FifoFull(p) <=> full
  BY <1>1, Zenon DEF FifoFull
<1> QED  BY <1>1, <1>2, RxFields, Zenon DEF StatusExact

(* A bit received keeps them exact.                                         *)
LEMMA BitExact ==
  ASSUME NEW r \in Receiver, Shown(r), StatusExact(r)
  PROVE  StatusExact(ReceiveBit(r))
<1> DEFINE p == ReceiveBit(r)
<1>1. CASE r.bits >= r.size /\ p = r
  BY <1>1
<1>2. CASE Shifts(p, r)
  BY <1>2, SameExact, Zenon DEF Shifts, SameFlags
<1>3. CASE KeptBack(p, r)
  BY <1>3, SameExact, Zenon DEF KeptBack, SameFlags
<1>4. CASE ~FifoFull(r) /\ Pushed(p, r, <<r.input, r.size>>)
  BY <1>4, PushExact, RxFields, Zenon DEF StatusExact
<1> QED  BY <1>1, <1>2, <1>3, <1>4, BitOutcomes, Zenon

(* A read makes them exact, whatever they were.                             *)
LEMMA ReadExact ==
  ASSUME NEW r \in Receiver, Shown(r)
  PROVE  StatusExact(ReadFifo(r))
<1> DEFINE p == ReadFifo(r)
<1>1. p \in Receiver /\ SameModes(p, r)
  BY ReadOutcomes, Zenon
<1>2. ASSUME NEW q \in Receiver, TakenFrom(q, r), SameModes(q, r)
      PROVE  /\ ~FifoFull(q) /\ q.FFULL = FALSE
             /\ q.RxRDY <=> ~q.empty
  <2>1. ~FifoFull(q) /\ (~q.empty => q.RxRDY)
    BY <1>2, TakeShown, Zenon
  <2>2. q.empty => ~q.RxRDY
    <3>1. r.empty => r.front = r.back
      BY Zenon DEF Shown
    <3> QED  BY <1>2, <3>1, RxFields, Zenon DEF TakenFrom
  <2>3. q.FFULL = FALSE
    BY <1>2, Zenon DEF TakenFrom
  <2> QED  BY <2>1, <2>2, <2>3, RxFields, Zenon
<1>3. CASE TakenFrom(p, r)
  BY <1>1, <1>2, <1>3, Zenon DEF StatusExact
<1>4. ASSUME NEW q \in Receiver,
             TakenFrom(q, r), SameModes(q, r), Pushed(p, q, r.rsr)
      PROVE  StatusExact(p)
  BY <1>2, <1>4, PushExact, RxFields, Zenon
<1> QED  BY <1>3, <1>4, ReadOutcomes, Zenon

(* Every step of a receiver keeps them exact, but for a reset by command.   *)
LEMMA ExactKept ==
  ASSUME TypeOK, [Next]_vars, NEW c \in Channel, Shown(rx[c]),
         StatusExact(rx[c]), ~ResetsReceiver(c)
  PROVE  StatusExact(rx'[c])
<1>1. rx[c] \in Receiver /\ taken \in Nat /\ arrived \in 0..MaxChars
  BY DEF TypeOK
<1>2. CASE ReceiverRests(c)
  BY <1>2, Zenon DEF ReceiverRests
<1>3. CASE ReceiverRead(c)
  BY <1>1, <1>3, ReadExact, Zenon DEF ReceiverRead
<1>4. CASE ReceiverSet(c)
  <2>1. ASSUME NEW p, SameRing(p, rx[c]), SameFlags(p, rx[c])
        PROVE  StatusExact(p)
    BY <2>1, SameExact, Zenon DEF SameFlags
  <2>2. ASSUME NEW cmd \in Commands, WriteCR(c, cmd)
        PROVE  StatusExact(SwitchReceiver(RxCommand(rx[c], cmd), cmd))
    <3> DEFINE q == RxCommand(rx[c], cmd)
               on == IF q.enabled THEN ~cmd.rxOff ELSE cmd.rxOn
               p == [q EXCEPT !.enabled = on]
    <3>1. cmd.op # "resetReceiver"
      BY <2>2, Zenon DEF ResetsReceiver
    <3>2. \/ q = [rx[c] EXCEPT !.mr = 0]
          \/ q = ResetError(rx[c])
          \/ q = rx[c]
      BY <3>1 DEF RxCommand
    <3>3. 0 \in {0, 1} /\ TRUE \in BOOLEAN
      OBVIOUS
    <3>4. SwitchReceiver(q, cmd) = p
      BY Zenon DEF SwitchReceiver
    <3>5. on \in BOOLEAN
      <4>1. cmd.rxOff \in BOOLEAN /\ cmd.rxOn \in BOOLEAN
        BY SMT DEF Command
      <4> QED  BY <4>1, Zenon
    <3> HIDE DEF q, on
    <3>6. q \in Receiver /\ SameRing(q, rx[c]) /\ SameFlags(q, rx[c])
      <4>1. CASE q = [rx[c] EXCEPT !.mr = 0]
        BY <1>1, <3>3, <4>1, SettingFields, Zenon
      <4>2. CASE q = ResetError(rx[c])
        BY <1>1, <3>3, <4>2, SettingFields, Zenon
      <4>3. CASE q = rx[c]
        BY <1>1, <4>3, Zenon DEF SameRing, SameFlags
      <4> QED  BY <3>2, <4>1, <4>2, <4>3
    <3>7. SameRing(p, q) /\ SameFlags(p, q)
      BY <3>3, <3>5, <3>6, SettingFields, Zenon
    <3> HIDE DEF p
    <3>8. SameRing(p, rx[c]) /\ SameFlags(p, rx[c])
      BY <3>6, <3>7, Zenon DEF SameRing, SameFlags
    <3>9. StatusExact(p)
      BY <3>8, <2>1, Zenon
    <3> QED  BY <3>4, <3>9, Zenon DEF q
  <2>3. ASSUME NEW m \in Modes1
        PROVE  StatusExact(SetMR1(rx[c], m))
    <3>1. m \in Mode1
      OBVIOUS
    <3> QED  BY <1>1, <2>1, <3>1, ModeFields, Zenon
  <2>4. StatusExact([rx[c] EXCEPT !.mr = 1])
    <3>1. 1 \in {0, 1} /\ TRUE \in BOOLEAN
      OBVIOUS
    <3> QED  BY <1>1, <2>1, <3>1, SettingFields, Zenon
  <2>5. ASSUME NEW on \in OutputPort
        PROVE  StatusExact([rx[c] EXCEPT !.rts = on])
    <3> DEFINE p == [rx[c] EXCEPT !.rts = on]
    <3>1. on \in BOOLEAN
      OBVIOUS
    <3>2. SameRing(p, rx[c]) /\ p.RxRDY = rx[c].RxRDY /\ p.FFULL = rx[c].FFULL
      BY <1>1, <3>1, RtsFields, Zenon
    <3> HIDE DEF p
    <3>3. StatusExact(p)
      BY <3>2, SameExact, Zenon
    <3> QED  BY <3>3 DEF p
  <2>6. StatusExact(FreshReceiver(rx[c].input))
    BY Zenon DEF FreshReceiver, StatusExact, FifoFull
  <2> QED  BY <1>4, <2>2, <2>3, <2>4, <2>5, <2>6, Zenon DEF ReceiverSet
<1>5. CASE ReceiverGets(c)
  <2> DEFINE q == GetInput(rx[c], taken + 1)
  <2>1. taken + 1 \in Char
    BY <1>1, <1>5, Characters DEF ReceiverGets
  <2>2. /\ q \in Receiver /\ SameRing(q, rx[c]) /\ SameFlags(q, rx[c])
        /\ q.occupied = rx[c].occupied
    BY <1>1, <2>1, InputFields, Zenon
  <2> HIDE DEF q
  <2>3. Shown(q) /\ StatusExact(q)
    BY <2>2, SameShown, SameExact, Zenon DEF Shown, SameFlags
  <2>4. StatusExact(ReceiveBit(q))
    BY <2>2, <2>3, BitExact, Zenon
  <2> QED  BY <1>5, <2>4, Zenon DEF ReceiverGets, q
<1>6. CASE ReceiverContinues(c)
  BY <1>1, <1>6, BitExact, Zenon DEF ReceiverContinues
<1> QED  BY <1>2, <1>3, <1>4, <1>5, <1>6, ReceiverSteps, Zenon

(* With MR1 written only while the FIFO is empty, and the RTS bits of the   *)
(* output port only set, every step keeps the flags right too.              *)
LEMMA RaisedKept ==
  ASSUME TypeOK, [Next]_vars, NEW c \in Channel, Shown(rx[c]), Raised(rx[c]),
         ModesFirst, OutputPort \subseteq {TRUE}
  PROVE  Raised(rx'[c])
<1>1. rx[c] \in Receiver /\ taken \in Nat /\ arrived \in 0..MaxChars
  BY DEF TypeOK
<1>2. CASE ReceiverRests(c)
  BY <1>2, Zenon DEF ReceiverRests
<1>3. CASE ReceiverRead(c)
  BY <1>1, <1>3, ReadShown, Zenon DEF ReceiverRead
<1>4. CASE ReceiverSet(c)
  <2>1. ASSUME NEW cmd \in Commands
        PROVE  Raised(SwitchReceiver(RxCommand(rx[c], cmd), cmd))
    <3>1. cmd \in Command
      OBVIOUS
    <3> QED  BY <1>1, <3>1, CommandShown, Zenon
  <2>2. ASSUME NEW m \in Modes1, rx[c].empty
        PROVE  Raised(SetMR1(rx[c], m))
    <3> DEFINE p == SetMR1(rx[c], m)
    <3>1. m \in Mode1
      OBVIOUS
    <3>2. p.empty = rx[c].empty
      BY <1>1, <3>1, ModeFields, Zenon DEF SameRing
    <3> HIDE DEF p
    <3> QED  BY <2>2, <3>2, Zenon DEF Raised, FifoFull, p
  <2>3. Raised([rx[c] EXCEPT !.mr = 1])
    <3> DEFINE p == [rx[c] EXCEPT !.mr = 1]
    <3>1. 1 \in {0, 1} /\ TRUE \in BOOLEAN
      OBVIOUS
    <3>2. /\ SameRing(p, rx[c]) /\ SameFlags(p, rx[c])
          /\ SameModes(p, rx[c]) /\ p.occupied = rx[c].occupied
      BY <1>1, <3>1, SettingFields, Zenon
    <3> HIDE DEF p
    <3>3. Raised(p)
      BY <3>2, SameShown, Zenon DEF Shown
    <3> QED  BY <3>3 DEF p
  <2>4. Raised([rx[c] EXCEPT !.rts = TRUE])
    <3> DEFINE p == [rx[c] EXCEPT !.rts = TRUE]
    <3>1. TRUE \in BOOLEAN
      OBVIOUS
    <3>2. /\ SameRing(p, rx[c]) /\ SameModes(p, rx[c])
          /\ p.isr = rx[c].isr /\ p.rts = TRUE
      BY <1>1, <3>1, RtsFields, Zenon
    <3> HIDE DEF p
    <3>3. FifoFull(p) <=> FifoFull(rx[c])
      BY <3>2, SameCells, Zenon
    <3> QED  BY <3>2, <3>3, Zenon DEF Raised, SameRing, SameModes, p
  <2>5. Raised(FreshReceiver(rx[c].input))
    BY <1>1, RxFields, FreshFields, EmptyShown, Zenon
  <2>6. \A on \in OutputPort : on = TRUE
    OBVIOUS
  <2> QED  BY <1>4, <2>1, <2>2, <2>3, <2>4, <2>5, <2>6, Zenon
           DEF ReceiverSet
<1>5. CASE ReceiverGets(c)
  <2> DEFINE q == GetInput(rx[c], taken + 1)
  <2>1. taken + 1 \in Char
    BY <1>1, <1>5, Characters DEF ReceiverGets
  <2>2. /\ q \in Receiver /\ SameRing(q, rx[c]) /\ SameFlags(q, rx[c])
        /\ SameModes(q, rx[c]) /\ q.occupied = rx[c].occupied
    BY <1>1, <2>1, InputFields, Zenon
  <2> HIDE DEF q
  <2>3. Shown(q) /\ Raised(q)
    BY <2>2, SameShown, Zenon DEF Shown
  <2>4. Raised(ReceiveBit(q))
    BY <2>2, <2>3, BitShown, Zenon
  <2> QED  BY <1>5, <2>4, Zenon DEF ReceiverGets, q
<1>6. CASE ReceiverContinues(c)
  BY <1>1, <1>6, BitShown, Zenon DEF ReceiverContinues
<1> QED  BY <1>2, <1>3, <1>4, <1>5, <1>6, ReceiverSteps, Zenon

(* The reset state shows an empty FIFO.                                     *)
LEMMA InitShown ==
  ASSUME Init, NEW c \in Channel
  PROVE  Shown(rx[c]) /\ Raised(rx[c])
<1>1. NoChar \in Char /\ rx[c] = FreshReceiver(NoChar)
  BY DEF Init, Char
<1> QED  BY <1>1, FreshFields, EmptyShown, Zenon

(* The status register never hides what the receiver holds, whatever the    *)
(* CPU does: modes changed over data, resets, commands in any order.        *)
(* (channel_push_fifo, channel_read, channel_reset_receiver)                *)
THEOREM StatusShown == Spec => []StatusShowsFifo
<1>1. StatusShowsFifo <=> \A c \in Channel : Shown(rx[c])
  BY Zenon DEF StatusShowsFifo, Shown
<1>2. Init => StatusShowsFifo
  BY <1>1, InitShown, Zenon
<1>3. TypeOK /\ StatusShowsFifo /\ [Next]_vars => StatusShowsFifo'
  <2>1. StatusShowsFifo' <=> \A c \in Channel : Shown(rx'[c])
    BY Zenon DEF StatusShowsFifo, Shown
  <2> QED  BY <1>1, <2>1, ShownKept, Zenon
<1> QED  BY <1>2, <1>3, TypeCorrect, PTL DEF Spec

(* RxRDY and FFULL never hide data or a full FIFO, and never claim more     *)
(* than there is until a command resets the receiver: that leaves them as   *)
(* they were, and a read of the FIFO puts them right.                       *)
(* (channel_push_fifo, channel_read, channel_reset_receiver)                *)
THEOREM StatusCorrect == Spec => []StatusShowsFifo /\ StatusKeptExact
<1> DEFINE Kept ==
      \A c \in Channel :
        /\ StatusExact(rx[c]) => StatusExact(rx'[c]) \/ ResetsReceiver(c)
        /\ ReadRHR(c) => StatusExact(rx'[c])
<1>1. TypeOK /\ StatusShowsFifo /\ [Next]_vars => Kept
  <2> SUFFICES ASSUME TypeOK, StatusShowsFifo, [Next]_vars, NEW c \in Channel
               PROVE  /\ StatusExact(rx[c]) => StatusExact(rx'[c]) \/ ResetsReceiver(c)
                      /\ ReadRHR(c) => StatusExact(rx'[c])
    BY Zenon
  <2>1. Shown(rx[c])
    BY Zenon DEF StatusShowsFifo, Shown
  <2>2. StatusExact(rx[c]) => StatusExact(rx'[c]) \/ ResetsReceiver(c)
    BY <2>1, ExactKept, Zenon
  <2>3. ASSUME ReadRHR(c) PROVE StatusExact(rx'[c])
    <3>1. rx \in [Channel -> Receiver] /\ rx' = [rx EXCEPT ![c] = ReadFifo(@)]
      BY <2>3, Zenon DEF TypeOK, ReadRHR
    <3>2. rx[c] \in Receiver /\ rx'[c] = ReadFifo(rx[c])
      BY <3>1, Zenon
    <3> QED  BY <2>1, <3>2, ReadExact, Zenon
  <2> QED  BY <2>2, <2>3
<1>2. Spec => [][Kept]_vars
  BY <1>1, TypeCorrect, StatusShown, PTL DEF Spec
<1> QED  BY <1>2, StatusShown, PTL DEF StatusKeptExact

(* The interrupt flag and RTS follow the FIFO as well, for a CPU that       *)
(* writes MR1 only while the receiver is disabled and its FIFO empty, and   *)
(* that does not clear RTS through the output port.  (channel_push_fifo,    *)
(* channel_read, set_output_port)                                           *)
THEOREM FlagsCorrect ==
  ASSUME ModesFirst, OutputPort \subseteq {TRUE}
  PROVE  Spec => []FlagsFollowFifo
<1> DEFINE Flags == \A c \in Channel : Shown(rx[c]) /\ Raised(rx[c])
<1>1. Init => Flags
  BY InitShown, Zenon
<1>2. TypeOK /\ Flags /\ [Next]_vars => Flags'
  <2> SUFFICES ASSUME TypeOK, Flags, [Next]_vars, NEW c \in Channel
               PROVE  Shown(rx'[c]) /\ Raised(rx'[c])
    BY Zenon
  <2> QED  BY ShownKept, RaisedKept, Zenon
<1>3. Flags => FlagsFollowFifo
  BY Zenon DEF FlagsFollowFifo, StatusShowsFifo, ReceiveInterruptRaised,
               RtsFollowsFull, Shown, Raised
<1> QED  BY <1>1, <1>2, <1>3, TypeCorrect, PTL DEF Spec

-----------------------------------------------------------------------------
(* The refinement of ReceiveQueue.                                          *)

(* Every step of a receiver is a step of its queue.                         *)
LEMMA QueueKept ==
  ASSUME TypeOK, [Next]_vars, NEW c \in Channel, Shown(rx[c])
  PROVE  QueueSteps(rx'[c], rx[c])
<1>1. rx[c] \in Receiver /\ taken \in Nat /\ arrived \in 0..MaxChars
  BY DEF TypeOK
<1>2. CASE ReceiverRests(c)
  BY <1>2, Zenon DEF ReceiverRests, QueueSteps, QueueSame
<1>3. CASE ReceiverRead(c)
  BY <1>1, <1>3, ReadQueue, Zenon DEF ReceiverRead
<1>4. CASE ReceiverSet(c)
  <2>1. ASSUME NEW cmd \in Commands
        PROVE  QueueSteps(SwitchReceiver(RxCommand(rx[c], cmd), cmd), rx[c])
    <3>1. cmd \in Command
      OBVIOUS
    <3> QED  BY <1>1, <3>1, CommandQueue, Zenon
  <2>2. ASSUME NEW p, SameRing(p, rx[c]), p.occupied = rx[c].occupied,
               p.overrun = rx[c].overrun
        PROVE  QueueSteps(p, rx[c])
    BY <2>2, SameCells, Zenon DEF QueueSteps, QueueSame
  <2>3. ASSUME NEW m \in Modes1
        PROVE  QueueSteps(SetMR1(rx[c], m), rx[c])
    <3>1. m \in Mode1
      OBVIOUS
    <3> QED  BY <1>1, <2>2, <3>1, ModeFields, Zenon
  <2>4. QueueSteps([rx[c] EXCEPT !.mr = 1], rx[c])
    <3>1. 1 \in {0, 1} /\ TRUE \in BOOLEAN
      OBVIOUS
    <3> QED  BY <1>1, <2>2, <3>1, SettingFields, Zenon
  <2>5. ASSUME NEW on \in OutputPort
        PROVE  QueueSteps([rx[c] EXCEPT !.rts = on], rx[c])
    <3>1. on \in BOOLEAN
      OBVIOUS
    <3> QED  BY <1>1, <2>2, <3>1, RtsFields, Zenon
  <2>6. QueueSteps(FreshReceiver(rx[c].input), rx[c])
    <3> DEFINE p == FreshReceiver(rx[c].input)
    <3>1. /\ p \in Receiver /\ p.empty = TRUE
          /\ p.occupied = FALSE /\ p.overrun = FALSE
      BY <1>1, RxFields, FreshFields, Zenon
    <3> HIDE DEF p
    <3>2. Contents(p) = <<>> /\ p.overrun \in {rx[c].overrun, FALSE}
      BY <3>1, EmptyContents
    <3> QED  BY <3>1, <3>2, Zenon DEF QueueSteps, QueueClears, p
  <2> QED  BY <1>4, <2>1, <2>3, <2>4, <2>5, <2>6, Zenon DEF ReceiverSet
<1>5. CASE ReceiverGets(c)
  <2> DEFINE q == GetInput(rx[c], taken + 1)  p == ReceiveBit(q)
  <2>1. taken + 1 \in Char
    BY <1>1, <1>5, Characters DEF ReceiverGets
  <2>2. /\ q \in Receiver /\ SameRing(q, rx[c]) /\ SameFlags(q, rx[c])
        /\ q.occupied = rx[c].occupied /\ q.overrun = rx[c].overrun
    BY <1>1, <2>1, InputFields, Zenon
  <2> HIDE DEF q
  <2>3. Shown(q)
    BY <2>2, SameShown, Zenon DEF Shown
  <2>4. QueueSteps(p, q)
    BY <2>2, <2>3, BitQueue, Zenon
  <2>5. Contents(q) = Contents(rx[c]) /\ FifoCount(q) = FifoCount(rx[c])
    BY <2>2, SameCells, Zenon
  <2> HIDE DEF p
  <2>6. QueueSteps(p, rx[c])
    BY <2>2, <2>4, <2>5, Zenon
       DEF QueueSteps, QueueSame, QueueArrives, QueueHolds, QueueOverruns,
           QueueRead, QueueClears, QueueForgets
  <2> QED  BY <1>5, <2>6, Zenon DEF ReceiverGets, p, q
<1>6. CASE ReceiverContinues(c)
  BY <1>1, <1>6, BitQueue, Zenon DEF ReceiverContinues
<1> QED  BY <1>2, <1>3, <1>4, <1>5, <1>6, ReceiverSteps, Zenon

(* The queue of a channel is what its FIFO holds.                           *)
LEMMA ReceivedContents ==
  ASSUME NEW c \in Channel
  PROVE  Received(c) = Contents(rx[c]) /\ Received(c)' = Contents(rx'[c])
BY DEF Received, FifoCell, Contents, CellOf

(* Appending a cell makes it enter, in the words of ReceiveQueue.           *)
LEMMA AppendEnters ==
  ASSUME NEW s \in Seq(Cell), NEW cell \in Cell, NEW t, t = Append(s, cell)
  PROVE  Len(t) = Len(s) + 1 /\ t = Append(s, t[Len(t)])
<1>1. Len(t) = Len(s) + 1 /\ t[Len(s) + 1] = cell
  BY AppendProperties
<1> QED  BY <1>1

(* The steps of QueueSteps are the actions of ReceiveQueue.                 *)
LEMMA QueueActions ==
  ASSUME NEW c \in Channel, rx[c] \in Receiver, rx'[c] \in Receiver,
         QueueSteps(rx'[c], rx[c])
  PROVE  [Queue(c)!Next]_(Queue(c)!vars)
<1> DEFINE q == Received(c)  r == rx[c]  p == rx'[c]
<1>1. /\ q = Contents(r) /\ q' = Contents(p)
      /\ q \in Seq(Cell) /\ Len(q) = FifoCount(r) /\ FifoCount(r) \in 0..3
  BY ReceivedContents, ContentsSeq, Count
<1>2. r.overrun \in BOOLEAN /\ r.occupied \in BOOLEAN
  BY RxFields
<1>3. CASE QueueSame(p, r)
  BY <1>1, <1>3 DEF QueueSame, Queue!vars
<1>4. CASE QueueArrives(p, r)
  <2>1. Len(q) < 3 /\ ~r.occupied /\ p.occupied = r.occupied
        /\ p.overrun = r.overrun
    BY <1>1, <1>4 DEF QueueArrives
  <2>2. Len(q') = Len(q) + 1 /\ q' = Append(q, q'[Len(q')])
    BY <1>1, <1>4, AppendEnters DEF QueueArrives
  <2>3. Queue(c)!Arrive
    BY <2>1, <2>2 DEF Queue!Arrive, Queue!Enters
  <2> QED  BY <2>3 DEF Queue!Next
<1>5. CASE QueueHolds(p, r)
  <2>1. Queue(c)!Hold
    BY <1>1, <1>5 DEF QueueHolds, Queue!Hold
  <2> QED  BY <2>1 DEF Queue!Next
<1>6. CASE QueueOverruns(p, r)
  <2>1. Queue(c)!Overrun
    BY <1>1, <1>6 DEF QueueOverruns, Queue!Overrun
  <2> QED  BY <2>1 DEF Queue!Next
<1>7. CASE QueueRead(p, r)
  <2>1. /\ q # <<>> /\ p.occupied = FALSE /\ p.overrun = r.overrun
    BY <1>1, <1>7 DEF QueueRead
  <2>2. CASE r.occupied
    <3>1. Tail(q) \in Seq(Cell)
      BY <1>1, <2>1, HeadTailProperties
    <3>2. /\ Len(q') = Len(Tail(q)) + 1
          /\ q' = Append(Tail(q), q'[Len(q')])
      BY <1>1, <1>7, <2>2, <3>1, AppendEnters DEF QueueRead
    <3>3. Queue(c)!Read
      BY <2>1, <2>2, <3>2 DEF Queue!Read, Queue!Enters
    <3> QED  BY <3>3 DEF Queue!Next
  <2>3. CASE ~r.occupied
    <3>1. q' = Tail(q)
      BY <1>1, <1>7, <2>3 DEF QueueRead
    <3>2. Queue(c)!Read
      BY <2>1, <2>3, <3>1 DEF Queue!Read
    <3> QED  BY <3>2 DEF Queue!Next
  <2> QED  BY <2>2, <2>3
<1>8. CASE QueueClears(p, r)
  <2>1. Queue(c)!Clear
    BY <1>1, <1>8 DEF QueueClears, Queue!Clear
  <2> QED  BY <2>1 DEF Queue!Next
<1>9. CASE QueueForgets(p, r)
  <2>1. Queue(c)!ForgetOverrun
    BY <1>1, <1>9 DEF QueueForgets, Queue!ForgetOverrun
  <2> QED  BY <2>1 DEF Queue!Next
<1> QED  BY <1>3, <1>4, <1>5, <1>6, <1>7, <1>8, <1>9, Zenon DEF QueueSteps

(* Each receiver implements a bounded queue with one place behind it, from  *)
(* any state the CPU can bring it to: no cell is dropped, duplicated or     *)
(* reordered, a full FIFO is never overwritten, and a read always frees the *)
(* shift register.  (channel_push_fifo, channel_read, receive_data)         *)
THEOREM QueueImplemented == Spec => ImplementsQueue
<1> DEFINE Starts == \A c \in Channel : Queue(c)!Init
           Steps == \A c \in Channel : [Queue(c)!Next]_(Queue(c)!vars)
<1>1. Init => Starts
  <2> SUFFICES ASSUME Init, NEW c \in Channel
               PROVE  Queue(c)!Init
    BY Zenon
  <2>1. NoChar \in Char /\ rx[c] = FreshReceiver(NoChar)
    BY DEF Init, Char
  <2>2. /\ rx[c] \in Receiver /\ rx[c].empty = TRUE
        /\ rx[c].occupied = FALSE /\ rx[c].overrun = FALSE
    <3>1. LET p == FreshReceiver(NoChar)
          IN  /\ p \in Receiver /\ p.empty = TRUE
              /\ p.occupied = FALSE /\ p.overrun = FALSE
      BY <2>1, FreshFields
    <3> QED  BY <2>1, <3>1, Zenon
  <2>3. Received(c) = <<>>
    BY <2>2, ReceivedContents, EmptyContents, Zenon
  <2> QED  BY <2>2, <2>3, Zenon DEF Queue!Init
<1>2. TypeOK /\ TypeOK' /\ StatusShowsFifo /\ [Next]_vars => Steps
  <2> SUFFICES ASSUME TypeOK, TypeOK', StatusShowsFifo, [Next]_vars,
                      NEW c \in Channel
               PROVE  [Queue(c)!Next]_(Queue(c)!vars)
    BY Zenon
  <2>1. rx[c] \in Receiver /\ rx'[c] \in Receiver
    BY DEF TypeOK
  <2>2. Shown(rx[c])
    BY Zenon DEF StatusShowsFifo, Shown
  <2> QED  BY <2>1, <2>2, QueueKept, QueueActions, Zenon
<1>3. Spec => [][Steps]_vars
  BY <1>2, TypeCorrect, StatusShown, PTL DEF Spec
<1> QED  BY <1>1, <1>3, PTL DEF Spec, ImplementsQueue

-----------------------------------------------------------------------------
(* The transmitter.                                                         *)

(* The handshake of one transmitter                                         *)
HandshakeOK(t) ==
  /\ t.enabled => (t.TxRDY <=> ~t.THR_set)
  /\ t.isr <=> t.TxRDY
  /\ t.THR_set => ~t.TxEMT

(* Every step of a transmitter keeps its handshake.                         *)
LEMMA HandshakeKept ==
  ASSUME TypeOK, [Next]_vars, NEW c \in Channel, HandshakeOK(tx[c])
  PROVE  HandshakeOK(tx'[c])
<1> DEFINE t == tx[c]
<1>1. /\ t \in Transmitter /\ written[c] \in 0..MaxChars /\ rx[c] \in Receiver
      /\ t.enabled \in BOOLEAN /\ t.THR_set \in BOOLEAN
      /\ t.TxRDY \in BOOLEAN /\ t.TxEMT \in BOOLEAN /\ t.isr \in BOOLEAN
  <2>1. t \in Transmitter /\ written[c] \in 0..MaxChars /\ rx[c] \in Receiver
    BY DEF TypeOK
  <2> QED  BY <2>1, TxFields
<1>2. CASE TransmitterRests(c)
  BY <1>2, Zenon DEF TransmitterRests
<1>3. CASE TransmitterAccepts(c)
  <2> DEFINE p == WriteTHR(t, written[c] + 1)
  <2>1. written[c] + 1 \in Char
    BY <1>1, <1>3, Characters DEF TransmitterAccepts
  <2>2. /\ p.enabled = t.enabled /\ p.THR_set = TRUE /\ p.TxEMT = FALSE
        /\ p.TxRDY = FALSE /\ p.isr = FALSE
    BY <1>1, <1>3, <2>1, WriteFields, Zenon DEF TransmitterAccepts
  <2> HIDE DEF p
  <2>3. HandshakeOK(p)
    BY <2>2, Zenon DEF HandshakeOK
  <2> QED  BY <1>3, <2>3, Zenon DEF TransmitterAccepts, p
<1>4. CASE TransmitterSet(c)
  <2>1. HandshakeOK(ResetTransmitter(t))
    <3> DEFINE p == ResetTransmitter(t)
    <3>1. /\ p.enabled = FALSE /\ p.THR_set = FALSE
          /\ p.TxRDY = t.TxRDY /\ p.isr = t.isr
      BY <1>1, ResetTxFields, Zenon
    <3> HIDE DEF p
    <3> QED  BY <3>1, Zenon DEF HandshakeOK, p
  <2>2. HandshakeOK(EnableTransmitter(t))
    <3> DEFINE p == EnableTransmitter(t)
    <3>1. /\ p.enabled = TRUE /\ p.THR_set = FALSE
          /\ p.TxRDY = TRUE /\ p.isr = TRUE
      BY <1>1, EnableFields, Zenon
    <3> HIDE DEF p
    <3> QED  BY <3>1, Zenon DEF HandshakeOK, p
  <2>3. HandshakeOK(DisableTransmitter(t))
    <3> DEFINE p == DisableTransmitter(t)
    <3>1. /\ p.enabled = FALSE /\ p.TxEMT = FALSE
          /\ p.TxRDY = FALSE /\ p.isr = FALSE
      BY <1>1, DisableFields, Zenon
    <3> HIDE DEF p
    <3> QED  BY <3>1, Zenon DEF HandshakeOK, p
  <2>4. ASSUME NEW cmd \in Commands
        PROVE  HandshakeOK(SwitchTransmitter(TxCommand(t, cmd), cmd))
    <3>1. cmd \in Command
      OBVIOUS
    <3> QED  BY <1>1, <2>1, <2>2, <2>3, <3>1, TxCommandOutcomes, Zenon
  <2>5. ASSUME NEW cts \in Modes2
        PROVE  HandshakeOK([t EXCEPT !.cts = cts])
    <3> DEFINE p == [t EXCEPT !.cts = cts]
    <3>1. cts \in BOOLEAN
      OBVIOUS
    <3>2. /\ p.enabled = t.enabled /\ p.THR_set = t.THR_set
          /\ p.TxEMT = t.TxEMT /\ p.TxRDY = t.TxRDY /\ p.isr = t.isr
      BY <1>1, <3>1, CtsFields
    <3> HIDE DEF p
    <3> QED  BY <3>2, Zenon DEF HandshakeOK, p
  <2>6. HandshakeOK(FreshTransmitter)
    BY FreshTxFields, Zenon DEF HandshakeOK
  <2> QED  BY <1>4, <2>4, <2>5, <2>6, Zenon DEF TransmitterSet
<1>5. CASE TransmitterShifts(c)
  <2> DEFINE size == rx[c].size
             q == LoadTSR(t, size)
             p == TransmitBit(t, size)
  <2>1. size \in Sizes
    BY <1>1, RxFields, Zenon
  <2>2. /\ q \in Transmitter /\ q.enabled = t.enabled /\ q.TxEMT = t.TxEMT
        /\ \/ q.THR_set = FALSE /\ q.TxRDY = TRUE /\ q.isr = TRUE
           \/ q = t
    BY <1>1, <2>1, LoadFields, Zenon
  <2>3. /\ p.enabled = t.enabled
        /\ p.THR_set = q.THR_set /\ p.TxRDY = q.TxRDY /\ p.isr = q.isr
        /\ \/ p = q
           \/ p.TxEMT = q.TxEMT
           \/ p.TxEMT = (q.TxEMT \/ ~q.THR_set)
    BY <1>1, <2>1, TransmitOutcomes, Zenon
  <2> HIDE DEF p, q
  <2>4. HandshakeOK(q)
    BY <2>2, Zenon DEF HandshakeOK
  <2>5. HandshakeOK(p)
    BY <2>2, <2>3, <2>4, Zenon DEF HandshakeOK
  <2> QED  BY <1>5, <2>5, Zenon DEF TransmitterShifts, p
<1> QED  BY <1>2, <1>3, <1>4, <1>5, TransmitterSteps, Zenon

(* The handshake between the CPU and a transmitter survives every order of  *)
(* writes, commands, resets and bit times: TxRDY is up exactly when THR is  *)
(* free, and the interrupt with it.  (channel_transmit_ready,               *)
(* channel_transmit_not_ready, transmit_data)                               *)
THEOREM HandshakeCorrect == Spec => []TransmitHandshake
<1>1. TransmitHandshake <=> \A c \in Channel : HandshakeOK(tx[c])
  BY Zenon DEF TransmitHandshake, HandshakeOK
<1>2. TransmitHandshake' <=> \A c \in Channel : HandshakeOK(tx'[c])
  BY Zenon DEF TransmitHandshake, HandshakeOK
<1>3. Init => TransmitHandshake
  <2> SUFFICES ASSUME Init, NEW c \in Channel
               PROVE  HandshakeOK(tx[c])
    BY <1>1, Zenon
  <2>1. tx[c] = FreshTransmitter
    BY DEF Init
  <2> QED  BY <2>1, FreshTxFields, Zenon DEF HandshakeOK
<1>4. TypeOK /\ TransmitHandshake /\ [Next]_vars => TransmitHandshake'
  BY <1>1, <1>2, HandshakeKept, Zenon
<1> QED  BY <1>3, <1>4, TypeCorrect, PTL DEF Spec

(* The order of what a transmitter has sent, is sending and has waiting.    *)
InOrderOut(t, s, w) ==
  /\ s <= w
  /\ t.bits > 0 => s < t.tsr[1] /\ t.tsr[1] <= w
  /\ t.THR_set => s < t.THR /\ t.THR <= w
  /\ t.THR_set /\ t.bits > 0 => t.tsr[1] < t.THR

(* transmit_data loads the shift register whenever it is empty and TxEMT is *)
(* down, without a look at THR_set.  It loads no character twice because    *)
(* while the transmitter is enabled, or its loop runs, THR then is set.     *)
LoadsOnlyTHR(c) ==
  (tx[c].enabled \/ (phase = "tx" /\ cur = c))
    => (tx[c].bits = 0 /\ ~tx[c].TxEMT => tx[c].THR_set)

(* A poll enters the loop of a transmitter only with something to do in it. *)
LEMMA LoopEntered ==
  ASSUME TypeOK, [Next]_vars, NEW c \in Channel, phase' = "tx", cur' = c
  PROVE  \/ phase = "tx" /\ cur = c
         \/ tx' = tx /\ (tx[c].enabled \/ tx[c].bits # 0)
<1> USE DEF LineUnchanged, CpuUnchanged, TimeUnchanged
<1>1. CASE Cpu
  BY <1>1 DEF Cpu, Idle, ReadRHR, CpuWritesTHR, WriteCR, WriteMR1, WriteMR2,
              ReadMR, WriteCSR, WriteOutputPort, WriteIMR, ResetSerial
<1>2. FinishChannel => phase' # "tx"
  BY DEF FinishChannel
<1>3. CASE Poll
  BY <1>2, <1>3 DEF Poll, PollSerial, ReceiveStep, ReceiveDone, TransmitStep,
                    TransmitDone, EntersTransmit
<1>4. CASE PeerWrites \/ UNCHANGED vars
  BY <1>4 DEF PeerWrites, vars
<1> QED  BY <1>1, <1>3, <1>4 DEF Next

(* What a bit time makes of the order, from a state where only THR is       *)
(* loaded                                                                   *)
LEMMA ShiftedInOrder ==
  ASSUME NEW t \in Transmitter, NEW size \in Sizes,
         NEW s \in Nat, NEW w \in Nat, InOrderOut(t, s, w),
         t.bits = 0 /\ ~t.TxEMT => t.THR_set
  PROVE  LET p == TransmitBit(t, size)
             n == IF EndsOutput(t, size) THEN OutputCell(t, size)[1] ELSE s
         IN  InOrderOut(p, n, w) /\ (p.bits = 0 /\ ~p.TxEMT => p.THR_set)
<1> DEFINE q == LoadTSR(t, size)
           p == TransmitBit(t, size)
           e == EndsOutput(t, size)
           n == IF e THEN OutputCell(t, size)[1] ELSE s
<1>1. /\ q \in Transmitter /\ q.THR = t.THR /\ q.TxEMT = t.TxEMT
      /\ \/ /\ ~t.TxEMT /\ t.bits = 0
            /\ q.tsr = <<t.THR, size>> /\ q.bits = size /\ q.THR_set = FALSE
         \/ (t.TxEMT \/ t.bits # 0) /\ q = t
  BY LoadFields, Zenon
<1>2. /\ p \in Transmitter /\ e \in BOOLEAN
      /\ p.THR = t.THR /\ p.THR_set = q.THR_set /\ p.tsr = q.tsr
      /\ \/ p = q /\ ~e
         \/ q.bits > 1 /\ ~e /\ p.bits = q.bits - 1 /\ p.TxEMT = q.TxEMT
         \/ q.bits = 1 /\ e /\ p.bits = 0 /\ p.TxEMT = (q.TxEMT \/ ~q.THR_set)
  BY TransmitOutcomes, Zenon
<1>3. n = IF e THEN q.tsr[1] ELSE s
  BY DEF OutputCell
<1>4. /\ t.bits \in Nat /\ q.bits \in Nat /\ size > 0
      /\ t.THR \in Nat /\ q.tsr[1] \in Nat
  <2>1. /\ t.bits \in Nat /\ q.bits \in Nat
        /\ t.THR \in Char /\ q.tsr \in Cell
    BY <1>1, TxFields, Zenon
  <2> HIDE DEF q
  <2>2. size > 0
    OBVIOUS
  <2> QED  BY <2>1, <2>2, Characters DEF Cell
<1> HIDE DEF p, q, e, n
<1>5. InOrderOut(q, s, w) /\ (q.bits = 0 /\ ~q.TxEMT => q.THR_set)
  <2>1. CASE /\ ~t.TxEMT /\ t.bits = 0
             /\ q.tsr = <<t.THR, size>> /\ q.bits = size /\ q.THR_set = FALSE
    <3>1. s < t.THR /\ t.THR <= w
      BY <2>1 DEF InOrderOut
    <3>2. q.tsr[1] = t.THR /\ q.bits # 0
      BY <1>4, <2>1
    <3> QED  BY <2>1, <3>1, <3>2 DEF InOrderOut
  <2>2. CASE q = t
    BY <2>2
  <2> QED  BY <1>1, <2>1, <2>2, Zenon
<1>6. CASE p = q /\ ~e
  BY <1>3, <1>5, <1>6, Zenon DEF p, q, e, n
<1>7. CASE q.bits > 1 /\ ~e /\ p.bits = q.bits - 1 /\ p.TxEMT = q.TxEMT
  <2>1. n = s /\ q.bits > 0 /\ p.bits > 0
    BY <1>3, <1>4, <1>7
  <2>2. InOrderOut(p, n, w)
    BY <1>1, <1>2, <1>5, <2>1, Zenon DEF InOrderOut
  <2>3. p.bits # 0
    BY <1>4, <1>7
  <2> QED  BY <2>2, <2>3, Zenon DEF p, e, n
<1>8. CASE /\ q.bits = 1 /\ e
           /\ p.bits = 0 /\ p.TxEMT = (q.TxEMT \/ ~q.THR_set)
  <2>1. n = q.tsr[1] /\ ~(p.bits > 0) /\ q.bits > 0
    BY <1>3, <1>8
  <2>2. p.THR_set => n < p.THR /\ p.THR <= w
    BY <1>1, <1>2, <1>5, <2>1, Zenon DEF InOrderOut
  <2>3. n <= w
    BY <1>5, <2>1 DEF InOrderOut
  <2>4. InOrderOut(p, n, w)
    BY <2>1, <2>2, <2>3, Zenon DEF InOrderOut
  <2>5. ~p.TxEMT => p.THR_set
    BY <1>2, <1>8, Zenon
  <2> QED  BY <2>4, <2>5, Zenon DEF p, e, n
<1> QED  BY <1>2, <1>6, <1>7, <1>8, Zenon

(* Every step keeps the order out, and loads nothing but THR.               *)
LEMMA OrderOutKept ==
  ASSUME TypeOK, [Next]_vars, NEW c \in Channel,
         InOrderOut(tx[c], sent[c], written[c]), LoadsOnlyTHR(c)
  PROVE  InOrderOut(tx'[c], sent'[c], written'[c]) /\ LoadsOnlyTHR(c)'
<1> DEFINE t == tx[c]  s == sent[c]  w == written[c]
<1>1. /\ t \in Transmitter /\ rx[c] \in Receiver
      /\ s \in Nat /\ w \in Nat /\ w \in 0..MaxChars /\ t.bits \in Nat
      /\ (t.bits > 0 <=> t.bits # 0)
  <2>1. t \in Transmitter /\ rx[c] \in Receiver /\ s \in Nat /\ w \in Nat
        /\ w \in 0..MaxChars
    BY DEF TypeOK
  <2> QED  BY <2>1, TxFields
<1>2. CASE TransmitterRests(c)
  <2>1. tx'[c] = t /\ sent'[c] = s /\ written'[c] = w
    BY <1>2 DEF TransmitterRests
  <2>2. LoadsOnlyTHR(c)'
    <3>1. phase' = "tx" /\ cur' = c =>
            (phase = "tx" /\ cur = c) \/ t.enabled \/ t.bits # 0
      BY LoopEntered, Zenon
    <3> QED  BY <2>1, <3>1, Zenon DEF LoadsOnlyTHR
  <2> QED  BY <2>1, <2>2, Zenon
<1>3. CASE TransmitterAccepts(c)
  <2> DEFINE p == WriteTHR(t, w + 1)
  <2>1. w + 1 \in Char /\ w + 1 \in Nat
    BY <1>1, <1>3, Characters DEF TransmitterAccepts
  <2>2. /\ p.tsr = t.tsr /\ p.bits = t.bits
        /\ p.THR = w + 1 /\ p.THR_set = TRUE
    <3>1. Accepts(t)
      BY <1>3, Zenon DEF TransmitterAccepts
    <3> DEFINE ch == w + 1
    <3> HIDE DEF ch
    <3>2. ch \in Char
      BY <2>1 DEF ch
    <3>3. /\ WriteTHR(t, ch).tsr = t.tsr /\ WriteTHR(t, ch).bits = t.bits
          /\ WriteTHR(t, ch).THR = ch /\ WriteTHR(t, ch).THR_set = TRUE
      BY <1>1, <3>1, <3>2, WriteFields, ZenonT(60)
    <3> QED  BY <3>3 DEF ch
  <2>3. tx'[c] = p /\ sent'[c] = s /\ written'[c] = w + 1
    BY <1>3 DEF TransmitterAccepts
  <2> HIDE DEF p
  <2>4. t.bits > 0 => t.tsr[1] < w + 1 /\ t.tsr[1] <= w + 1 /\ s < t.tsr[1]
    <3>1. t.tsr[1] \in Nat
      BY <1>1, TxFields, Characters DEF Cell
    <3> QED  BY <1>1, <3>1 DEF InOrderOut
  <2>5. s <= w + 1 /\ s < w + 1 /\ w + 1 <= w + 1
    BY <1>1 DEF InOrderOut
  <2>6. InOrderOut(p, s, w + 1)
    BY <2>2, <2>4, <2>5, Zenon DEF InOrderOut
  <2>7. LoadsOnlyTHR(c)'
    BY <2>2, <2>3, Zenon DEF LoadsOnlyTHR
  <2> QED  BY <2>3, <2>6, <2>7, Zenon
<1>4. CASE TransmitterSet(c)
  <2> DEFINE OK(p) == InOrderOut(p, s, w)
                      /\ (p.enabled => (p.bits = 0 /\ ~p.TxEMT => p.THR_set))
  <2>1. OK(t)
    BY Zenon DEF LoadsOnlyTHR
  <2>2. OK(ResetTransmitter(t))
    <3> DEFINE p == ResetTransmitter(t)
    <3>1. p.enabled = FALSE /\ p.bits = 0 /\ p.THR_set = FALSE
      BY <1>1, ResetTxFields, Zenon
    <3> HIDE DEF p
    <3>2. ~(p.bits > 0) /\ s <= w
      BY <3>1 DEF InOrderOut
    <3>3. InOrderOut(p, s, w)
      BY <3>1, <3>2, Zenon DEF InOrderOut
    <3> QED  BY <3>1, <3>3, Zenon DEF p
  <2>3. OK(EnableTransmitter(t))
    <3> DEFINE p == EnableTransmitter(t)
    <3>1. /\ p.tsr = t.tsr /\ p.bits = t.bits
          /\ p.THR_set = FALSE /\ p.TxEMT = TRUE
      BY <1>1, EnableFields, Zenon
    <3> HIDE DEF p
    <3>2. InOrderOut(p, s, w)
      BY <3>1, Zenon DEF InOrderOut
    <3> QED  BY <3>1, <3>2, Zenon DEF p
  <2>4. OK(DisableTransmitter(t))
    <3> DEFINE p == DisableTransmitter(t)
    <3>1. /\ p.enabled = FALSE /\ p.tsr = t.tsr /\ p.bits = t.bits
          /\ p.THR_set = t.THR_set /\ p.THR = t.THR
      BY <1>1, DisableFields, Zenon
    <3> HIDE DEF p
    <3>2. InOrderOut(p, s, w)
      BY <3>1, Zenon DEF InOrderOut
    <3> QED  BY <3>1, <3>2, Zenon DEF p
  <2>5. ASSUME NEW cmd \in Commands
        PROVE  OK(SwitchTransmitter(TxCommand(t, cmd), cmd))
    <3>1. cmd \in Command
      OBVIOUS
    <3> HIDE DEF OK
    <3> QED  BY <1>1, <2>1, <2>2, <2>3, <2>4, <3>1, TxCommandOutcomes, Zenon
  <2>6. ASSUME NEW cts \in Modes2
        PROVE  OK([t EXCEPT !.cts = cts])
    <3> DEFINE p == [t EXCEPT !.cts = cts]
    <3>1. cts \in BOOLEAN
      OBVIOUS
    <3>2. /\ p.enabled = t.enabled /\ p.tsr = t.tsr /\ p.bits = t.bits
          /\ p.THR_set = t.THR_set /\ p.THR = t.THR /\ p.TxEMT = t.TxEMT
      BY <1>1, <3>1, CtsFields
    <3> HIDE DEF p
    <3>3. InOrderOut(p, s, w)
      BY <3>2, Zenon DEF InOrderOut
    <3> QED  BY <2>1, <3>2, <3>3, Zenon DEF p
  <2>7. OK(FreshTransmitter)
    <3>1. ~(FreshTransmitter.bits > 0) /\ s <= w
      BY FreshTxFields DEF InOrderOut
    <3> QED  BY <3>1, FreshTxFields, Zenon DEF InOrderOut
  <2> HIDE DEF OK
  <2>8. OK(tx'[c])
    BY <1>4, <2>5, <2>6, <2>7, Zenon DEF TransmitterSet
  <2>9. phase' # "tx"
    BY <1>4 DEF TransmitterSet
  <2> QED  BY <1>4, <2>8, <2>9, Zenon
           DEF OK, TransmitterSet, LoadsOnlyTHR
<1>5. CASE TransmitterShifts(c)
  <2> DEFINE size == rx[c].size
             p == TransmitBit(t, size)
             n == IF EndsOutput(t, size) THEN OutputCell(t, size)[1] ELSE s
  <2>1. size \in Sizes
    BY <1>1, RxFields, Zenon
  <2>2. t.bits = 0 /\ ~t.TxEMT => t.THR_set
    BY <1>5, Zenon DEF LoadsOnlyTHR, TransmitterShifts
  <2>3. InOrderOut(p, n, w) /\ (p.bits = 0 /\ ~p.TxEMT => p.THR_set)
    BY <1>1, <2>1, <2>2, ShiftedInOrder
  <2> HIDE DEF p, n
  <2>4. tx'[c] = p /\ sent'[c] = n /\ written'[c] = w
    BY <1>5, Zenon DEF TransmitterShifts, p, n
  <2> QED  BY <2>3, <2>4, Zenon DEF LoadsOnlyTHR
<1> QED  BY <1>2, <1>3, <1>4, <1>5, TransmitterSteps, Zenon

(* Both, for every channel                                                  *)
SendInv == \A c \in Channel :
             InOrderOut(tx[c], sent[c], written[c]) /\ LoadsOnlyTHR(c)

(* The inductive invariant behind the order of what is sent                 *)
LEMMA SendInvariant == Spec => []SendInv
<1>1. Init => SendInv
  <2> SUFFICES ASSUME Init, NEW c \in Channel
               PROVE  InOrderOut(tx[c], sent[c], written[c]) /\ LoadsOnlyTHR(c)
    BY Zenon DEF SendInv
  <2>1. tx[c] = FreshTransmitter /\ sent[c] = 0 /\ written[c] = 0
        /\ phase # "tx"
    BY DEF Init
  <2>2. ~(FreshTransmitter.bits > 0) /\ 0 <= 0
    BY FreshTxFields
  <2> QED  BY <2>1, <2>2, FreshTxFields, Zenon DEF InOrderOut, LoadsOnlyTHR
<1>2. TypeOK /\ SendInv /\ [Next]_vars => SendInv'
  BY OrderOutKept, Zenon DEF SendInv
<1> QED  BY <1>1, <1>2, TypeCorrect, PTL DEF Spec

(* No character is sent twice or out of order, for any order of writes,     *)
(* commands, resets and bit times, in any mode.  (channel_write,            *)
(* transmit_data)                                                           *)
THEOREM SentOrderCorrect == Spec => []SentInOrder
<1>1. TypeOK /\ SendInv => SentInOrder
  <2> SUFFICES ASSUME TypeOK, SendInv, NEW c \in Channel
               PROVE  /\ tx[c].bits > 0 => tx[c].tsr[1] > sent[c]
                      /\ tx[c].THR_set => tx[c].THR > sent[c]
                      /\ tx[c].THR_set /\ tx[c].bits > 0
                           => tx[c].THR > tx[c].tsr[1]
    BY Zenon DEF SentInOrder
  <2>1. InOrderOut(tx[c], sent[c], written[c])
    BY Zenon DEF SendInv
  <2> QED  BY <2>1 DEF InOrderOut
<1> QED  BY <1>1, TypeCorrect, SendInvariant, PTL

(* Nothing disturbs a transmitter once it is enabled: the machine is not    *)
(* reset, no command disables or resets it.                                 *)
LeftAlone ==
  /\ ~Resets
  /\ \A cmd \in Commands :
       ~cmd.txOff /\ (cmd.op = "resetTransmitter" => cmd.txOn)

(* Where the characters accepted are: sent, in the shift register, or in    *)
(* THR.  Nothing is in a transmitter that was never enabled, and it accepts *)
(* nothing.                                                                 *)
AllKept(t, s, w) ==
  /\ w = s + (IF t.bits > 0 THEN 1 ELSE 0) + (IF t.THR_set THEN 1 ELSE 0)
  /\ t.bits > 0 => t.tsr[1] = s + 1
  /\ t.THR_set => t.THR = w
  /\ ~t.enabled => ~t.THR_set /\ ~t.TxRDY /\ t.bits = 0

(* A bit time keeps account of every character.                             *)
LEMMA ShiftedKept ==
  ASSUME NEW t \in Transmitter, NEW size \in Sizes,
         NEW s \in Nat, NEW w \in Nat, AllKept(t, s, w),
         t.bits = 0 /\ ~t.TxEMT => t.THR_set
  PROVE  LET p == TransmitBit(t, size)
             n == IF EndsOutput(t, size) THEN OutputCell(t, size)[1] ELSE s
         IN  AllKept(p, n, w)
<1> DEFINE q == LoadTSR(t, size)
           p == TransmitBit(t, size)
           e == EndsOutput(t, size)
           n == IF e THEN OutputCell(t, size)[1] ELSE s
<1>1. /\ q \in Transmitter /\ q.THR = t.THR /\ q.TxEMT = t.TxEMT
      /\ q.enabled = t.enabled
      /\ \/ /\ ~t.TxEMT /\ t.bits = 0
            /\ q.tsr = <<t.THR, size>> /\ q.bits = size /\ q.THR_set = FALSE
         \/ (t.TxEMT \/ t.bits # 0) /\ q = t
  BY LoadFields, Zenon
<1>2. /\ p \in Transmitter /\ e \in BOOLEAN /\ p.enabled = t.enabled
      /\ p.THR = t.THR /\ p.THR_set = q.THR_set /\ p.tsr = q.tsr
      /\ p.TxRDY = q.TxRDY
      /\ \/ p = q /\ ~e
         \/ q.bits > 1 /\ ~e /\ p.bits = q.bits - 1
         \/ q.bits = 1 /\ e /\ p.bits = 0
  BY TransmitOutcomes, Zenon
<1>3. n = IF e THEN q.tsr[1] ELSE s
  BY DEF OutputCell
<1>4. t.bits \in Nat /\ q.bits \in Nat /\ size > 0
  <2>1. t.bits \in Nat /\ q.bits \in Nat
    BY <1>1, TxFields, Zenon
  <2>2. size > 0
    OBVIOUS
  <2> QED  BY <2>1, <2>2
<1> HIDE DEF p, q, e, n
<1>5. AllKept(q, s, w)
  <2>1. CASE /\ ~t.TxEMT /\ t.bits = 0
             /\ q.tsr = <<t.THR, size>> /\ q.bits = size /\ q.THR_set = FALSE
    <3>1. t.THR_set /\ t.enabled
      BY <2>1, Zenon DEF AllKept
    <3>2. w = s + 1 /\ t.THR = w
      BY <2>1, <3>1 DEF AllKept
    <3>3. q.tsr[1] = s + 1 /\ q.bits > 0 /\ q.enabled
      BY <1>1, <1>4, <2>1, <3>1, <3>2
    <3> QED  BY <2>1, <3>2, <3>3 DEF AllKept
  <2>2. CASE q = t
    BY <2>2
  <2> QED  BY <1>1, <2>1, <2>2, Zenon
<1>6. CASE p = q /\ ~e
  BY <1>3, <1>5, <1>6, Zenon DEF p, q, e, n
<1>7. CASE q.bits > 1 /\ ~e /\ p.bits = q.bits - 1
  <2>1. n = s /\ q.bits > 0 /\ p.bits > 0 /\ q.bits # 0
    BY <1>3, <1>4, <1>7
  <2>2. q.enabled /\ p.enabled
    BY <1>1, <1>2, <1>5, <2>1, Zenon DEF AllKept
  <2>3. w = s + 1 + (IF p.THR_set THEN 1 ELSE 0)
    BY <1>2, <1>5, <2>1 DEF AllKept
  <2>4. p.tsr[1] = s + 1 /\ (p.THR_set => p.THR = w)
    BY <1>1, <1>2, <1>5, <2>1 DEF AllKept
  <2>5. AllKept(p, n, w)
    BY <2>1, <2>2, <2>3, <2>4 DEF AllKept
  <2> QED  BY <2>5, Zenon DEF p, e, n
<1>8. CASE q.bits = 1 /\ e /\ p.bits = 0
  <2>1. q.tsr[1] = s + 1 /\ w = s + 1 + (IF q.THR_set THEN 1 ELSE 0)
    BY <1>5, <1>8 DEF AllKept
  <2>2. n = s + 1
    BY <1>3, <1>8, <2>1
  <2>3. p.THR_set => p.THR = w
    BY <1>1, <1>2, <1>5, Zenon DEF AllKept
  <2>4. p.enabled
    BY <1>1, <1>2, <1>5, <1>8 DEF AllKept
  <2>5. w = n + (IF p.THR_set THEN 1 ELSE 0)
    BY <1>2, <2>1, <2>2
  <2>6. AllKept(p, n, w)
    BY <1>8, <2>2, <2>3, <2>4, <2>5 DEF AllKept
  <2> QED  BY <2>6, Zenon DEF p, e, n
<1> QED  BY <1>2, <1>6, <1>7, <1>8, Zenon

(* Every step keeps account of every character.                             *)
LEMMA AllKeptKept ==
  ASSUME TypeOK, [Next]_vars, LeftAlone, NEW c \in Channel,
         HandshakeOK(tx[c]), LoadsOnlyTHR(c),
         AllKept(tx[c], sent[c], written[c])
  PROVE  AllKept(tx'[c], sent'[c], written'[c])
<1> DEFINE t == tx[c]  s == sent[c]  w == written[c]
<1>1. /\ t \in Transmitter /\ rx[c] \in Receiver
      /\ s \in Nat /\ w \in Nat /\ w \in 0..MaxChars
  BY DEF TypeOK
<1>2. CASE TransmitterRests(c)
  BY <1>2, Zenon DEF TransmitterRests
<1>3. CASE TransmitterAccepts(c)
  <2> DEFINE p == WriteTHR(t, w + 1)
  <2>1. w + 1 \in Char
    BY <1>1, <1>3, Characters DEF TransmitterAccepts
  <2>2. /\ p.enabled = t.enabled /\ p.tsr = t.tsr /\ p.bits = t.bits
        /\ p.THR = w + 1 /\ p.THR_set = TRUE
    <3>1. Accepts(t)
      BY <1>3, Zenon DEF TransmitterAccepts
    <3> DEFINE ch == w + 1
    <3> HIDE DEF ch
    <3>2. ch \in Char
      BY <2>1 DEF ch
    <3>3. /\ WriteTHR(t, ch).enabled = t.enabled
          /\ WriteTHR(t, ch).tsr = t.tsr /\ WriteTHR(t, ch).bits = t.bits
          /\ WriteTHR(t, ch).THR = ch /\ WriteTHR(t, ch).THR_set = TRUE
      BY <1>1, <3>1, <3>2, WriteFields, ZenonT(60)
    <3> QED  BY <3>3 DEF ch
  <2>3. t.enabled /\ ~t.THR_set
    BY <1>3, Zenon DEF TransmitterAccepts, Accepts, AllKept, HandshakeOK
  <2> HIDE DEF p
  <2>4. w + 1 = s + (IF p.bits > 0 THEN 1 ELSE 0) + 1
    BY <1>1, <2>2, <2>3 DEF AllKept
  <2>5. AllKept(p, s, w + 1)
    BY <2>2, <2>3, <2>4 DEF AllKept
  <2> QED  BY <1>3, <2>5, Zenon DEF TransmitterAccepts, p
<1>4. CASE TransmitterSet(c)
  <2>1. ASSUME ~t.enabled
        PROVE  AllKept(EnableTransmitter(t), s, w)
    <3> DEFINE p == EnableTransmitter(t)
    <3>1. p.enabled = TRUE /\ p.bits = t.bits /\ p.THR_set = FALSE
      BY <1>1, EnableFields, Zenon
    <3> HIDE DEF p
    <3>2. t.bits = 0 /\ ~t.THR_set
      BY <2>1, Zenon DEF AllKept
    <3>3. w = s
      BY <1>1, <3>2 DEF AllKept
    <3>4. AllKept(p, s, w)
      BY <1>1, <3>1, <3>2, <3>3 DEF AllKept
    <3> QED  BY <3>4 DEF p
  <2>2. ASSUME NEW cmd \in Commands
        PROVE  AllKept(SwitchTransmitter(TxCommand(t, cmd), cmd), s, w)
    <3>1. /\ cmd \in Command /\ ~cmd.txOff
          /\ ~(cmd.op = "resetTransmitter" /\ ~cmd.txOn)
      BY DEF LeftAlone
    <3> QED  BY <1>1, <2>1, <3>1, TxCommandOutcomes, Zenon
  <2>3. ASSUME NEW cts \in Modes2
        PROVE  AllKept([t EXCEPT !.cts = cts], s, w)
    <3> DEFINE p == [t EXCEPT !.cts = cts]
    <3>1. cts \in BOOLEAN
      OBVIOUS
    <3>2. /\ p.enabled = t.enabled /\ p.tsr = t.tsr /\ p.bits = t.bits
          /\ p.THR_set = t.THR_set /\ p.THR = t.THR /\ p.TxRDY = t.TxRDY
      BY <1>1, <3>1, CtsFields
    <3> HIDE DEF p
    <3>3. AllKept(p, s, w)
      BY <3>2, Zenon DEF AllKept
    <3> QED  BY <3>3 DEF p
  <2> QED  BY <1>4, <2>2, <2>3, Zenon DEF TransmitterSet, LeftAlone
<1>5. CASE TransmitterShifts(c)
  <2> DEFINE size == rx[c].size
             p == TransmitBit(t, size)
             n == IF EndsOutput(t, size) THEN OutputCell(t, size)[1] ELSE s
  <2>1. size \in Sizes
    BY <1>1, RxFields, Zenon
  <2>2. t.bits = 0 /\ ~t.TxEMT => t.THR_set
    BY <1>5, Zenon DEF LoadsOnlyTHR, TransmitterShifts
  <2>3. AllKept(p, n, w)
    BY <1>1, <2>1, <2>2, ShiftedKept
  <2> HIDE DEF p, n
  <2>4. tx'[c] = p /\ sent'[c] = n /\ written'[c] = w
    BY <1>5, Zenon DEF TransmitterShifts, p, n
  <2> QED  BY <2>3, <2>4, Zenon
<1> QED  BY <1>2, <1>3, <1>4, <1>5, TransmitterSteps, Zenon

(* Every character a transmitter accepts is sent, is being sent or waits in *)
(* THR, as long as nobody disables or resets it: nothing of what the CPU    *)
(* does to the modes, the rates or the receiver makes it drop one.          *)
(* (channel_write, transmit_data)                                           *)
THEOREM NothingIsLost ==
  ASSUME LeftAlone
  PROVE  Spec => []NothingLost
<1> DEFINE Account == \A c \in Channel : AllKept(tx[c], sent[c], written[c])
<1>1. Init => Account
  <2> SUFFICES ASSUME Init, NEW c \in Channel
               PROVE  AllKept(tx[c], sent[c], written[c])
    BY Zenon
  <2>1. tx[c] = FreshTransmitter /\ sent[c] = 0 /\ written[c] = 0
    BY DEF Init
  <2> QED  BY <2>1, FreshTxFields DEF AllKept
<1>2. TypeOK /\ SendInv /\ TransmitHandshake /\ Account /\ [Next]_vars
        => Account'
  <2> SUFFICES ASSUME TypeOK, SendInv, TransmitHandshake, Account,
                      [Next]_vars, NEW c \in Channel
               PROVE  AllKept(tx'[c], sent'[c], written'[c])
    BY Zenon
  <2>1. HandshakeOK(tx[c]) /\ LoadsOnlyTHR(c)
    BY Zenon DEF TransmitHandshake, HandshakeOK, SendInv
  <2> QED  BY <2>1, AllKeptKept, Zenon
<1>3. Account => NothingLost
  BY Zenon DEF NothingLost, AllKept
<1> QED  BY <1>1, <1>2, <1>3, TypeCorrect, SendInvariant, HandshakeCorrect,
            PTL DEF Spec

-----------------------------------------------------------------------------
(* The order of what is received.                                           *)

(* The whole characters of a FIFO, between the last one read and the last   *)
(* one taken from the socket                                                *)
Index(r) == 0..(FifoCount(r) - 1)
IsWhole(r, cell) == cell[1] # NoChar /\ cell[2] = r.size
CellsInOrder(r, last, n) ==
  /\ \A i \in Index(r) : IsWhole(r, CellOf(r, i)) =>
       last < CellOf(r, i)[1] /\ CellOf(r, i)[1] <= n
  /\ \A i, j \in Index(r) :
       i < j /\ IsWhole(r, CellOf(r, i)) /\ IsWhole(r, CellOf(r, j))
         => CellOf(r, i)[1] < CellOf(r, j)[1]
Below(r, v) ==
  \A i \in Index(r) : IsWhole(r, CellOf(r, i)) => CellOf(r, i)[1] < v

(* The character being shifted in is newer than all of them; bits are only  *)
(* counted of a character that was taken from the socket; and a shift       *)
(* register behind a full FIFO never holds a whole character.               *)
InputInOrder(r, last, n) ==
  /\ r.have => last < r.input /\ r.input <= n /\ Below(r, r.input)
  /\ r.bits # 0 => r.have
  /\ r.occupied => r.rsr[2] < r.size

OrderIn(r, last, n) ==
  last <= n /\ CellsInOrder(r, last, n) /\ InputInOrder(r, last, n)

(* The characters a channel has: the last one the CPU read of it, those in  *)
(* its FIFO, and the one it is shifting in                                  *)
Owns(r, last, v) ==
  /\ v # NoChar
  /\ \/ v = last
     \/ r.have /\ v = r.input
     \/ \E i \in Index(r) : IsWhole(r, CellOf(r, i)) /\ v = CellOf(r, i)[1]

(* A push of a cell that is a newer character, or no whole character, keeps *)
(* the order.                                                               *)
LEMMA PushInOrder ==
  ASSUME NEW r \in Receiver, NEW p \in Receiver, NEW cell \in Cell,
         NEW last \in Nat, NEW n \in Nat,
         Pushed(p, r, cell), RingOK(r), ~FifoFull(r), SameModes(p, r),
         CellsInOrder(r, last, n),
         IsWhole(r, cell) => last < cell[1] /\ cell[1] <= n /\ Below(r, cell[1])
  PROVE  /\ CellsInOrder(p, last, n)
         /\ \A v : Below(r, v) /\ (IsWhole(r, cell) => cell[1] < v)
                     => Below(p, v)
         /\ \A i \in Index(p) :
              \/ i \in Index(r) /\ CellOf(p, i) = CellOf(r, i)
              \/ CellOf(p, i) = cell
<1> DEFINE k == FifoCount(r)
<1>1. /\ FifoCount(p) = k + 1 /\ k \in 0..3
      /\ \A i \in 0..(k - 1) : CellOf(p, i) = CellOf(r, i)
      /\ CellOf(p, k) = cell
  BY PushCells, Count
<1>2. \A x : IsWhole(p, x) <=> IsWhole(r, x)
  BY DEF IsWhole, SameModes
<1>3. /\ Index(r) = 0..(k - 1) /\ Index(p) = 0..k
      /\ Index(p) = Index(r) \cup {k}
  BY <1>1 DEF Index
<1>4. \A i \in Index(r) : CellOf(p, i) = CellOf(r, i) /\ i < k
  BY <1>1, <1>3
<1>5. \A i \in Index(p) : /\ i \in Index(r) \/ i = k
                          /\ i \in Int /\ ~(k < i)
  BY <1>1, <1>3
<1> HIDE DEF k
<1>6. \A i \in Index(p) : IsWhole(p, CellOf(p, i)) =>
         last < CellOf(p, i)[1] /\ CellOf(p, i)[1] <= n
  BY <1>1, <1>2, <1>4, <1>5, Zenon DEF CellsInOrder
<1>7. ASSUME NEW i \in Index(p), NEW j \in Index(p), i < j,
             IsWhole(p, CellOf(p, i)), IsWhole(p, CellOf(p, j))
      PROVE  CellOf(p, i)[1] < CellOf(p, j)[1]
  <2>1. i \in Index(r)
    BY <1>5, <1>7, Zenon
  <2>2. CASE j \in Index(r)
    BY <1>2, <1>4, <1>7, <2>1, <2>2, Zenon DEF CellsInOrder
  <2>3. CASE j = k
    BY <1>1, <1>2, <1>4, <1>7, <2>1, <2>3, Zenon DEF Below
  <2> QED  BY <1>5, <2>2, <2>3
<1>8. CellsInOrder(p, last, n)
  BY <1>6, <1>7, Zenon DEF CellsInOrder
<1>9. ASSUME NEW v, Below(r, v), IsWhole(r, cell) => cell[1] < v
      PROVE  Below(p, v)
  BY <1>1, <1>2, <1>4, <1>5, <1>9, Zenon DEF Below
<1> QED  BY <1>1, <1>4, <1>5, <1>8, <1>9, Zenon

(* A read takes the oldest cell: what stays is newer, and was there.        *)
LEMMA TakeInOrder ==
  ASSUME NEW r \in Receiver, NEW p \in Receiver,
         NEW last \in Nat, NEW n \in Nat,
         TakenFrom(p, r), RingOK(r), SameModes(p, r),
         CellsInOrder(r, last, n)
  PROVE  /\ CellsInOrder(p, last, n)
         /\ ~r.empty /\ IsWhole(r, CellOf(r, 0)) =>
              CellsInOrder(p, CellOf(r, 0)[1], n)
         /\ \A v : Below(r, v) => Below(p, v)
         /\ \A i \in Index(p) :
              i + 1 \in Index(r) /\ CellOf(p, i) = CellOf(r, i + 1)
<1> DEFINE k == FifoCount(p)
<1>1. /\ k \in 0..3 /\ FifoCount(r) \in 0..3 /\ (r.empty => k = 0)
      /\ (~r.empty => k = FifoCount(r) - 1)
      /\ \A i \in 0..(k - 1) : CellOf(p, i) = CellOf(r, i + 1)
  BY TakeCells, Count
<1>2. \A x : IsWhole(p, x) <=> IsWhole(r, x)
  BY DEF IsWhole, SameModes
<1>3. \A i \in Index(p) :
        /\ i + 1 \in Index(r) /\ CellOf(p, i) = CellOf(r, i + 1)
        /\ 0 < i + 1 /\ 0 \in Index(r)
  BY <1>1 DEF Index
<1>4. \A i, j \in Index(p) : i < j => i + 1 < j + 1
  BY <1>1 DEF Index
<1>5. ASSUME NEW l, \A i \in Index(p) : IsWhole(p, CellOf(p, i)) =>
                       l < CellOf(p, i)[1]
      PROVE  CellsInOrder(p, l, n)
  BY <1>2, <1>3, <1>4, <1>5, Zenon DEF CellsInOrder
<1>6. CellsInOrder(p, last, n)
  <2>1. \A i \in Index(p) : IsWhole(p, CellOf(p, i)) => last < CellOf(p, i)[1]
    BY <1>2, <1>3, Zenon DEF CellsInOrder
  <2> QED  BY <1>5, <2>1, Zenon
<1>7. ASSUME IsWhole(r, CellOf(r, 0))
      PROVE  CellsInOrder(p, CellOf(r, 0)[1], n)
  <2>1. \A i \in Index(p) : IsWhole(p, CellOf(p, i)) =>
                              CellOf(r, 0)[1] < CellOf(p, i)[1]
    BY <1>2, <1>3, <1>7, Zenon DEF CellsInOrder
  <2> QED  BY <1>5, <2>1, Zenon
<1>8. ASSUME NEW v, Below(r, v)
      PROVE  Below(p, v)
  BY <1>2, <1>3, <1>8, Zenon DEF Below
<1> QED  BY <1>3, <1>6, <1>7, <1>8, Zenon

(* The same ring and modes have the same characters in the same order.      *)
LEMMA SameOrder ==
  ASSUME NEW r, NEW p, SameRing(p, r), SameModes(p, r)
  PROVE  /\ Index(p) = Index(r)
         /\ \A i \in Index(r) : CellOf(p, i) = CellOf(r, i)
         /\ \A x : IsWhole(p, x) <=> IsWhole(r, x)
         /\ \A l, n : CellsInOrder(r, l, n) => CellsInOrder(p, l, n)
         /\ \A v : Below(r, v) => Below(p, v)
<1>1. Index(p) = Index(r) /\ \A i : CellOf(p, i) = CellOf(r, i)
  BY SameCells, Zenon DEF Index
<1>2. \A x : IsWhole(p, x) <=> IsWhole(r, x)
  BY Zenon DEF IsWhole, SameModes
<1>3. ASSUME NEW l, NEW n, CellsInOrder(r, l, n)
      PROVE  CellsInOrder(p, l, n)
  BY <1>1, <1>2, <1>3, Zenon DEF CellsInOrder
<1>4. ASSUME NEW v, Below(r, v)
      PROVE  Below(p, v)
  BY <1>1, <1>2, <1>4, Zenon DEF Below
<1> QED  BY <1>1, <1>2, <1>3, <1>4, Zenon

(* An empty FIFO is in order.                                               *)
LEMMA EmptyOrder ==
  ASSUME NEW p, p.empty = TRUE
  PROVE  /\ Index(p) = {} /\ \A l, n : CellsInOrder(p, l, n)
         /\ \A v : Below(p, v)
<1>1. Index(p) = {}
  BY DEF Index, FifoCount
<1> QED  BY <1>1, Zenon DEF CellsInOrder, Below

(* A step that keeps the ring, the modes and the shift register's input     *)
(* keeps the order, and gives the channel no character.                     *)
LEMMA SameOrderIn ==
  ASSUME NEW r, NEW p, NEW l, NEW n,
         SameRing(p, r), SameModes(p, r), SameLine(p, r),
         p.occupied = r.occupied, OrderIn(r, l, n)
  PROVE  OrderIn(p, l, n) /\ \A v : Owns(p, l, v) => Owns(r, l, v)
<1>1. /\ CellsInOrder(p, l, n) /\ (\A v : Below(r, v) => Below(p, v))
      /\ Index(p) = Index(r)
      /\ \A i \in Index(r) : CellOf(p, i) = CellOf(r, i)
      /\ \A x : IsWhole(p, x) <=> IsWhole(r, x)
  BY SameOrder, Zenon DEF OrderIn
<1>2. OrderIn(p, l, n)
  BY <1>1, Zenon DEF OrderIn, InputInOrder, SameLine, SameModes
<1>3. \A v : Owns(p, l, v) => Owns(r, l, v)
  BY <1>1, Zenon DEF Owns, SameLine
<1> QED  BY <1>2, <1>3

(* One bit time keeps the order; a character that is delivered was the one  *)
(* being shifted in.                                                        *)
LEMMA BitInOrder ==
  ASSUME NEW r \in Receiver, NEW last \in Nat, NEW n \in Nat,
         Shown(r), OrderIn(r, last, n), r.bits # 0 \/ r.have
  PROVE  LET p == ReceiveBit(r)
         IN  /\ OrderIn(p, last, n)
             /\ \A v : Owns(p, last, v) => Owns(r, last, v)
<1> DEFINE p == ReceiveBit(r)
<1>1. /\ p \in Receiver /\ r.have /\ r.size \in Nat \ {0} /\ r.bits \in Nat
      /\ r.input \in Char
  <2>1. p \in Receiver
    BY BitOutcomes, Zenon
  <2> QED  BY <2>1, RxFields DEF OrderIn, InputInOrder
<1>2. CASE p = r
  BY <1>2, Zenon
<1>3. CASE r.bits + 1 < r.size /\ Shifts(p, r)
  <2>1. /\ CellsInOrder(p, last, n) /\ (\A v : Below(r, v) => Below(p, v))
        /\ Index(p) = Index(r)
        /\ \A i \in Index(r) : CellOf(p, i) = CellOf(r, i)
        /\ \A x : IsWhole(p, x) <=> IsWhole(r, x)
    BY <1>3, SameOrder, Zenon DEF OrderIn, Shifts
  <2>2. p.rsr[2] < p.size
    BY <1>3 DEF Shifts, SameModes
  <2>3. OrderIn(p, last, n)
    BY <1>1, <1>3, <2>1, <2>2, Zenon DEF OrderIn, InputInOrder, Shifts
  <2>4. \A v : Owns(p, last, v) => Owns(r, last, v)
    BY <1>3, <2>1, Zenon DEF Owns, Shifts
  <2> QED  BY <2>3, <2>4, Zenon
<1>4. ASSUME EndsInput(p, r)
      PROVE  /\ ~p.have /\ ~(p.bits # 0) /\ SameModes(p, r)
             /\ p.rsr[2] < p.size
  BY <1>1, <1>4 DEF EndsInput, SameModes, Zero
<1>5. CASE EndsInput(p, r) /\ KeptBack(p, r)
  <2>1. /\ CellsInOrder(p, last, n)
        /\ Index(p) = Index(r)
        /\ \A i \in Index(r) : CellOf(p, i) = CellOf(r, i)
        /\ \A x : IsWhole(p, x) <=> IsWhole(r, x)
    BY <1>4, <1>5, SameOrder, Zenon DEF OrderIn, KeptBack
  <2>2. OrderIn(p, last, n)
    BY <1>4, <1>5, <2>1, Zenon DEF OrderIn, InputInOrder
  <2>3. \A v : Owns(p, last, v) => Owns(r, last, v)
    BY <1>4, <1>5, <2>1, Zenon DEF Owns
  <2> QED  BY <2>2, <2>3, Zenon
<1>6. CASE /\ EndsInput(p, r)
           /\ ~FifoFull(r) /\ Pushed(p, r, <<r.input, r.size>>)
  <2> DEFINE cell == <<r.input, r.size>>
  <2>1. cell \in Cell /\ cell[1] = r.input /\ RingOK(r)
    BY <1>1 DEF Cell, Shown, RingOK
  <2>2. last < r.input /\ r.input <= n /\ Below(r, r.input)
    BY <1>1, Zenon DEF OrderIn, InputInOrder
  <2> HIDE DEF cell
  <2>3. /\ CellsInOrder(p, last, n)
        /\ \A i \in Index(p) :
             \/ i \in Index(r) /\ CellOf(p, i) = CellOf(r, i)
             \/ CellOf(p, i) = cell
    <3>1. Pushed(p, r, cell)
      BY <1>6 DEF cell
    <3>2. CellsInOrder(r, last, n)
      BY DEF OrderIn
    <3>3. IsWhole(r, cell) => last < cell[1] /\ cell[1] <= n
                              /\ Below(r, cell[1])
      BY <2>1, <2>2, Zenon
    <3> HIDE DEF p
    <3> QED  BY <1>1, <1>4, <1>6, <2>1, <3>1, <3>2, <3>3, PushInOrder
  <2>4. OrderIn(p, last, n)
    BY <1>4, <1>6, <2>3, Zenon DEF OrderIn, InputInOrder
  <2>5. \A x : IsWhole(p, x) <=> IsWhole(r, x)
    BY <1>4, <1>6, Zenon DEF IsWhole, SameModes
  <2>6. \A v : Owns(p, last, v) => Owns(r, last, v)
    BY <1>1, <1>4, <1>6, <2>1, <2>3, <2>5, Zenon DEF Owns
  <2> QED  BY <2>4, <2>6, Zenon
<1> QED  BY <1>2, <1>3, <1>5, <1>6, BitOutcomes, Zenon

(* A read keeps the order, with the character it read as the last one.      *)
LEMMA ReadInOrder ==
  ASSUME NEW r \in Receiver, NEW last \in Nat, NEW n \in Nat, NEW l,
         Shown(r), OrderIn(r, last, n),
         l = IF ~r.empty /\ IsWhole(r, ReadValue(r))
             THEN ReadValue(r)[1] ELSE last
  PROVE  LET p == ReadFifo(r)
         IN  OrderIn(p, l, n) /\ \A v : Owns(p, l, v) => Owns(r, last, v)
<1> DEFINE p == ReadFifo(r)
<1>1. /\ p \in Receiver /\ SameModes(p, r) /\ SameLine(p, r)
      /\ p.occupied = FALSE /\ RingOK(r) /\ r.rsr \in Cell
  BY ReadOutcomes, RxFields, Zenon DEF Shown, RingOK
<1>2. ReadValue(r) = CellOf(r, 0)
  <2>1. r.front \in 0..2
    BY RxFields DEF Slot
  <2>2. (r.front + 0) % 3 = r.front
    BY <2>1
  <2> QED  BY <2>2 DEF ReadValue, CellOf
<1>3. ~r.empty => 0 \in Index(r)
  <2>1. FifoCount(r) \in 0..3 /\ (~r.empty => FifoCount(r) # 0)
    BY Count
  <2> QED  BY <2>1 DEF Index
<1>4. /\ l \in Nat /\ l <= n
      /\ r.have => l < r.input
      /\ l = last \/ (/\ ~r.empty /\ IsWhole(r, CellOf(r, 0))
                      /\ l = CellOf(r, 0)[1])
      /\ l # NoChar => Owns(r, last, l)
  <2>1. CASE ~r.empty /\ IsWhole(r, CellOf(r, 0))
    <3>1. l = CellOf(r, 0)[1]
      BY <1>2, <2>1
    <3>2. l <= n /\ (r.have => l < r.input)
      BY <1>3, <2>1, <3>1, Zenon
         DEF OrderIn, CellsInOrder, InputInOrder, Below
    <3>3. l \in Nat
      <4>1. CellOf(r, 0) \in Cell
        BY Cells
      <4> QED  BY <3>1, <4>1, Characters DEF Cell
    <3>4. l # NoChar => Owns(r, last, l)
      BY <1>3, <2>1, <3>1, Zenon DEF Owns
    <3> QED  BY <2>1, <3>1, <3>2, <3>3, <3>4, Zenon
  <2>2. CASE ~(~r.empty /\ IsWhole(r, CellOf(r, 0)))
    <3>1. l = last
      BY <1>2, <2>2, Zenon
    <3> QED  BY <3>1, Zenon DEF OrderIn, InputInOrder, Owns
  <2> QED  BY <2>1, <2>2
<1>5. ASSUME NEW q \in Receiver, TakenFrom(q, r), SameModes(q, r)
      PROVE  /\ CellsInOrder(q, l, n) /\ RingOK(q) /\ ~FifoFull(q)
             /\ \A v : Below(r, v) => Below(q, v)
             /\ \A i \in Index(q) : \E j \in Index(r) :
                  CellOf(q, i) = CellOf(r, j)
  <2>1. CellsInOrder(r, last, n)
    BY DEF OrderIn
  <2>2. /\ CellsInOrder(q, last, n)
        /\ ~r.empty /\ IsWhole(r, CellOf(r, 0)) =>
             CellsInOrder(q, CellOf(r, 0)[1], n)
        /\ \A v : Below(r, v) => Below(q, v)
        /\ \A i \in Index(q) :
             i + 1 \in Index(r) /\ CellOf(q, i) = CellOf(r, i + 1)
    BY <1>1, <1>5, <2>1, TakeInOrder
  <2>3. RingOK(q) /\ ~FifoFull(q)
    BY <1>1, <1>5, TakeCells, Zenon
  <2>4. CellsInOrder(q, l, n)
    BY <1>4, <2>2, Zenon
  <2> QED  BY <2>2, <2>3, <2>4, Zenon
<1>6. ASSUME CellsInOrder(p, l, n), \A v : Below(r, v) => Below(p, v),
             \A i \in Index(p) : IsWhole(p, CellOf(p, i)) =>
               \E j \in Index(r) : CellOf(p, i) = CellOf(r, j)
      PROVE  OrderIn(p, l, n) /\ \A v : Owns(p, l, v) => Owns(r, last, v)
  <2> HIDE DEF p
  <2>1. OrderIn(p, l, n)
    BY <1>1, <1>4, <1>6, Zenon DEF OrderIn, InputInOrder, SameLine
  <2>2. \A x : IsWhole(p, x) <=> IsWhole(r, x)
    BY <1>1, Zenon DEF IsWhole, SameModes
  <2>3. ASSUME NEW v, Owns(p, l, v)
        PROVE  Owns(r, last, v)
    <3>1. CASE v = l
      BY <1>4, <2>3, <3>1, Zenon DEF Owns
    <3>2. CASE p.have /\ v = p.input
      BY <1>1, <2>3, <3>2, Zenon DEF Owns, SameLine
    <3>3. CASE \E i \in Index(p) :
                 IsWhole(p, CellOf(p, i)) /\ v = CellOf(p, i)[1]
      BY <1>6, <2>2, <2>3, <3>3, Zenon DEF Owns
    <3> QED  BY <2>3, <3>1, <3>2, <3>3, Zenon DEF Owns
  <2> QED  BY <2>1, <2>3, Zenon DEF p
<1>7. CASE TakenFrom(p, r)
  <2>1. /\ CellsInOrder(p, l, n) /\ (\A v : Below(r, v) => Below(p, v))
        /\ \A i \in Index(p) : \E j \in Index(r) :
             CellOf(p, i) = CellOf(r, j)
    BY <1>1, <1>5, <1>7, Zenon
  <2> QED  BY <1>6, <2>1, Zenon
<1>8. ASSUME r.occupied, NEW q \in Receiver,
             TakenFrom(q, r), SameModes(q, r), Pushed(p, q, r.rsr)
      PROVE  OrderIn(p, l, n) /\ \A v : Owns(p, l, v) => Owns(r, last, v)
  <2>1. /\ CellsInOrder(q, l, n) /\ RingOK(q) /\ ~FifoFull(q)
        /\ \A v : Below(r, v) => Below(q, v)
        /\ \A i \in Index(q) : \E j \in Index(r) :
             CellOf(q, i) = CellOf(r, j)
    BY <1>5, <1>8, Zenon
  <2>2. ~IsWhole(q, r.rsr) /\ ~IsWhole(p, r.rsr) /\ SameModes(p, q)
    <3>1. r.rsr[2] < r.size
      BY <1>8, Zenon DEF OrderIn, InputInOrder
    <3>2. r.rsr[2] # r.size
      BY <1>1, <3>1, RxFields DEF Cell
    <3> QED  BY <1>1, <1>8, <3>2, Zenon DEF IsWhole, SameModes
  <2>3. /\ CellsInOrder(p, l, n)
        /\ \A v : Below(q, v) => Below(p, v)
        /\ \A i \in Index(p) :
             \/ i \in Index(q) /\ CellOf(p, i) = CellOf(q, i)
             \/ CellOf(p, i) = r.rsr
    <3> HIDE DEF p
    <3> QED  BY <1>1, <1>4, <1>8, <2>1, <2>2, PushInOrder
  <2>4. \A i \in Index(p) : IsWhole(p, CellOf(p, i)) =>
          \E j \in Index(r) : CellOf(p, i) = CellOf(r, j)
    BY <2>1, <2>2, <2>3, Zenon
  <2> QED  BY <1>6, <2>1, <2>3, <2>4, Zenon
<1> QED  BY <1>7, <1>8, ReadOutcomes, Zenon

(* Characters are numbered upwards: what was in order before one more was   *)
(* taken is in order after.                                                 *)
LEMMA LaterInOrder ==
  ASSUME NEW r \in Receiver, NEW last \in Nat, NEW n \in Nat,
         OrderIn(r, last, n)
  PROVE  OrderIn(r, last, n + 1) /\ Below(r, n + 1) /\ last < n + 1
<1>1. \A i \in Index(r) : CellOf(r, i)[1] \in Nat
  <2> SUFFICES ASSUME NEW i \in Index(r)
               PROVE  CellOf(r, i)[1] \in Nat
    OBVIOUS
  <2>1. i \in Nat
    BY Count DEF Index
  <2>2. CellOf(r, i) \in Cell
    BY <2>1, Cells
  <2> QED  BY <2>2, Characters DEF Cell
<1>2. \A v \in Nat : v <= n => v <= n + 1 /\ v < n + 1
  OBVIOUS
<1>3. r.input \in Nat
  BY RxFields, Characters
<1>4. CellsInOrder(r, last, n + 1) /\ Below(r, n + 1)
  BY <1>1, <1>2, Zenon DEF OrderIn, CellsInOrder, Below
<1>5. InputInOrder(r, last, n + 1)
  BY <1>2, <1>3, Zenon DEF OrderIn, InputInOrder
<1> QED  BY <1>2, <1>4, <1>5, Zenon DEF OrderIn

(* Every step keeps the order in, when MR1 is written only while the FIFO   *)
(* is empty; and a channel comes to own no character but the next one the   *)
(* socket has, which only the channel being polled takes.                   *)
LEMMA OrderInKept ==
  ASSUME TypeOK, [Next]_vars, ModesFirst, NEW c \in Channel, Shown(rx[c]),
         OrderIn(rx[c], lastRead[c], taken)
  PROVE  /\ OrderIn(rx'[c], lastRead'[c], taken')
         /\ \A v : Owns(rx'[c], lastRead'[c], v) =>
              \/ Owns(rx[c], lastRead[c], v)
              \/ /\ v = taken + 1 /\ taken' = taken + 1
                 /\ phase = "rx" /\ cur = c
<1> DEFINE r == rx[c]  l == lastRead[c]  n == taken
           OK(p) == OrderIn(p, l, n) /\ \A v : Owns(p, l, v) => Owns(r, l, v)
<1>1. r \in Receiver /\ l \in Nat /\ n \in Nat /\ arrived \in 0..MaxChars
  BY DEF TypeOK
<1>2. CASE ReceiverRests(c)
  <2>1. OrderIn(r, l, n) /\ OrderIn(r, l, n + 1)
    BY <1>1, LaterInOrder
  <2>2. taken' = n \/ taken' = n + 1
    BY <1>2 DEF ReceiverRests
  <2> QED  BY <1>2, <2>1, <2>2, Zenon DEF ReceiverRests
<1>3. CASE ReceiverRead(c)
  <2>1. lastRead'[c] = IF ~r.empty /\ IsWhole(r, ReadValue(r))
                       THEN ReadValue(r)[1] ELSE l
    BY <1>3 DEF ReceiverRead, ReadsChar, IsWhole
  <2>2. LET p == ReadFifo(r)
        IN  /\ OrderIn(p, lastRead'[c], n)
            /\ \A v : Owns(p, lastRead'[c], v) => Owns(r, l, v)
    BY <1>1, <2>1, ReadInOrder
  <2> QED  BY <1>3, <2>2, Zenon DEF ReceiverRead
<1>4. CASE ReceiverSet(c)
  <2>1. ASSUME NEW p, SameRing(p, r), SameModes(p, r), SameLine(p, r),
               p.occupied = r.occupied
        PROVE  OK(p)
    BY <2>1, SameOrderIn, Zenon
  <2>2. ASSUME NEW p, p.empty = TRUE, p.occupied = FALSE,
               p.have = r.have \/ p.have = FALSE, p.input = r.input,
               p.bits # 0 => p.have
        PROVE  OK(p)
    <3>1. /\ Index(p) = {} /\ (\A x, y : CellsInOrder(p, x, y))
          /\ \A v : Below(p, v)
      BY <2>2, EmptyOrder, Zenon
    <3>2. OrderIn(p, l, n)
      BY <2>2, <3>1, Zenon DEF OrderIn, InputInOrder
    <3>3. \A v : Owns(p, l, v) => Owns(r, l, v)
      BY <2>2, <3>1, Zenon DEF Owns
    <3> QED  BY <3>2, <3>3, Zenon
  <2> HIDE DEF OK
  <2>3. ASSUME NEW cmd \in Commands
        PROVE  OK(SwitchReceiver(RxCommand(r, cmd), cmd))
    <3> DEFINE p == SwitchReceiver(RxCommand(r, cmd), cmd)
    <3>1. cmd \in Command
      OBVIOUS
    <3>2. /\ SameModes(p, r) /\ p.have = r.have
          /\ \/ Cleared(p, r)
             \/ SameLine(p, r) /\ SameRing(p, r) /\ p.occupied = r.occupied
      BY <1>1, <3>1, CommandOutcomes, Zenon
    <3> HIDE DEF p
    <3>3. CASE Cleared(p, r)
      BY <2>2, <3>2, <3>3, Zenon DEF Cleared, p
    <3>4. CASE SameLine(p, r) /\ SameRing(p, r) /\ p.occupied = r.occupied
      BY <2>1, <3>2, <3>4, Zenon DEF p
    <3> QED  BY <3>2, <3>3, <3>4, Zenon
  <2>4. ASSUME NEW m \in Modes1, r.empty
        PROVE  OK(SetMR1(r, m))
    <3> DEFINE p == SetMR1(r, m)
    <3>1. m \in Mode1 /\ r.empty = TRUE /\ r.occupied = FALSE
      BY <1>1, <2>4, RxFields DEF Shown, FifoFull
    <3>2. SameLine(p, r) /\ SameRing(p, r) /\ p.occupied = r.occupied
      BY <1>1, <3>1, ModeFields, Zenon
    <3> HIDE DEF p
    <3>3. /\ p.empty = TRUE /\ p.occupied = FALSE /\ p.have = r.have
          /\ p.input = r.input /\ (p.bits # 0 => p.have)
      BY <3>1, <3>2, Zenon
         DEF SameLine, SameRing, OrderIn, InputInOrder
    <3>4. OK(p)
      BY <2>2, <3>3, Zenon
    <3> QED  BY <3>4 DEF p
  <2>5. OK([r EXCEPT !.mr = 1])
    <3>1. 1 \in {0, 1} /\ TRUE \in BOOLEAN
      OBVIOUS
    <3>2. LET p == [r EXCEPT !.mr = 1]
          IN  /\ SameRing(p, r) /\ SameModes(p, r) /\ SameLine(p, r)
              /\ p.occupied = r.occupied
      BY <1>1, <3>1, SettingFields
    <3> QED  BY <2>1, <3>2, Zenon
  <2>6. ASSUME NEW on \in OutputPort
        PROVE  OK([r EXCEPT !.rts = on])
    <3>1. on \in BOOLEAN
      OBVIOUS
    <3>2. LET p == [r EXCEPT !.rts = on]
          IN  /\ SameRing(p, r) /\ SameModes(p, r) /\ SameLine(p, r)
              /\ p.occupied = r.occupied
      BY <1>1, <3>1, RtsFields
    <3> QED  BY <2>1, <3>2, Zenon
  <2>7. OK(FreshReceiver(r.input))
    <3> DEFINE p == FreshReceiver(r.input)
    <3>1. /\ p.empty = TRUE /\ p.occupied = FALSE /\ p.have = FALSE
          /\ p.bits = 0 /\ p.input = r.input
      BY <1>1, RxFields, FreshFields, Zenon
    <3> HIDE DEF p
    <3>2. OK(p)
      BY <2>2, <3>1, Zenon
    <3> QED  BY <3>2 DEF p
  <2>8. OK(rx'[c])
    BY <1>4, <2>3, <2>4, <2>5, <2>6, <2>7, Zenon DEF ReceiverSet
  <2> QED  BY <1>4, <2>8, Zenon DEF ReceiverSet, OK
<1>5. CASE ReceiverGets(c)
  <2> DEFINE q == GetInput(r, n + 1)
  <2>1. n + 1 \in Char /\ n + 1 \in Nat /\ n + 1 <= n + 1
    BY <1>1, <1>5, Characters DEF ReceiverGets
  <2>2. /\ q \in Receiver
        /\ SameModes(q, r) /\ SameRing(q, r) /\ SameFlags(q, r)
        /\ q.occupied = r.occupied /\ q.rsr = r.rsr
        /\ q.have = TRUE /\ q.input = n + 1
    BY <1>1, <2>1, InputFields, Zenon
  <2> HIDE DEF q
  <2>3. Shown(q)
    BY <2>2, SameShown, Zenon DEF Shown
  <2>4. OrderIn(r, l, n + 1) /\ Below(r, n + 1) /\ l < n + 1
    BY <1>1, LaterInOrder
  <2>5. /\ CellsInOrder(q, l, n + 1) /\ Below(q, n + 1)
        /\ Index(q) = Index(r)
        /\ \A i \in Index(r) : CellOf(q, i) = CellOf(r, i)
        /\ \A x : IsWhole(q, x) <=> IsWhole(r, x)
    BY <2>2, <2>4, SameOrder, Zenon DEF OrderIn
  <2>6. OrderIn(q, l, n + 1)
    BY <2>1, <2>2, <2>4, <2>5, Zenon DEF OrderIn, InputInOrder, SameModes
  <2>7. \A v : Owns(q, l, v) => Owns(r, l, v) \/ v = n + 1
    BY <2>2, <2>5, Zenon DEF Owns
  <2>8. LET p == ReceiveBit(q)
        IN  /\ OrderIn(p, l, n + 1)
            /\ \A v : Owns(p, l, v) => Owns(q, l, v)
    BY <1>1, <2>1, <2>2, <2>3, <2>6, BitInOrder
  <2> QED  BY <1>5, <2>7, <2>8, Zenon DEF ReceiverGets, q
<1>6. CASE ReceiverContinues(c)
  <2>1. LET p == ReceiveBit(r)
        IN  OrderIn(p, l, n) /\ \A v : Owns(p, l, v) => Owns(r, l, v)
    BY <1>1, <1>6, BitInOrder DEF ReceiverContinues
  <2> QED  BY <1>6, <2>1, Zenon DEF ReceiverContinues
<1> QED  BY <1>2, <1>3, <1>4, <1>5, <1>6, ReceiverSteps, Zenon

(* The order of every channel, and that no two channels own the same        *)
(* character                                                                *)
ReceiveInv ==
  /\ \A c \in Channel : OrderIn(rx[c], lastRead[c], taken)
  /\ \A c, d \in Channel : \A v :
       c # d => ~(Owns(rx[c], lastRead[c], v) /\ Owns(rx[d], lastRead[d], v))

(* What a channel owns was taken from the socket.                           *)
LEMMA OwnedTaken ==
  ASSUME NEW r \in Receiver, NEW last \in Nat, NEW n \in Nat,
         OrderIn(r, last, n), NEW v, Owns(r, last, v)
  PROVE  v # n + 1
<1>1. \A i \in Index(r) : IsWhole(r, CellOf(r, i)) => CellOf(r, i)[1] <= n
  BY Zenon DEF OrderIn, CellsInOrder
<1>2. last <= n /\ (r.have => r.input <= n)
  BY DEF OrderIn, InputInOrder
<1>3. ~(n + 1 <= n)
  OBVIOUS
<1> QED  BY <1>1, <1>2, <1>3, Zenon DEF Owns

(* The inductive invariant behind what is received                          *)
LEMMA ReceiveInvariant ==
  ASSUME ModesFirst
  PROVE  Spec => []ReceiveInv
<1>1. Init => ReceiveInv
  <2> SUFFICES ASSUME Init
               PROVE  ReceiveInv
    OBVIOUS
  <2>1. ASSUME NEW c \in Channel
        PROVE  OrderIn(rx[c], lastRead[c], taken)
               /\ \A v : ~Owns(rx[c], lastRead[c], v)
    <3>1. NoChar \in Char /\ rx[c] = FreshReceiver(NoChar)
          /\ lastRead[c] = 0 /\ taken = 0 /\ 0 <= 0 /\ NoChar = 0
      BY DEF Init, Char
    <3>2. /\ rx[c].empty = TRUE /\ rx[c].occupied = FALSE
          /\ rx[c].have = FALSE /\ rx[c].bits = 0
      <4>1. LET p == FreshReceiver(NoChar)
            IN  /\ p.empty = TRUE /\ p.occupied = FALSE
                /\ p.have = FALSE /\ p.bits = 0
        BY <3>1, FreshFields
      <4> QED  BY <3>1, <4>1, Zenon
    <3>3. Index(rx[c]) = {} /\ \A x, y : CellsInOrder(rx[c], x, y)
      BY <3>2, EmptyOrder, Zenon
    <3>4. OrderIn(rx[c], lastRead[c], taken)
      BY <3>1, <3>2, <3>3, Zenon DEF OrderIn, InputInOrder
    <3>5. \A v : ~Owns(rx[c], lastRead[c], v)
      BY <3>1, <3>2, <3>3, Zenon DEF Owns
    <3> QED  BY <3>4, <3>5
  <2> QED  BY <2>1, Zenon DEF ReceiveInv
<1>2. TypeOK /\ StatusShowsFifo /\ ReceiveInv /\ [Next]_vars => ReceiveInv'
  <2> SUFFICES ASSUME TypeOK, StatusShowsFifo, ReceiveInv, [Next]_vars
               PROVE  ReceiveInv'
    OBVIOUS
  <2>1. ASSUME NEW c \in Channel
        PROVE  /\ rx[c] \in Receiver /\ lastRead[c] \in Nat /\ taken \in Nat
               /\ Shown(rx[c]) /\ OrderIn(rx[c], lastRead[c], taken)
    <3>1. rx[c] \in Receiver /\ lastRead[c] \in Nat /\ taken \in Nat
      BY DEF TypeOK
    <3>2. Shown(rx[c]) /\ OrderIn(rx[c], lastRead[c], taken)
      BY Zenon DEF StatusShowsFifo, Shown, ReceiveInv
    <3> QED  BY <3>1, <3>2
  <2>2. ASSUME NEW c \in Channel
        PROVE  /\ OrderIn(rx'[c], lastRead'[c], taken')
               /\ \A v : Owns(rx'[c], lastRead'[c], v) =>
                    Owns(rx[c], lastRead[c], v) \/ (v = taken + 1 /\ cur = c)
    BY <2>1, OrderInKept, Zenon
  <2>3. ASSUME NEW c \in Channel, NEW d \in Channel, NEW v, c # d,
               Owns(rx'[c], lastRead'[c], v), Owns(rx'[d], lastRead'[d], v)
        PROVE  FALSE
    <3>1. CASE Owns(rx[c], lastRead[c], v) /\ Owns(rx[d], lastRead[d], v)
      BY <2>3, <3>1, Zenon DEF ReceiveInv
    <3>2. CASE Owns(rx[c], lastRead[c], v) /\ v = taken + 1
      BY <2>1, <3>2, OwnedTaken, Zenon
    <3>3. CASE Owns(rx[d], lastRead[d], v) /\ v = taken + 1
      BY <2>1, <3>3, OwnedTaken, Zenon
    <3>4. CASE cur = c /\ cur = d
      BY <2>3, <3>4
    <3> QED  BY <2>2, <2>3, <3>1, <3>2, <3>3, <3>4, Zenon
  <2> QED  BY <2>2, <2>3, Zenon DEF ReceiveInv
<1> QED  BY <1>1, <1>2, TypeCorrect, StatusShown, PTL DEF Spec

(* The cells of a FIFO as Duart and as the receiver lemmas write them       *)
LEMMA FifoCells ==
  ASSUME NEW c \in Channel
  PROVE  /\ InFifo(c) = Index(rx[c])
         /\ \A i : FifoCell(c, i) = CellOf(rx[c], i)
         /\ \A x : Whole(c, x) <=> IsWhole(rx[c], x)
BY DEF InFifo, Index, FifoCell, CellOf, Whole, IsWhole

(* Characters reach the CPU in the order the peer wrote them, none twice:   *)
(* for every interleaving of reads, overflows, refills, resets and bit      *)
(* times, if MR1 is only written while the receiver is disabled and its     *)
(* FIFO empty.  (receive_data, channel_push_fifo, channel_read)             *)
THEOREM ReceiveOrderCorrect ==
  ASSUME ModesFirst
  PROVE  Spec => []ReceivedInOrder
<1>1. TypeOK /\ ReceiveInv => ReceivedInOrder
  <2> SUFFICES ASSUME TypeOK, ReceiveInv, NEW c \in Channel
               PROVE  LET whole == {i \in InFifo(c) : Whole(c, FifoCell(c, i))}
                      IN  /\ \A i \in whole : FifoCell(c, i)[1] > lastRead[c]
                          /\ \A i, j \in whole :
                               i < j => FifoCell(c, i)[1] < FifoCell(c, j)[1]
                          /\ rx[c].have =>
                               \A i \in whole : FifoCell(c, i)[1] < rx[c].input
                          /\ rx[c].have => lastRead[c] < rx[c].input
    BY Zenon DEF ReceivedInOrder
  <2> DEFINE whole == {i \in InFifo(c) : Whole(c, FifoCell(c, i))}
  <2>1. OrderIn(rx[c], lastRead[c], taken)
    BY Zenon DEF ReceiveInv
  <2>2. \A i : i \in whole => /\ i \in Index(rx[c])
                              /\ IsWhole(rx[c], CellOf(rx[c], i))
                              /\ FifoCell(c, i) = CellOf(rx[c], i)
    BY FifoCells, Zenon
  <2> HIDE DEF whole
  <2>3. \A i \in whole : lastRead[c] < FifoCell(c, i)[1]
    BY <2>1, <2>2, Zenon DEF OrderIn, CellsInOrder
  <2>4. \A i, j \in whole : i < j => FifoCell(c, i)[1] < FifoCell(c, j)[1]
    BY <2>1, <2>2, Zenon DEF OrderIn, CellsInOrder
  <2>5. rx[c].have => \A i \in whole : FifoCell(c, i)[1] < rx[c].input
    BY <2>1, <2>2, Zenon DEF OrderIn, InputInOrder, Below
  <2>6. rx[c].have => lastRead[c] < rx[c].input
    BY <2>1, Zenon DEF OrderIn, InputInOrder
  <2>7. \A i \in whole : FifoCell(c, i)[1] > lastRead[c]
    BY <2>3
  <2> QED  BY <2>4, <2>5, <2>6, <2>7, Zenon DEF whole
<1> QED  BY <1>1, ReceiveInvariant, TypeCorrect, PTL

(* Both channels poll the same socket, and no character reaches the CPU     *)
(* through both, under the same condition.  (channel_get_input)             *)
THEOREM ChannelsApart ==
  ASSUME ModesFirst
  PROVE  Spec => []NoCharacterOnBothChannels
<1>1. ReceiveInv => NoCharacterOnBothChannels
  <2> SUFFICES ASSUME ReceiveInv, NEW c \in Channel, NEW d \in Channel, c # d
               PROVE  /\ Holds(c) \cap Holds(d) = {}
                      /\ lastRead[c] # 0 => lastRead[c] # lastRead[d]
                      /\ lastRead[c] \notin Holds(d)
    BY Zenon DEF NoCharacterOnBothChannels
  <2>1. \A v : ~(Owns(rx[c], lastRead[c], v) /\ Owns(rx[d], lastRead[d], v))
    BY Zenon DEF ReceiveInv
  <2>2. ASSUME NEW e \in Channel, NEW v \in Holds(e)
        PROVE  Owns(rx[e], lastRead[e], v)
    <3>1. PICK i \in InFifo(e) : Whole(e, FifoCell(e, i))
                                 /\ v = FifoCell(e, i)[1]
      BY DEF Holds
    <3>2. /\ i \in Index(rx[e]) /\ IsWhole(rx[e], CellOf(rx[e], i))
          /\ v = CellOf(rx[e], i)[1]
      BY <3>1, FifoCells, Zenon
    <3>3. v # NoChar
      BY <3>2, Zenon DEF IsWhole
    <3> QED  BY <3>2, <3>3, Zenon DEF Owns
  <2>3. \A e \in Channel : lastRead[e] # 0 =>
          Owns(rx[e], lastRead[e], lastRead[e])
    BY DEF Owns
  <2>4. ~(0 \in Holds(d))
    <3>1. ~Owns(rx[d], lastRead[d], 0)
      BY DEF Owns
    <3> QED  BY <2>2, <3>1, Zenon
  <2>5. Holds(c) \cap Holds(d) = {}
    BY <2>1, <2>2, Zenon
  <2>6. lastRead[c] # 0 => lastRead[c] # lastRead[d]
    BY <2>1, <2>3, Zenon
  <2>7. lastRead[c] \notin Holds(d)
    BY <2>1, <2>2, <2>3, <2>4, Zenon
  <2> QED  BY <2>5, <2>6, <2>7
<1> QED  BY <1>1, ReceiveInvariant, PTL

=============================================================================
