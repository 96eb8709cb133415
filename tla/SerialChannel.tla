--------------------------- MODULE SerialChannel ---------------------------
(***************************************************************************)
(* One channel of the SCN2681 DUART of src/serial.c, as operators on two   *)
(* records: the receiver half and the transmitter half of struct channel.  *)
(* Module Duart composes the channels, the cycle counters they share and   *)
(* the interrupt line.                                                     *)
(*                                                                         *)
(* A character is a member of Chars; what a shift register or a FIFO slot  *)
(* holds is a cell <<c, n>>, the low n bits of character c.  Which bits    *)
(* they are is not modelled, how many of them arrived is.  The parity,     *)
(* framing and break flags of the FIFO are never set by the code, and      *)
(* break_started is never read by it: both are left out.                   *)
(***************************************************************************)
EXTENDS Integers

CONSTANTS
  Chars,       \* characters on the line
  NoChar,      \* the content of a register nothing was put into yet
  Sizes,       \* the character sizes MR1 can select (5..8 in the code)
  DefaultSize  \* the size a zero MR1 selects (5 in the code)

ASSUME CharAssumption == NoChar \notin Chars
ASSUME SizeAssumption == /\ Sizes \subseteq (Nat \ {0})
                         /\ DefaultSize \in Sizes

Char == Chars \cup {NoChar}
Cell == Char \X Nat
Zero == <<NoChar, 0>>                          \* the value 0

-----------------------------------------------------------------------------
(***************************************************************************)
(* The receiver half.  bits is rsr_bits_received, occupied rsr_occupied,   *)
(* have have_input, mr the mode register index; RxRDY, FFULL and overrun   *)
(* are bits of SR; isr is the channel's RxRDY/FFULL bit of the shared ISR; *)
(* size, intFull and rtsControl are the fields of MR1.                     *)
(***************************************************************************)
Slot == 0..2                                   \* struct rhr_fifo: data[3]

Receiver ==
  [ enabled : BOOLEAN, mr : {0, 1},
    size : Sizes, intFull : BOOLEAN, rtsControl : BOOLEAN, rts : BOOLEAN,
    rsr : Cell, bits : Nat, occupied : BOOLEAN, have : BOOLEAN, input : Char,
    data : [Slot -> Cell], front : Slot, back : Slot, empty : BOOLEAN,
    RxRDY : BOOLEAN, FFULL : BOOLEAN, overrun : BOOLEAN, isr : BOOLEAN ]

(* What resetserial leaves: input_char keeps what it last held. *)
FreshReceiver(input) ==
  [ enabled |-> FALSE, mr |-> 0,
    size |-> DefaultSize, intFull |-> FALSE, rtsControl |-> FALSE,
    rts |-> FALSE, rsr |-> Zero, bits |-> 0, occupied |-> FALSE,
    have |-> FALSE, input |-> input,
    data |-> [s \in Slot |-> Zero], front |-> 0, back |-> 0, empty |-> TRUE,
    RxRDY |-> FALSE, FFULL |-> FALSE, overrun |-> FALSE, isr |-> FALSE ]

Succ_NoWrap(s) == s + 1                        \* mutant: % 3 forgotten
Succ(s) == (s + 1) % 3

FifoFull(rx) == ~rx.empty /\ rx.front = rx.back
FifoCount(rx) == IF rx.empty THEN 0
                 ELSE IF FifoFull(rx) THEN 3
                 ELSE (rx.back - rx.front + 3) % 3

(* The interrupt flag a push leaves; full: the push fills the FIFO. *)
PushFlag_NoFull(rx, full) == rx.isr \/ (rx.empty /\ ~rx.intFull)  \* mutant
PushFlag(rx, full) ==
  rx.isr \/ (rx.empty /\ ~rx.intFull) \/ (full /\ rx.intFull)

PushFifo(rx) ==
  LET full == rx.front = Succ(rx.back)
  IN  [rx EXCEPT !.data[rx.back] = rx.rsr,
                 !.back = Succ(rx.back),
                 !.empty = FALSE,
                 !.RxRDY = @ \/ rx.empty,
                 !.FFULL = @ \/ full,
                 !.isr = PushFlag(rx, full),
                 !.rts = @ \/ (full /\ rx.rtsControl),
                 !.occupied = FALSE]

(* channel_read: the value it returns, and the receiver it leaves *)
ReadValue(rx) == rx.data[rx.front]

TakeFront(rx) ==
  LET front == IF rx.empty THEN rx.front ELSE Succ(rx.front)
      drained == front = rx.back
  IN  [rx EXCEPT !.front = front,
                 !.empty = @ \/ drained,
                 !.RxRDY = @ /\ ~drained,
                 !.FFULL = FALSE,
                 !.isr = @ /\ ~rx.intFull /\ ~drained]

ReadFifo(rx) ==
  IF rx.occupied
  THEN PushFifo(TakeFront(rx))
  ELSE [TakeFront(rx) EXCEPT !.rts = @ /\ ~rx.rtsControl]

(* One bit time of receive_data with a character in input_char *)
Delivered_Always(rx) == PushFifo(rx)           \* mutant: no test for full
Delivered(rx) ==
  IF FifoFull(rx) THEN [rx EXCEPT !.occupied = TRUE] ELSE PushFifo(rx)

(* mutants: the input character, or the bit count, is not cleared *)
EndCharacter_KeepsInput(rx) == [Delivered(rx) EXCEPT !.rsr = Zero, !.bits = 0]
EndCharacter_KeepsBits(rx) ==
  [Delivered(rx) EXCEPT !.rsr = Zero, !.have = FALSE]

EndCharacter(rx) ==
  [Delivered(rx) EXCEPT !.rsr = Zero, !.bits = 0, !.have = FALSE]

ShiftIn(rx) ==
  LET shifted == [rx EXCEPT !.rsr = <<rx.input, rx.bits + 1>>,
                            !.bits = @ + 1,
                            !.overrun = @ \/ rx.occupied]
  IN  IF shifted.bits = rx.size THEN EndCharacter(shifted) ELSE shifted

ReceiveBit(rx) == IF rx.bits < rx.size THEN ShiftIn(rx) ELSE rx

GetInput(rx, c) == [rx EXCEPT !.input = c, !.have = TRUE]

ResetReceiver(rx) ==
  [rx EXCEPT !.data = [s \in Slot |-> Zero], !.front = 0, !.back = 0,
             !.empty = TRUE, !.enabled = FALSE, !.mr = 0,
             !.rsr = Zero, !.bits = 0, !.occupied = FALSE]

ResetError(rx) == [rx EXCEPT !.overrun = FALSE]

SetMR1(rx, m) == [rx EXCEPT !.size = m.size, !.intFull = m.intFull,
                            !.rtsControl = m.rtsControl, !.mr = 1]

-----------------------------------------------------------------------------
(***************************************************************************)
(* The transmitter half.  bits is tsr_bits_remaining; the cell in tsr is   *)
(* what output_char holds once every bit of it was shifted out; cts is the *)
(* TxCTS bit of MR2; TxRDY and TxEMT are bits of SR; isr is the channel's  *)
(* TxRDY bit of the shared ISR.                                            *)
(***************************************************************************)
Transmitter ==
  [ enabled : BOOLEAN, cts : BOOLEAN, THR_set : BOOLEAN, THR : Char,
    tsr : Cell, bits : Nat, TxRDY : BOOLEAN, TxEMT : BOOLEAN, isr : BOOLEAN ]

FreshTransmitter ==
  [ enabled |-> FALSE, cts |-> FALSE, THR_set |-> FALSE, THR |-> NoChar,
    tsr |-> Zero, bits |-> 0, TxRDY |-> FALSE, TxEMT |-> FALSE,
    isr |-> FALSE ]

(* channel_write tests SR & CR_enable_Tx, which is the TxRDY bit of SR. *)
Accepts_Always(tx) == TRUE                     \* mutant: no test
Accepts(tx) == tx.TxRDY

WriteTHR_LeavesEmpty(tx, c) ==                 \* mutant: TxEMT stays set
  IF Accepts(tx)
  THEN [tx EXCEPT !.THR = c, !.THR_set = TRUE, !.TxRDY = FALSE, !.isr = FALSE]
  ELSE tx
WriteTHR(tx, c) ==
  IF Accepts(tx)
  THEN [tx EXCEPT !.THR = c, !.THR_set = TRUE, !.TxEMT = FALSE,
                  !.TxRDY = FALSE, !.isr = FALSE]
  ELSE tx

EnableTransmitter(tx) ==
  [tx EXCEPT !.enabled = TRUE, !.TxEMT = TRUE, !.THR_set = FALSE,
             !.TxRDY = TRUE, !.isr = TRUE]

DisableTransmitter(tx) ==
  [tx EXCEPT !.enabled = FALSE, !.TxEMT = FALSE, !.TxRDY = FALSE,
             !.isr = FALSE]

ResetTransmitter(tx) ==
  [tx EXCEPT !.TxEMT = TRUE, !.THR_set = FALSE, !.enabled = FALSE,
             !.tsr = Zero, !.bits = 0]

(* One bit time of transmit_data: load the shift register, then shift. *)
LoadTSR_KeepsTHR(tx, size) ==                  \* mutant: THR_set stays set
  IF ~tx.TxEMT /\ tx.bits = 0
  THEN [tx EXCEPT !.tsr = <<tx.THR, size>>, !.bits = size, !.TxRDY = TRUE,
                  !.isr = TRUE]
  ELSE tx

LoadTSR(tx, size) ==
  IF ~tx.TxEMT /\ tx.bits = 0
  THEN [tx EXCEPT !.tsr = <<tx.THR, size>>, !.bits = size,
                  !.THR_set = FALSE, !.TxRDY = TRUE, !.isr = TRUE]
  ELSE tx

(* No code sets a CTS input (set_input_state is never called), so a        *)
(* channel in TxCTS mode loads its shift register and never shifts it.     *)
CanShift(tx) == ~tx.cts /\ tx.bits > 0

ShiftOut_EmptiesEarly(tx) ==                   \* mutant: THR_set not tested
  [tx EXCEPT !.bits = @ - 1, !.TxEMT = @ \/ tx.bits = 1]
ShiftOut(tx) ==
  [tx EXCEPT !.bits = @ - 1,
             !.TxEMT = @ \/ (tx.bits = 1 /\ ~tx.THR_set)]

TransmitBit(tx, size) ==
  LET loaded == LoadTSR(tx, size)
  IN  IF CanShift(loaded) THEN ShiftOut(loaded) ELSE loaded

(* The bit time that ends a character writes output_char to the socket. *)
EndsOutput(tx, size) ==
  LET loaded == LoadTSR(tx, size) IN CanShift(loaded) /\ loaded.bits = 1

OutputCell(tx, size) == LoadTSR(tx, size).tsr

=============================================================================
