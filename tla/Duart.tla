------------------------------- MODULE Duart -------------------------------
(***************************************************************************)
(* The SCN2681 DUART of src/serial.c: its channels, the two cycle counters *)
(* all channels share, the one communications socket both channels use,    *)
(* and the interrupt line serial_irq.                                      *)
(*                                                                         *)
(* The emulated CPU reads and writes registers between two polls.  A poll  *)
(* (pollserial) runs a catch-up loop for the receiver and then for the     *)
(* transmitter of each channel in turn; every iteration of a loop is one   *)
(* step here, taken while the CPU waits (phase # "cpu"), because the       *)
(* program at the other end of the socket runs concurrently and may write  *)
(* a character between any two of them.                                    *)
(*                                                                         *)
(* The peer's characters are numbered 1, 2, ... in the order it writes     *)
(* them, and so are those the CPU gets each transmitter to accept.         *)
(***************************************************************************)
EXTENDS SerialChannel

CONSTANTS
  NChannels,   \* channels in use: 2 in the code
  MaxChars,    \* bound: characters the peer writes, and each channel sends
  IntLimit,    \* 2^31: the cycle counters are C ints
  Rates,       \* cycles per bit CSR can select; 0 is an unsupported rate
  PollCycles,  \* the cycles one poll may be given
  Commands,    \* the values the CPU writes to a command register
  Modes1,      \* the values the CPU writes to MR1
  Modes2,      \* the values the CPU writes to MR2: is TxCTS set?
  OutputPort,  \* the values the CPU gives an RTS bit of the output port
  Masks,       \* the values the CPU writes to IMR
  Reads,       \* may the CPU read the receive holding registers?
  Resets,      \* may the machine be reset?
  ModesFirst   \* does the CPU write MR1 only while the receiver is
               \* disabled and its FIFO empty, as a driver does?

Channel == 0..(NChannels - 1)
Source == {"rx", "tx"} \X Channel       \* the channels' bits of ISR and IMR
IntMin == -IntLimit
IntMax == IntLimit - 1
Ints == IntMin..IntMax

Command == [ op : {"none", "resetMR", "resetReceiver",
                   "resetTransmitter", "resetError"},
             rxOn : BOOLEAN, rxOff : BOOLEAN, txOn : BOOLEAN, txOff : BOOLEAN ]
Mode1 == [ size : Sizes, intFull : BOOLEAN, rtsControl : BOOLEAN ]

ASSUME DuartAssumption ==
  /\ NChannels \in {1, 2}
  /\ MaxChars \in Nat
  /\ Chars = 1..MaxChars /\ NoChar = 0
  /\ IntLimit \in Nat \ {0}
  /\ Rates \subseteq 0..IntMax
  /\ PollCycles \subseteq 1..IntMax
  /\ Commands \subseteq Command
  /\ Modes1 \subseteq Mode1
  /\ Modes2 \subseteq BOOLEAN /\ OutputPort \subseteq BOOLEAN
  /\ Masks \subseteq SUBSET Source
  /\ Reads \in BOOLEAN /\ Resets \in BOOLEAN /\ ModesFirst \in BOOLEAN

VARIABLES
  rx,             \* the receiver half of each channel
  tx,             \* the transmitter half of each channel
  rxPeriod,       \* channel.receive_cycles
  txPeriod,       \* channel.transmit_cycles
  receiveCycles,  \* the shared counter receive_cycles
  transmitCycles, \* the shared counter transmit_cycles
  imr,            \* the enabled interrupt sources
  serialIrq,      \* serial_irq, what the ULA sees
  phase,          \* "cpu", or the loop of pollserial that is running
  cur,            \* the channel that loop is for
  arrived,        \* characters the peer has written so far
  taken,          \* of those, how many were read from the socket
  written,        \* characters each transmitter has accepted
  sent,           \* the last character each transmitter sent whole
  lastRead        \* the last whole character the CPU read of each channel

vars == <<rx, tx, rxPeriod, txPeriod, receiveCycles, transmitCycles, imr,
          serialIrq, phase, cur, arrived, taken, written, sent, lastRead>>

(* Conversion to a 32-bit int, as the builds of the code do it. *)
Wrap(i) == ((i + IntLimit) % (2 * IntLimit)) - IntLimit

Init ==
  /\ rx = [c \in Channel |-> FreshReceiver(NoChar)]
  /\ tx = [c \in Channel |-> FreshTransmitter]
  /\ rxPeriod = [c \in Channel |-> 0]
  /\ txPeriod = [c \in Channel |-> 0]
  /\ receiveCycles = 0 /\ transmitCycles = 0
  /\ imr = {} /\ serialIrq = FALSE
  /\ phase = "cpu" /\ cur = 0
  /\ arrived = 0 /\ taken = 0
  /\ written = [c \in Channel |-> 0]
  /\ sent = [c \in Channel |-> 0]
  /\ lastRead = [c \in Channel |-> 0]

-----------------------------------------------------------------------------
(* The peer, at the other end of the socket (tools/serial_client.py). *)
PeerWrites ==
  /\ arrived < MaxChars
  /\ arrived' = arrived + 1
  /\ UNCHANGED <<rx, tx, rxPeriod, txPeriod, receiveCycles, transmitCycles,
                 imr, serialIrq, phase, cur, taken, written, sent, lastRead>>

-----------------------------------------------------------------------------
(* Register accesses by the CPU. *)
Idle == phase = "cpu"
LineUnchanged == UNCHANGED <<arrived, taken, sent>>
TimeUnchanged == UNCHANGED <<receiveCycles, transmitCycles, serialIrq, phase,
                             cur>>
ClocksUnchanged == UNCHANGED <<rxPeriod, txPeriod>>

(* A cell of the FIFO that a CPU minding RxRDY takes for a character *)
ReadsChar(c) == ~rx[c].empty /\ ReadValue(rx[c])[1] # NoChar
                             /\ ReadValue(rx[c])[2] = rx[c].size

ReadRHR(c) ==
  /\ Idle /\ Reads
  /\ rx' = [rx EXCEPT ![c] = ReadFifo(@)]
  /\ lastRead' = IF ReadsChar(c)
                 THEN [lastRead EXCEPT ![c] = ReadValue(rx[c])[1]]
                 ELSE lastRead
  /\ UNCHANGED <<tx, imr, written>>
  /\ LineUnchanged /\ TimeUnchanged /\ ClocksUnchanged

CpuWritesTHR(c) ==
  /\ Idle /\ written[c] < MaxChars
  /\ Accepts(tx[c])
  /\ tx' = [tx EXCEPT ![c] = WriteTHR(@, written[c] + 1)]
  /\ written' = [written EXCEPT ![c] = @ + 1]
  /\ UNCHANGED <<rx, imr, lastRead>>
  /\ LineUnchanged /\ TimeUnchanged /\ ClocksUnchanged

(* The reset commands are ignored when the same write enables or disables. *)
RxCommand(r, cmd) ==
  CASE cmd.op = "resetReceiver" /\ ~cmd.rxOn /\ ~cmd.rxOff -> ResetReceiver(r)
    [] cmd.op = "resetMR" -> [r EXCEPT !.mr = 0]
    [] cmd.op = "resetError" -> ResetError(r)
    [] OTHER -> r

TxCommand(t, cmd) ==
  IF cmd.op = "resetTransmitter" /\ ~cmd.txOn /\ ~cmd.txOff
  THEN ResetTransmitter(t) ELSE t

SwitchReceiver(r, cmd) ==
  [r EXCEPT !.enabled = IF @ THEN ~cmd.rxOff ELSE cmd.rxOn]

SwitchTransmitter(t, cmd) ==
  IF ~t.enabled /\ cmd.txOn THEN EnableTransmitter(t)
  ELSE IF t.enabled /\ cmd.txOff THEN DisableTransmitter(t)
  ELSE t

WriteCR(c, cmd) ==
  /\ Idle
  /\ rx' = [rx EXCEPT ![c] = SwitchReceiver(RxCommand(@, cmd), cmd)]
  /\ tx' = [tx EXCEPT ![c] = SwitchTransmitter(TxCommand(@, cmd), cmd)]
  /\ UNCHANGED <<imr, written, lastRead>>
  /\ LineUnchanged /\ TimeUnchanged /\ ClocksUnchanged

(* channel_set_mode and channel_get_mode share the mode register index. *)
WriteMR1(c, m) ==
  /\ Idle /\ rx[c].mr = 0
  /\ ModesFirst => ~rx[c].enabled /\ rx[c].empty
  /\ rx' = [rx EXCEPT ![c] = SetMR1(@, m)]
  /\ UNCHANGED <<tx, imr, written, lastRead>>
  /\ LineUnchanged /\ TimeUnchanged /\ ClocksUnchanged

WriteMR2(c, cts) ==
  /\ Idle /\ rx[c].mr = 1
  /\ tx' = [tx EXCEPT ![c].cts = cts]
  /\ UNCHANGED <<rx, imr, written, lastRead>>
  /\ LineUnchanged /\ TimeUnchanged /\ ClocksUnchanged

ReadMR(c) ==
  /\ Idle
  /\ rx' = [rx EXCEPT ![c].mr = 1]
  /\ UNCHANGED <<tx, imr, written, lastRead>>
  /\ LineUnchanged /\ TimeUnchanged /\ ClocksUnchanged

(* channel_baud_rate_update divides 2000000 by the rate as a float: for the *)
(* rates of the table that are 0 it converts an infinity to int, which C    *)
(* leaves undefined and builds turn into the least or the greatest int.     *)
Period(rate) == IF rate = 0 THEN {IntMin, IntMax} ELSE {rate}

WriteCSR(c) ==
  /\ Idle
  /\ \E r, t \in Rates :
       /\ \E p \in Period(r) : rxPeriod' = [rxPeriod EXCEPT ![c] = p]
       /\ \E p \in Period(t) : txPeriod' = [txPeriod EXCEPT ![c] = p]
  /\ UNCHANGED <<rx, tx, imr, written, lastRead>>
  /\ LineUnchanged /\ TimeUnchanged

WriteIMR(mask) ==
  /\ Idle
  /\ imr' = mask
  /\ UNCHANGED <<rx, tx, written, lastRead>>
  /\ LineUnchanged /\ TimeUnchanged /\ ClocksUnchanged

(* set_output_port (on = FALSE) and reset_output_port, for the channels the *)
(* bits of the value select                                                 *)
WriteOutputPort(selected, on) ==
  /\ Idle
  /\ rx' = [c \in Channel |-> IF c \in selected
                             THEN [rx[c] EXCEPT !.rts = on] ELSE rx[c]]
  /\ UNCHANGED <<tx, imr, written, lastRead>>
  /\ LineUnchanged /\ TimeUnchanged /\ ClocksUnchanged

(* resetserial, called for a reset of the machine.  CSR is cleared but      *)
(* CSR's effect, the periods, is: channel_reset zeroes them.                *)
ResetSerial ==
  /\ Idle /\ Resets
  /\ rx' = [c \in Channel |-> FreshReceiver(rx[c].input)]
  /\ tx' = [c \in Channel |-> FreshTransmitter]
  /\ rxPeriod' = [c \in Channel |-> 0]
  /\ txPeriod' = [c \in Channel |-> 0]
  /\ receiveCycles' = 0 /\ transmitCycles' = 0
  /\ imr' = {} /\ serialIrq' = FALSE
  /\ UNCHANGED <<phase, cur, written, lastRead>> /\ LineUnchanged

-----------------------------------------------------------------------------
(* pollserial.  It starts by crediting both counters. *)
CpuUnchanged == UNCHANGED <<imr, written, lastRead>> /\ ClocksUnchanged

PollSerial(cycles) ==
  /\ Idle
  /\ receiveCycles' = Wrap(receiveCycles + cycles)
  /\ transmitCycles' = Wrap(transmitCycles + cycles)
  /\ phase' = "rx" /\ cur' = 0
  /\ UNCHANGED <<rx, tx, serialIrq>>
  /\ LineUnchanged /\ CpuUnchanged

(* receive_data *)
Receiving(c) ==
  /\ rx[c].enabled
  /\ rxPeriod[c] # 0
  /\ receiveCycles >= rxPeriod[c]

SocketReady == taken < arrived
NextTaken_Peek == taken                \* mutant: the character stays unread
NextTaken == taken + 1                 \* socket_input

Spend_Nothing(cycles, period) == cycles     \* mutant: the loop never ends
Spend(cycles, period) == Wrap(cycles - period)

ReceiveStep ==
  /\ phase = "rx" /\ Receiving(cur)
  /\ receiveCycles' = Spend(receiveCycles, rxPeriod[cur])
  /\ \/ /\ rx[cur].bits = 0 /\ SocketReady
        /\ taken' = NextTaken
        /\ rx' = [rx EXCEPT ![cur] = ReceiveBit(GetInput(@, taken + 1))]
     \/ /\ rx[cur].bits # 0 \/ (~SocketReady /\ rx[cur].have)
        /\ rx' = [rx EXCEPT ![cur] = ReceiveBit(@)]
        /\ UNCHANGED taken
     \/ /\ rx[cur].bits = 0 /\ ~SocketReady /\ ~rx[cur].have
        /\ UNCHANGED <<rx, taken>>
  /\ UNCHANGED <<tx, transmitCycles, serialIrq, phase, cur, arrived, sent>>
  /\ CpuUnchanged

(* update_interrupts, at the end of a poll *)
Pending(c) == (IF rx[c].isr THEN {<<"rx", c>>} ELSE {})
              \cup (IF tx[c].isr THEN {<<"tx", c>>} ELSE {})
InterruptLine == imr \cap UNION {Pending(c) : c \in Channel} # {}

FinishChannel_OnlyRaises ==            \* mutant: the line never drops
  \/ /\ cur + 1 \in Channel
     /\ phase' = "rx" /\ cur' = cur + 1
     /\ UNCHANGED serialIrq
  \/ /\ cur + 1 \notin Channel
     /\ phase' = "cpu" /\ cur' = 0
     /\ serialIrq' = (serialIrq \/ InterruptLine)

FinishChannel ==
  \/ /\ cur + 1 \in Channel
     /\ phase' = "rx" /\ cur' = cur + 1
     /\ UNCHANGED serialIrq
  \/ /\ cur + 1 \notin Channel
     /\ phase' = "cpu" /\ cur' = 0
     /\ serialIrq' = InterruptLine

(* transmit_data is left at once when there is nothing it could do; its     *)
(* loop, once entered, runs while there are cycles.                         *)
EntersTransmit(c) == (tx[c].enabled \/ tx[c].bits # 0) /\ txPeriod[c] # 0

ReceiveDone ==
  /\ phase = "rx" /\ ~Receiving(cur)
  /\ \/ /\ EntersTransmit(cur)
        /\ phase' = "tx"
        /\ UNCHANGED <<cur, serialIrq>>
     \/ /\ ~EntersTransmit(cur)
        /\ FinishChannel
  /\ UNCHANGED <<rx, tx, receiveCycles, transmitCycles>>
  /\ LineUnchanged /\ CpuUnchanged

TransmitStep ==
  /\ phase = "tx" /\ transmitCycles >= txPeriod[cur]
  /\ transmitCycles' = Spend(transmitCycles, txPeriod[cur])
  /\ tx' = [tx EXCEPT ![cur] = TransmitBit(@, rx[cur].size)]
  /\ sent' = IF EndsOutput(tx[cur], rx[cur].size)
             THEN [sent EXCEPT ![cur] = OutputCell(tx[cur], rx[cur].size)[1]]
             ELSE sent
  /\ UNCHANGED <<rx, receiveCycles, serialIrq, phase, cur, arrived, taken>>
  /\ CpuUnchanged

TransmitDone ==
  /\ phase = "tx" /\ transmitCycles < txPeriod[cur]
  /\ FinishChannel
  /\ UNCHANGED <<rx, tx, receiveCycles, transmitCycles>>
  /\ LineUnchanged /\ CpuUnchanged

-----------------------------------------------------------------------------
Cpu ==
  \/ \E c \in Channel :
       \/ ReadRHR(c)
       \/ CpuWritesTHR(c)
       \/ \E cmd \in Commands : WriteCR(c, cmd)
       \/ \E m \in Modes1 : WriteMR1(c, m)
       \/ \E cts \in Modes2 : WriteMR2(c, cts)
       \/ ReadMR(c)
       \/ WriteCSR(c)
  \/ \E selected \in SUBSET Channel, on \in OutputPort :
       WriteOutputPort(selected, on)
  \/ \E mask \in Masks : WriteIMR(mask)
  \/ ResetSerial

Poll ==
  \/ \E cycles \in PollCycles : PollSerial(cycles)
  \/ ReceiveStep
  \/ ReceiveDone
  \/ TransmitStep
  \/ TransmitDone

Next == Cpu \/ Poll \/ PeerWrites

Spec == Init /\ [][Next]_vars

(* The main loop of the emulator polls for ever, and pollserial is plain    *)
(* sequential code: nothing it waits for but its own next step.             *)
FairSpec == Spec /\ WF_vars(Poll)

-----------------------------------------------------------------------------
TypeOK ==
  /\ rx \in [Channel -> Receiver]
  /\ tx \in [Channel -> Transmitter]
  /\ rxPeriod \in [Channel -> Ints] /\ txPeriod \in [Channel -> Ints]
  /\ receiveCycles \in Ints /\ transmitCycles \in Ints
  /\ imr \in SUBSET Source /\ serialIrq \in BOOLEAN
  /\ phase \in {"cpu", "rx", "tx"} /\ cur \in Channel
  /\ arrived \in 0..MaxChars /\ taken \in 0..arrived
  /\ written \in [Channel -> 0..MaxChars]
  /\ sent \in [Channel -> 0..MaxChars]
  /\ lastRead \in [Channel -> 0..MaxChars]

(* The status register never hides what the receiver holds: data in the     *)
(* FIFO shows as RxRDY, a full FIFO as FFULL, and the shift register is     *)
(* kept occupied only behind a full FIFO, so that the next read refills it. *)
(* (channel_push_fifo, channel_read, channel_reset_receiver)                *)
StatusShowsFifo ==
  \A c \in Channel :
    /\ rx[c].empty => rx[c].front = rx[c].back
    /\ ~rx[c].empty => rx[c].RxRDY
    /\ FifoFull(rx[c]) => rx[c].FFULL
    /\ rx[c].occupied => FifoFull(rx[c])

(* RxRDY and FFULL then say exactly what the FIFO holds, not only that.     *)
StatusExact(r) == (r.RxRDY <=> ~r.empty) /\ (r.FFULL <=> FifoFull(r))

(* Only a command that resets a receiver leaves its status behind: RxRDY    *)
(* over an emptied FIFO.  A read of the FIFO puts it right.                 *)
(* (channel_reset_receiver, channel_read, channel_push_fifo)                *)
ResetsReceiver(c) ==
  \E cmd \in Commands : cmd.op = "resetReceiver" /\ WriteCR(c, cmd)
StatusKeptExact ==
  [][ \A c \in Channel :
        /\ StatusExact(rx[c]) => StatusExact(rx'[c]) \/ ResetsReceiver(c)
        /\ ReadRHR(c) => StatusExact(rx'[c]) ]_vars

(* The receive interrupt is up whenever its condition holds: data waiting   *)
(* in RxRDY mode, a full FIFO in FFULL mode, when MR1 is only changed while *)
(* the FIFO is empty.  (the ISR updates of channel_push_fifo, channel_read) *)
ReceiveInterruptRaised ==
  \A c \in Channel :
    (IF rx[c].intFull THEN FifoFull(rx[c]) ELSE ~rx[c].empty) => rx[c].isr

(* With receiver RTS control the FIFO is never full with RTS left as it was *)
(* when there was room.  (channel_push_fifo, channel_read)                  *)
RtsFollowsFull ==
  \A c \in Channel : rx[c].rtsControl /\ FifoFull(rx[c]) => rx[c].rts

(* The flags of a receiver follow its FIFO through every push, overflow,    *)
(* read, reset and command: status, interrupt and RTS.  (the callers of     *)
(* channel_push_fifo and channel_read)                                      *)
FlagsFollowFifo ==
  StatusShowsFifo /\ ReceiveInterruptRaised /\ RtsFollowsFull

(* The cells of a FIFO, oldest first; which of them are whole characters    *)
FifoCell(c, i) == rx[c].data[(rx[c].front + i) % 3]
InFifo(c) == 0..(FifoCount(rx[c]) - 1)
Whole(c, cell) == cell[1] # NoChar /\ cell[2] = rx[c].size

(* Characters are read in the order the peer wrote them and none is read    *)
(* twice: a whole character in the FIFO is newer than the ones before it    *)
(* and than the last one read, and the character being shifted in is newer  *)
(* than them all.  (receive_data, channel_push_fifo, channel_read)          *)
ReceivedInOrder ==
  \A c \in Channel :
    LET whole == {i \in InFifo(c) : Whole(c, FifoCell(c, i))}
    IN  /\ \A i \in whole : FifoCell(c, i)[1] > lastRead[c]
        /\ \A i, j \in whole : i < j => FifoCell(c, i)[1] < FifoCell(c, j)[1]
        /\ rx[c].have => \A i \in whole : FifoCell(c, i)[1] < rx[c].input
        /\ rx[c].have => lastRead[c] < rx[c].input

(* Both channels read the same socket, but no character reaches the CPU     *)
(* through both of them.  (channel_get_input)                               *)
Holds(c) == {FifoCell(c, i)[1] : i \in {k \in InFifo(c) :
                                          Whole(c, FifoCell(c, k))}}
NoCharacterOnBothChannels ==
  \A c, d \in Channel : c # d =>
    /\ Holds(c) \cap Holds(d) = {}
    /\ lastRead[c] # 0 => lastRead[c] # lastRead[d]
    /\ lastRead[c] \notin Holds(d)

(* No character is sent twice or out of order: what is being shifted out is *)
(* newer than what was sent, and what waits in THR is newer than both.      *)
(* (channel_write, transmit_data, the enable, disable and reset commands)   *)
SentInOrder ==
  \A c \in Channel :
    /\ tx[c].bits > 0 => tx[c].tsr[1] > sent[c]
    /\ tx[c].THR_set => tx[c].THR > sent[c]
    /\ tx[c].THR_set /\ tx[c].bits > 0 => tx[c].THR > tx[c].tsr[1]

(* The transmitter's handshake: while it is enabled TxRDY says that THR is  *)
(* free, the interrupt is TxRDY, and TxEMT never covers a waiting           *)
(* character.  (channel_transmit_ready, channel_transmit_not_ready)         *)
TransmitHandshake ==
  \A c \in Channel :
    /\ tx[c].enabled => (tx[c].TxRDY <=> ~tx[c].THR_set)
    /\ tx[c].isr <=> tx[c].TxRDY
    /\ tx[c].THR_set => ~tx[c].TxEMT

(* A transmitter that is enabled once and left alone loses nothing: every   *)
(* character it accepted was sent, is being sent or waits in THR.           *)
(* (channel_write, transmit_data)                                           *)
NothingLost ==
  \A c \in Channel :
    written[c] = sent[c] + (IF tx[c].bits > 0 THEN 1 ELSE 0)
                         + (IF tx[c].THR_set THEN 1 ELSE 0)

(* Each receiver implements a queue of three cells with one more character  *)
(* waiting: the ring and its flags never drop, duplicate, insert or reorder *)
(* a cell, an arrival never overwrites a full FIFO, every read frees the    *)
(* shift register, and only a reset empties the queue at once.              *)
(* (channel_push_fifo, channel_read, receive_data, channel_reset_receiver)  *)
Received(c) == [i \in 1..FifoCount(rx[c]) |-> FifoCell(c, i - 1)]
Queue(c) == INSTANCE ReceiveQueue
              WITH Depth <- 3, queue <- Received(c),
                   waiting <- rx[c].occupied, overrun <- rx[c].overrun
ImplementsQueue ==
  /\ \A c \in Channel : Queue(c)!Init
  /\ [][\A c \in Channel : [Queue(c)!Next]_(Queue(c)!vars)]_vars

-----------------------------------------------------------------------------
(* Liveness, under FairSpec. *)

(* A poll ends: the emulator's only thread gets back to the CPU.            *)
(* (the catch-up loops of receive_data and transmit_data)                   *)
PollReturns == phase # "cpu" ~> phase = "cpu"

(* A character an enabled, clocked transmitter accepted is sent.            *)
(* (channel_write, transmit_data)                                           *)
AcceptedIsSent ==
  \A c \in Channel, n \in Chars :
    (written[c] >= n /\ txPeriod[c] # 0) ~> (sent[c] >= n)

(* A character the peer wrote is read from the socket once some receiver is *)
(* enabled and clocked.  (receive_data, channel_get_input)                  *)
ArrivedIsTaken ==
  \A c \in Channel, n \in Chars :
    (arrived >= n /\ rx[c].enabled /\ rxPeriod[c] # 0) ~> (taken >= n)

(* An enabled interrupt condition reaches the ULA unless the CPU deals with *)
(* it first, and the line drops again once nothing is pending.              *)
(* (update_interrupts at the end of pollserial)                             *)
InterruptFollows ==
  /\ InterruptLine ~> (serialIrq \/ ~InterruptLine)
  /\ (serialIrq /\ ~InterruptLine) ~> (~serialIrq \/ InterruptLine)

-----------------------------------------------------------------------------
(* What the comments and documents say and the code does not do.            *)

(* serial.c:868-871: with the FIFO full a further character populates the   *)
(* shift register, and only an overwrite of it loses it, as an overrun.     *)
(* receive_data clears the register it has just filled.                     *)
HeldCharacterKept ==
  \A c \in Channel :
    rx[c].occupied /\ ~rx[c].overrun => Whole(c, rx[c].rsr)

=============================================================================
