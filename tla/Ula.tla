-------------------------------- MODULE Ula --------------------------------
(***************************************************************************)
(* The interrupts and the cassette interface of the ULA, src/ula.c, with a *)
(* UEF tape in the recorder.                                               *)
(*                                                                         *)
(* Once per bit time of the tape polltape shifts one bit into tapedat, a   *)
(* register of a stop bit, DataBits bits and a start bit, and counts the   *)
(* bits of the byte in bitcount.  The byte itself was handed over whole in *)
(* recdat when its first bit was due; it becomes the one the CPU reads     *)
(* (tapelatch) when the start bit gets to the end of tapedat.  So the      *)
(* bits, the count and the byte must stay in step whatever the CPU does to *)
(* the motor, the direction and the data register in between.              *)
(*                                                                         *)
(* The CPU loop counts tapewrite down by the cycles of each instruction    *)
(* and polls the tape at 0.  With the tape "really fast" it also polls it  *)
(* in a loop when it sees the CPU wait for the tape.                       *)
(***************************************************************************)
EXTENDS Uef, Integers

CONSTANTS
  BitLength,  \* BIT_LENGTH, the cycles of a bit: 1628 in the code
  FastPolls,  \* 1000 in the code: polls of one really fast loop
  Masks,      \* the values the CPU writes to the interrupt enable register
  Values,     \* the bytes the CPU writes to the cassette data register
  MaxWrites,  \* bound: how often it does
  MaxCredit,  \* bound: the cycles really fast polls run ahead
  Outputs,    \* the directions the CPU gives the cassette: tapeout
  Roms,       \* the banks the CPU selects
  Raster,     \* the interrupts the display raises, of {"rtc", "vbl"}
  Plus1,      \* is the Plus 1 with the serial interface there?
  Fast,       \* is the tape speed "really fast"?
  Resets,     \* may the machine be reset?
  Reloads     \* does the user rewind, load and remove the tape?

Source == {"vbl", "rtc", "receive", "send", "hightone"}   \* mask 0x7C
Flag == Source \cup {"master"}

ASSUME UlaAssumption ==
  /\ BitLength \in Nat \ {0} /\ FastPolls \in Nat \ {0}
  /\ MaxWrites \in Nat /\ MaxCredit \in Nat
  /\ Masks \subseteq SUBSET Source /\ Values \subseteq Byte
  /\ Outputs \subseteq BOOLEAN /\ Roms \subseteq 0..15
  /\ Raster \subseteq {"rtc", "vbl"}
  /\ Plus1 \in BOOLEAN /\ Fast \in BOOLEAN
  /\ Resets \in BOOLEAN /\ Reloads \in BOOLEAN

VARIABLES
  u,          \* the registers of the ULA, the irq line and the shift register
  tape,       \* the UEF player
  loaded,     \* is there an image in the recorder?
  tapeon,     \* the motor
  tapeout,    \* is the cassette switched to output?
  tapewrite,  \* the cycles until the next poll
  serialIrq,  \* serial_irq, from the serial interface
  fast,       \* polls left of a really fast loop, 0 while the CPU runs
  bank,       \* rombank, extrom and intrombank
  writes      \* bytes the CPU has written to the data register

vars == <<u, tape, loaded, tapeon, tapeout, tapewrite, serialIrq, fast, bank,
         writes>>

WordBits == DataBits + 2                 \* tapedat: stop, data, start
AllOnes == 2^WordBits - 1

(* recno and latchno number the bytes in recdat and tapelatch since the     *)
(* tape's beginning; clean tells whether nothing but the tape has touched   *)
(* the shift register since recdat was received.  All three are history.    *)
Registers ==
  [ isr : SUBSET Flag, ier : SUBSET Source, irq : BOOLEAN,
    recdat : Byte, taperecdat : Byte, tapelatch : Byte, tapedat : 0..AllOnes,
    bitcount : 0..(DataBits + 1), sbitcount : 1..(DataBits + 1),
    hightone : BOOLEAN, break : BOOLEAN,
    recno : Nat, latchno : Nat, clean : BOOLEAN ]

Init ==
  /\ u = [ isr |-> {}, ier |-> {}, irq |-> FALSE,
           recdat |-> 0, taperecdat |-> 0, tapelatch |-> 0, tapedat |-> 0,
           bitcount |-> 0, sbitcount |-> DataBits + 1,
           hightone |-> FALSE, break |-> FALSE,
           recno |-> 0, latchno |-> 0, clean |-> FALSE ]
  /\ tape = Opened(FALSE) /\ loaded = TRUE
  /\ tapeon = FALSE /\ tapeout = FALSE /\ tapewrite = 0
  /\ serialIrq = FALSE
  /\ fast = 0
  /\ bank = [rombank |-> 0, extrom |-> FALSE, intrombank |-> 0]
  /\ writes = 0

-----------------------------------------------------------------------------
(* updateulaints.  The serial interface raises the line but not bit 0 of    *)
(* the status register, which it leaves as it was.                          *)
Wanted(r) == r.isr \cap r.ier # {}

UpdateInts_SerialFirst(r) ==           \* mutant: the order of the tests
  IF Plus1 /\ serialIrq THEN [r EXCEPT !.irq = TRUE]
  ELSE IF Wanted(r) THEN [r EXCEPT !.isr = @ \cup {"master"}, !.irq = TRUE]
  ELSE [r EXCEPT !.isr = @ \ {"master"}, !.irq = FALSE]

UpdateInts_NeverLowers(r) ==           \* mutant: no last else
  IF Wanted(r) THEN [r EXCEPT !.isr = @ \cup {"master"}, !.irq = TRUE]
  ELSE IF Plus1 /\ serialIrq THEN [r EXCEPT !.irq = TRUE]
  ELSE r

UpdateInts(r) ==
  IF Wanted(r) THEN [r EXCEPT !.isr = @ \cup {"master"}, !.irq = TRUE]
  ELSE IF Plus1 /\ serialIrq THEN [r EXCEPT !.irq = TRUE]
  ELSE [r EXCEPT !.isr = @ \ {"master"}, !.irq = FALSE]

Raise(r, source) == UpdateInts([r EXCEPT !.isr = @ \cup {source}])
Clear(r, sources) == UpdateInts([r EXCEPT !.isr = @ \ sources])

-----------------------------------------------------------------------------
(* polltape *)

(* receive and intula(INT_HIGHTONE), what the tape hands over *)
TakeFromTape_KeepsBits(r, polled) ==   \* mutant: taperecdat is not set
  CASE polled.event.kind = "byte" ->
         [r EXCEPT !.recdat = polled.event.byte,
                   !.hightone = FALSE, !.bitcount = DataBits + 1,
                   !.recno = polled.tape.given, !.clean = TRUE]
    [] polled.event.kind = "tone" -> [r EXCEPT !.hightone = TRUE]
    [] OTHER -> r

TakeFromTape(r, polled) ==
  CASE polled.event.kind = "byte" ->
         [r EXCEPT !.recdat = polled.event.byte,
                   !.taperecdat = polled.event.byte,
                   !.hightone = FALSE, !.bitcount = DataBits + 1,
                   !.recno = polled.tape.given, !.clean = TRUE]
    [] polled.event.kind = "tone" -> [r EXCEPT !.hightone = TRUE]
    [] OTHER -> r

Playing == ~tapeout /\ tapeon /\ loaded
Polled == IF Playing THEN PollUef(tape) ELSE Result(tape, Nothing)

(* One byte time after another, the CPU is asked for the next byte to send. *)
CountSend_Late(r) ==                   \* mutant: off by one
  IF r.sbitcount > 0 THEN [r EXCEPT !.sbitcount = @ - 1]
  ELSE Raise([r EXCEPT !.sbitcount = DataBits + 1], "send")

CountSend(r) ==
  IF r.sbitcount > 1 THEN [r EXCEPT !.sbitcount = @ - 1]
  ELSE Raise([r EXCEPT !.sbitcount = DataBits + 1], "send")

(* The bits of a byte pass; an interrupt for the one before ends. *)
CountBit(r) ==
  LET counted == [r EXCEPT !.bitcount = @ - 1]
  IN  IF counted.bitcount = DataBits - 1 THEN Clear(counted, {"receive"})
      ELSE counted

(* A start bit has arrived, or nothing but stop bits. *)
Latch_KeepsTone(r) ==                  \* mutant: the tone's flag stays
  IF r.tapedat % 4 # 1 THEN r
  ELSE Raise([r EXCEPT !.tapelatch = r.recdat,
                       !.bitcount = DataBits + 1, !.break = TRUE,
                       !.latchno = r.recno, !.clean = FALSE], "receive")

Latch(r) ==
  IF r.tapedat % 4 # 1 THEN r
  ELSE Raise([r EXCEPT !.isr = @ \ {"hightone"}, !.tapelatch = r.recdat,
                       !.bitcount = DataBits + 1, !.break = TRUE,
                       !.latchno = r.recno, !.clean = FALSE], "receive")

DetectTone(r) ==
  IF r.tapedat # AllOnes THEN r
  ELSE Raise([r EXCEPT !.bitcount = 0, !.break = TRUE], "hightone")

(* The next bit of tapedat, from the top *)
ShiftIn(r, bit) ==
  [r EXCEPT !.tapedat = (@ \div 2) + bit * 2^(WordBits - 1)]

ShiftBit(r) ==
  IF r.hightone \/ tapeout THEN ShiftIn([r EXCEPT !.clean = FALSE], 1)
  ELSE IF ~tapeon THEN ShiftIn([r EXCEPT !.clean = FALSE], 0)
  ELSE IF r.bitcount = DataBits + 1 THEN ShiftIn(r, 1)
  ELSE IF r.bitcount = DataBits THEN ShiftIn(r, 0)
  ELSE ShiftIn([r EXCEPT !.taperecdat = @ \div 2], r.taperecdat % 2)

(* A poll takes from the tape only between bytes. *)
BetweenBytes_Early == u.bitcount <= 1  \* mutant: one bit early
BetweenBytes == u.bitcount = 0

PolledRegisters ==
  LET begun == CountSend([u EXCEPT !.break = FALSE])
  IN  ShiftBit(IF BetweenBytes
               THEN TakeFromTape(DetectTone(Latch(begun)), Polled)
               ELSE CountBit(begun))

PollTape ==
  IF tape.pauseit
  THEN /\ u' = TakeFromTape([u EXCEPT !.break = FALSE], Polled)
       /\ tape' = Polled.tape
  ELSE /\ u' = PolledRegisters
       /\ tape' = IF BetweenBytes THEN Polled.tape ELSE tape

-----------------------------------------------------------------------------
(* The CPU loop *)
CpuRuns == fast = 0
ControlUnchanged == UNCHANGED <<loaded, tapeon, tapeout, serialIrq,
                                bank, writes>>

(* After an instruction; the cycles it took are the model's unit. *)
Instruction ==
  /\ CpuRuns
  /\ \/ /\ tapewrite > 1
        /\ tapewrite' = tapewrite - 1
        /\ UNCHANGED <<u, tape>>
     \/ /\ tapewrite <= 1
        /\ tapewrite' = tapewrite - 1 + BitLength
        /\ PollTape
  /\ UNCHANGED fast /\ ControlUnchanged

(* reallyfasttapepoll, when the CPU is seen waiting for the tape *)
BeginFast ==
  /\ CpuRuns /\ Fast
  /\ tapewrite + FastPolls * BitLength <= MaxCredit
  /\ fast' = FastPolls
  /\ UNCHANGED <<u, tape, tapewrite>> /\ ControlUnchanged

FastPoll ==
  /\ fast > 0
  /\ PollTape
  /\ tapewrite' = tapewrite + BitLength
  /\ fast' = IF u'.break THEN 0 ELSE fast - 1
  /\ ControlUnchanged

-----------------------------------------------------------------------------
(* writeula and readula *)
TapeUnchanged == UNCHANGED <<tape, loaded, fast, serialIrq>>

WriteEnable ==
  /\ CpuRuns
  /\ \E mask \in Masks : u' = UpdateInts([u EXCEPT !.ier = mask])
  /\ UNCHANGED <<tapeon, tapeout, tapewrite, bank, writes>> /\ TapeUnchanged

WriteData ==
  /\ CpuRuns /\ writes < MaxWrites
  /\ writes' = writes + 1
  /\ \E val \in Values :
       LET sending == [u EXCEPT !.sbitcount = DataBits + 1, !.bitcount = 0,
                                !.tapedat = val * 4 + 1, !.clean = FALSE]
       IN  u' = IF tapewrite < BitLength THEN Clear(sending, {"send"})
                ELSE sending
  /\ tapewrite' = IF tapewrite < BitLength THEN BitLength ELSE tapewrite
  /\ UNCHANGED <<tapeon, tapeout, bank>> /\ TapeUnchanged

(* Interrupts are cleared and a ROM is selected by the same register. *)
SelectRom(b) ==
  [ rombank |-> b,
    extrom |-> IF b >= 12 THEN TRUE
               ELSE IF b \in 8..11 THEN FALSE ELSE bank.extrom,
    intrombank |-> IF b \in 8..11 THEN b ELSE bank.intrombank ]

WriteClear ==
  /\ CpuRuns
  /\ \E cleared \in SUBSET {"vbl", "rtc", "hightone"} : u' = Clear(u, cleared)
  /\ \E b \in Roms : bank' = SelectRom(b)
  /\ UNCHANGED <<tapeon, tapeout, tapewrite, writes>> /\ TapeUnchanged

WriteControl ==
  /\ CpuRuns
  /\ tapeon' \in BOOLEAN /\ tapeout' \in Outputs
  /\ UNCHANGED <<u, tapewrite, bank, writes>> /\ TapeUnchanged

ReadData ==
  /\ CpuRuns
  /\ u' = Clear(u, {"receive"})
  /\ UNCHANGED <<tapeon, tapeout, tapewrite, bank, writes>> /\ TapeUnchanged

(* resetula: the irq line is left as it was *)
ResetUla ==
  /\ CpuRuns /\ Resets
  /\ u' = [u EXCEPT !.isr = {}, !.ier = {}]
  /\ tapeon' = FALSE /\ tapewrite' = 0
  /\ UNCHANGED <<tapeout, bank, writes>> /\ TapeUnchanged

-----------------------------------------------------------------------------
(* The display raises its interrupts, the serial interface its line, and    *)
(* the user handles the tape.                                               *)
RasterInterrupt ==
  /\ CpuRuns
  /\ \E source \in Raster : u' = Raise(u, source)
  /\ UNCHANGED <<tapeon, tapeout, tapewrite, bank, writes>> /\ TapeUnchanged

SerialInterrupt ==
  /\ CpuRuns /\ Plus1
  /\ serialIrq' = ~serialIrq
  /\ UNCHANGED <<u, tape, loaded, tapeon, tapeout, tapewrite, fast,
                 bank, writes>>

LoadTape ==
  /\ CpuRuns /\ Reloads
  /\ tape' = Opened(tape.pauseit) /\ loaded' = TRUE
  /\ UNCHANGED <<u, tapeon, tapeout, tapewrite, serialIrq, fast, bank,
                 writes>>

CloseTape ==
  /\ CpuRuns /\ Reloads
  /\ loaded' = FALSE
  /\ UNCHANGED <<u, tape, tapeon, tapeout, tapewrite, serialIrq, fast,
                 bank, writes>>

-----------------------------------------------------------------------------
CpuLoop == Instruction \/ BeginFast \/ FastPoll
Cpu == WriteEnable \/ WriteData \/ WriteClear \/ WriteControl
       \/ ReadData \/ ResetUla
Others == RasterInterrupt \/ SerialInterrupt \/ LoadTape \/ CloseTape

Next == CpuLoop \/ Cpu \/ Others

Spec == Init /\ [][Next]_vars

(* The CPU loop counts every instruction's cycles and ends a really fast    *)
(* loop before the next; the display goes on for ever.                      *)
FairSpec ==
  Spec /\ WF_vars(Instruction) /\ WF_vars(FastPoll) /\ WF_vars(RasterInterrupt)

-----------------------------------------------------------------------------
TypeOK ==
  /\ u \in Registers
  /\ tape \in Player /\ loaded \in BOOLEAN
  /\ tapeon \in BOOLEAN /\ tapeout \in BOOLEAN
  /\ tapewrite \in 0..(MaxCredit + BitLength)
  /\ serialIrq \in BOOLEAN
  /\ fast \in 0..FastPolls
  /\ bank \in [rombank : 0..15, extrom : BOOLEAN, intrombank : 0..15]
  /\ writes \in 0..MaxWrites

(* An interrupt that is pending and enabled is never missed: the line is up *)
(* and bit 0 of the status register says so, after every handler, whatever  *)
(* the serial interface does.  (updateulaints and all that change isr, ier) *)
InterruptSeen == Wanted(u) => u.irq /\ "master" \in u.isr

(* A byte and a tone are never announced together: the flag of one is gone  *)
(* when the other's is raised.  (polltape, the counts of writeula and       *)
(* receive)                                                                 *)
ByteOrTone == ~({"receive", "hightone"} \subseteq u.isr)

(* No byte of the tape is skipped: the one latched next is the one before   *)
(* again, its successor, or the first of the tape started over, however the *)
(* motor runs and whatever the CPU writes to the data register.  It need    *)
(* not hold when plain data follows a short tone, nor when the cassette is  *)
(* switched to output within a byte.  (polltape, polluef, receive)          *)
NoByteSkipped ==
  [][u'.latchno # u.latchno => u'.latchno \in {1, u.latchno + 1}]_vars

(* A byte of an undisturbed tape is latched exactly when its own bits fill  *)
(* the shift register, if no plain data follows a short tone.               *)
(* (polltape: bitcount, taperecdat, tapedat, recdat)                        *)
LatchedInStep ==
  [][u.clean /\ u'.latchno # u.latchno => u'.tapelatch = u.tapedat \div 4]_vars

(* A tape that plays on is read to its end, and with NoByteSkipped every    *)
(* byte of it, unless the user keeps starting it over.  (polltape, polluef) *)
TapeIsRead ==
  <>[](tapeon /\ ~tapeout /\ loaded) /\ <>[][~LoadTape]_vars
    => []<>(u.latchno = BytesOnTape)

(* The serial interface's line gets to the CPU, and the CPU's line drops    *)
(* once nothing asks for it.  (updateulaints, called for every frame)       *)
LineFollows ==
  /\ (Plus1 /\ serialIrq) ~> (u.irq \/ ~serialIrq)
  /\ (u.irq /\ ~Wanted(u) /\ ~serialIrq)
       ~> (~u.irq \/ Wanted(u) \/ serialIrq)

=============================================================================
