# Elkulator, specified and verified

TLA+ modules for Elkulator, the Acorn Electron emulator in `src/`, with TLC
configurations that check them on small instances and proofs for the TLA+ proof
system. Paths below are relative to the repository; `serial.c` stands for
`src/src/serial.c`, and so on.

Elkulator is one thread. `exec6502` (6502.c) runs the emulated processor for a
number of frames; after every instruction it counts down the timers of the disc
controller, and every 128 cycles it lets the ULA (`yield`) catch up, which draws,
raises interrupts, and clocks the cassette; the serial interface is polled from
the same loop. Between frames the main loop mixes sound and disc noise and the
menus of the user interface change configuration, discs and tapes. So what is
concurrent is not threads. It is the emulated program, the timers, the user,
and the program at the other end of the serial socket, each of which acts
between any two steps of the others, on state held in the global variables of
some twenty files that rarely ask what the other files are in the middle of.
Those interleavings are what this project is about.

## Inventory

| part | files | state it keeps | operations | meets |
|---|---|---|---|---|
| Serial interface | serial.c, socket.c | two channels (receive FIFO, shift registers, THR, status), shared cycle counters, ISR/IMR, output port | register reads and writes, reset, poll | CPU; ULA (`serial_irq`); socket |
| Disc controller | 1770.c | command, track, sector, data, status, motor, two timers | register reads and writes, callbacks from timers and disc images | CPU loop (timers); disc.c |
| Drive table | disc.c | a handler and image per drive, `discmotor`'s timing, countdown of a drive without a handler | load, close, seek, read, write, read address, format, poll | 1770.c; ssd.c, adf.c, fdi.c; menus |
| SSD/DSD images | ssd.c | file, track buffer and its track per drive; flags of the operation in progress | as above | 1770.c; files |
| ADF/ADL, FDI images | adf.c, fdi.c, fdi2raw.c | as above | as above | 1770.c; files |
| Drive noise | ddnoise.c | sample playing, its position, last track | seek, spin up and down, mix | ends seeks of the controller |
| CPU | 6502.c | registers, flags, `irq`/`nmi`, cycle budget | an instruction; interrupt entry; memory access with ULA contention | every device |
| ULA, interrupts and cassette | ula.c | ISR, IER, control registers, shift register | register reads and writes, `polltape`, `reallyfasttapepoll` | CPU `irq`; uef.c, csw.c; serial_irq |
| ULA, raster | ula.c | scan line, column, screen address, palette | `yield` | CPU (contention), interrupts |
| Tape images | uef.c, csw.c | position, chunk being played | open, close, poll, catalogue | ULA |
| Memory | mem.c | RAM, ROMs, paging, Master RAM board, turbo | read, write, reset, load ROM | CPU, ULA |
| Save states | savestate.c | nothing of its own | save, load | CPU, ULA, memory |
| Configuration, menus | config.c, linux-gui.c, win.c, main.c | options | load, save, menu entries | everything |
| Plus 1 | adc.c, parallel.c, firstbyte.c | conversion countdown and value | read, write, poll | CPU loop; host |
| Sound, tape noise | sound.c, soundopenal.c, tapenoise.c | buffers | fill, mix | host |
| Debugger | debugger.c | breakpoints, step count | hook before an instruction | CPU |
| Video filters, key tables | 2xsai.c, scale2x.*, palfilt.c, *-keydefine.c | none | pure functions, dialogs | host |

`PROJECT.json` lists for each part whether it is modelled, and under `hazards`
what in it is hard to test.

### What is hard

* **The CPU between any two polls.** Devices are polled from the CPU loop; the
  program may write any register between two polls, in the middle of a
  character, a sector or a tape byte. None of the devices locks anything.
* **State in several places that must stay in step**: a data register and its
  request bit, a ring and its full and empty flags, a bit count and a shift
  register, a motor and its status bit.
* **Operations of one file completed by another.** A head movement ends when a
  sound sample does; a command ends by a timer that only runs while a motor is
  on; the flags of a transfer live in `ssd.c`, where no command of `1770.c`
  clears them.
* **The user.** Discs and tapes are swapped, protected and ejected, and options
  switched, between any two steps.
* **The peer** writes to the socket at its own pace.
* **Limits**: the receive FIFO, the catch-up counters of the serial interface,
  the cycle credit of the fast tape.

### What makes each part correct

* *Serial interface*: characters are received and sent in order, once, and
  those accepted are sent; status bits, interrupts and RTS agree with the FIFO;
  a poll returns.
* *Disc controller and images*: each byte moved is the byte it should be;
  tracks are not mixed; a protected disc is never written; every command ends;
  status bits are truthful.
* *Cassette and ULA interrupts*: no byte is skipped, each is latched with its
  own bits; an enabled interrupt is never missed and the line drops afterwards;
  a tape that plays is read to its end.
* *Raster*: the interrupts of a frame in their order, one frame after another
  for ever, whatever the CPU does to its cycles; only RAM is displayed; no two
  bytes look alike.
* *CPU*: every opcode does what its digits say in the cycles they say;
  interrupts are entered on a fresh sample, and a line that stays up is taken.
* *Memory and save states*: what was saved is what is loaded, everywhere the
  machine can read, whatever options changed in between.
* *Startup and configuration*: options and files get the values meant for them,
  settings survive being saved, and a file fits the disc it is taken for.

## Modules

| module | models | extends |
|---|---|---|
| `ReceiveQueue` | the abstract specification of a receiver: a bounded queue with one more character waiting behind it | |
| `SerialChannel` | one DUART channel as records and operators: receiver with its three-place ring, transmitter, the commands on each | |
| `Duart` | the two channels, counters, socket, registers, poll and interrupt line; each receiver implements a `ReceiveQueue` (`ImplementsQueue`) | `SerialChannel` (instance of `ReceiveQueue`) |
| `MCDuart` | the command values of the runs | `Duart` |
| `DuartProofs` | lemmas on a receiver, theorems about `Duart` | `Duart`, `TLAPS` |
| `Wd1770` | the controller as a record and operators: commands, data register, callbacks, errors | |
| `SsdDisc` | controller, drive table, two SSD drives, noise, CPU, timers and user | `Wd1770` |
| `MCSsdDisc` | the commands and bytes of the runs | `SsdDisc` |
| `Wd1770Proofs` | lemmas on the operators of the controller | `Wd1770`, `TLAPS` |
| `SsdDiscProofs` | theorems about `SsdDisc` | `SsdDisc`, `Wd1770Proofs` |
| `Uef` | the UEF player as a record and operators: one poll of each kind of chunk | |
| `Ula` | interrupts, cassette registers, CPU loop, user | `Uef` |
| `UlaProofs` | theorems about `Ula` | `Ula`, `TLAPS` |
| `MCUla` | the tapes of the runs | `Ula` |
| `Raster` | the counters of `yield` as a record and operators: a cell, a row, a line, a frame | |
| `Screen` | the display under a program that writes mode and start address, and a user who resets | `Raster` |
| `Frame` | the abstract specification of a display: clock, blank, next frame, for ever | |
| `Machine` | CPU, display and the interrupt line between them: `exec6502` with `yield`, `waitforramsync` and the end of `runelk`; implements `Frame` (`ImplementsFrame`) | `Screen` (instance of `Frame`) |
| `MachineProofs` | theorems about `Screen` and `Machine` | `Machine`, `TLAPS` |
| `MCMachine` | a raster and a program | `Machine` (instance of `Instructions`) |
| `Adder` | `ADC` and `SBC`, binary and decimal | |
| `Instructions` | every opcode: registers, bus, samples of the interrupt lines | `Adder` |
| `Decode` | what an opcode should do, from its digits | `Instructions` |
| `Picture` | pixels and palette | |
| `Memory` | memory map, expansions, menus that plug them, saved states | |
| `AdfDisc` | double density discs under a driver | `Wd1770` |
| `AdfDiscProofs` | theorems about `AdfDisc` | `AdfDisc`, `Wd1770Proofs` |
| `FdiDisc` | discs of raw tracks, single and double density, under a driver | `Wd1770` |
| `Csw` | a CSW tape: half waves, bits, bytes | |
| `CswProofs` | theorems about `Csw` | `Csw`, `TLAPS` |
| `Startup` | command line, settings, choice of a disc format | |
| `PartsProofs` | theorems about `Adder`, `Startup` and `Memory` | `Adder`, `Startup`, `Memory`, `TLAPS` |
| `MCParts` | the seven parts that do not act on each other, side by side | `Screen`, `Decode`, `Memory`, `AdfDisc`, `Csw`, `Startup` (instances of `FdiDisc`, `Picture`) |

Devices follow one scheme: the record of a device and one operator per
function of the code below, and above it the variables, an action per thing
that can happen between two steps of the others, and the properties. A function
of the code that calls others is one action that composes their operators, so a
handler is never split. Names are the code's. An operator named `X_Something`
and marked *mutant* is `X` with a plausible mistake in it; nothing uses it, it
is there to show that a property would notice.

### Serial interface

`rx[c]` and `tx[c]` are the two halves of the code's `struct channel`;
`data`, `front`, `back`, `empty` are its `rhr_fifo`, `rsr` and `occupied` the
receive shift register, `THR`, `THR_set`, `tsr` the transmitter's. A character
is a number, a register holds a *cell* of a number and how many of its bits it
has. `PollSerial` starts a poll with some cycles; `ReceiveStep`, `ReceiveDone`,
`TransmitStep` and `TransmitDone` are the iterations of the catch-up loops, for
channel A and then for channel B. They are separate steps because the peer can
write between two of them; the CPU waits meanwhile (`phase`). `arrived`,
`taken`, `written`, `sent` and `lastRead` number characters and are history.

### Discs

`w` is `wd1770` with `fdctime` (what its callback will do, or nothing) and the
spin-down. `op` holds the flags and counters of `ssd.c`. `DiscPoll` is one
`disc_poll` from the CPU loop, `FdcTimer` and `SpinTimer` its countdowns that
reach 0, `MixNoise` the end of a sample. A write-back goes through
`WriteBack` as in the code, when the last byte of the sector is in the buffer:
the whole buffer goes to the track of the operation, whatever it holds. An image
is a file of any length. From its end on `Read` leaves in the buffer what was
there before, as `fread` does, and `Written` fills what the file lacks before
the track with zeros. The CPU may write any of `SectorNumbers` to the sector
register, and a read address puts the number of the track there; nothing looks
at the number before it is an index into the buffer. C does not say what happens
outside, so the model stops there (`WithinBuffer`).
`moved` remembers the bytes of the current command and is history.

### Cassette and interrupts

`u` holds the ULA's interrupt and cassette registers and the CPU's `irq`;
`tape` the static variables of `uef.c`. `PollTape` is all of `polltape` with
the `polluef` it calls and the `receive` or `intula` that `polluef` calls;
`Instruction` is the CPU loop's countdown after an instruction, in which a poll
may fall; `FastPoll` is one iteration of `reallyfasttapepoll`, between which
nothing else runs (`CpuRuns`). `recno`, `latchno`, `clean` and `given` are
history. The code's 8 is `DataBits`: its 9, 8, 7 and 0x3FF are `DataBits + 1`,
`DataBits`, `DataBits - 1` and `AllOnes`.

### CPU, display and interrupts

`Machine` has the two clocks of the code: `cycles`, which every access of an
instruction advances, and `ulacycles`, which `yield` brings up to it when the
instruction samples its interrupt lines and when it ends. `Display_Tick` is one
iteration of `yield`'s inner loops; nothing of the CPU happens between two of
them, as in the code. An instruction is a *shape*: its steps on the bus and the
i flag it leaves. `MCMachine` takes the shapes from `Instructions`, so the
program consists of real opcodes; the places they read and write, and so the
waits for RAM, are chosen freely. `Fetch`, `Access`, `Charged` and the four
`Write` actions are its steps, `DoInts` the sample, `Enter` and
`EndInstruction` what follows the instruction, `EndSlice` the return from
`exec6502`, and the user's resets follow in `runelk`. `fresh` and `event` are
history.

`Instructions` gives for each opcode a record of the registers it leaves and
the sequence of its bus steps: a definition per addressing mode and operation,
where the code has a case per opcode. `Decode` is written from the regularity of
the instruction set and knows nothing of those cases.

### Memory, discs, tapes, options

`Memory` has one cell for each 16K block of a state file, and reads name the
chip that answers, so a property can say that the same thing is read from the
same place. `AdfDisc` uses the controller of `Wd1770` as `SsdDisc` does, for
images of several formats. In `FdiDisc` a step of `Poll` is the 16 polls in which
a word passes the head, a byte or one of the words that begin a field; `op` is
the flags, counts and buffers of `fdi.c`, and the words come from the
environment, which computes each checksum from the bits of its field while
`fdi_poll` uses the table of `setupcrc`. `Csw` takes a tape as what it
holds, tones and bytes; `Image` lays it out as half waves, long or short, and
`HalfWave` decodes one of them as `csw.c` does. `Startup` has the command line
as a list of words, `ParserAfter` as the flags of `initelk` once it has taken
them, word by word (`Take`), the settings as lines of a file, and `LoadDisc` as
the choice by size.

## Runs

| run | instance | shows |
|---|---|---|
| `receive` | one channel, 5 characters of 2 bits, every receiver command, both interrupt modes, resets | types; `FlagsFollowFifo`, `ReceivedInOrder`; the refinement `ImplementsQueue` |
| `transmit` | one channel, 4 characters, every transmitter command, TxCTS, resets | `SentInOrder`, `TransmitHandshake` |
| `steady` | one channel, enabled once, masks | `NothingLost`; live: `AcceptedIsSent`, `ArrivedIsTaken`, `PollReturns`, `InterruptFollows` |
| `two` | two receivers, one socket | `NoCharacterOnBothChannels` |
| `held` | as `receive`, without the disables | *violated*: `HeldCharacterKept` |
| `driver` | one drive, three tracks of two sectors of two bytes, an image that ends within the second, a driver that waits and serves | types; `TracksNotMixed`, `TransferInStep`, `FormatBlanks` |
| `ends` | one drive, three tracks of three sectors of a byte, steps, longer seeks and every transfer, a driver as above | live: `CommandEnds` |
| `any` | two drives, one disc, a driver and a user who do anything | `MotorBit`, `MotorOnWhileBusy`, `RequestOnlyWhileBusy`, `ProtectedDiscUnchanged` |
| `tape` | a tape of every kind of chunk, bytes of two bits, motor, data register, rewinding, removing, really fast loops | types; `ByteOrTone`, `NoByteSkipped`, `LatchedInStep`; live: `TapeIsRead` |
| `irq` | masks, display and serial interrupts, resets | `InterruptSeen`; live: `LineFollows` |
| `machine` | a display of three cells and four or five lines, programs of BRK, RTI, CLI, STA and BNE, writes to the interrupt and mode registers, a reset of each kind | types; `IrqFresh`; live: `InterruptTaken`, and the refinement `ImplementsFrame` |
| `parts` | seven parts, each alone | types; `InstructionsRight`, `DisplayRight`, `LoadedReadsAsSaved`, `AdfInStep`, `FdiInStep`, `CswInOrder`, `StartupRight` |

`parts` is one run for the parts that do not act on each other; a behaviour is
one of a single part. It asks:

* *tables*: each of the 256 opcodes with the registers, flags and memories of
  `Trials` and `Memories` against `Decode` (registers, writes, cycles, sample);
  decimal addition and subtraction of all pairs of two-digit numbers; the pixels
  of every byte in every mode; every bit of the palette registers.
* *display*: mode and start address written in any cell of the picture.
* *memory*: four steps of menus, program and resets between saving and loading.
* *disc*: three formats, one of them double stepped; a driver reads, writes,
  formats and reads addresses. A write that ends is of one block, and a format
  of the double stepped disc goes to the track half as far in.
* *raw*: a disc of each density with sound and bad identifiers and data, sectors
  of two sizes, one of another track and one with deleted data; a driver tries
  every command in both densities, from the gap and from within a field.
* *tape*: an empty tape, and two items after a tone, normal and fast, opened
  again at any time.
* *options*: three options of the command line or changed settings, in any
  order, with two file names and two numbers, and the settings saved and loaded
  in between; every image size up to 1024K against the disc it is taken for.

The violated property is the code's own documents': the comment at
serial.c:868-871 says that a character behind a full FIFO waits in the shift
register and is lost, as an overrun, only when overwritten. The code fills that
register and then clears it (serial.c:936).

### Bounds, and why they are enough

* Serial: five characters fill the three places, the shift register and one
  more; a second character in flight shows every reordering. Characters of two
  bits have a first, and a last bit that is not the first. The counters are
  ints of the range -4..3: they pass 0, the period, and their limit. Polls of 1
  and 2 cycles with periods of 1 and 2 give no, one and two bit times a poll.
  Two channels are run with one-bit characters: what they share is the socket
  and the counters, not the bits.
* Discs: two tracks to mix and a third that is not in the file, two sectors to
  address wrongly, two bytes for a first and a last that differ; two drives for
  what is selected and what is written to differ. The image of `driver` ends one
  byte into its second track, so a seek reads all, a part and none of a track.
  Each of its bytes is a number of its own, and the byte written (`CpuBytes`)
  differs from them and from the blank. `ends` has three tracks for a seek of
  more than one; bytes play no part there, so all are 0. `any` needs one byte a
  track: it only asks whether the image changes, and the proofs cover every size
  and content. The polls until "not found" are 1 or 2 instead of 500 and 10000:
  only reaching 0 matters. The head goes to tracks up to `MaxTrack` and a
  transfer names one of them (`InBound`).
* Tape: bytes of two bits, so the register has four, and the counts 0 to 3 are
  the ones the code tests for. A bit time of two cycles has an instruction
  that polls and one that does not, and the loop of two polls one that breaks
  early. `MaxCredit` bounds the cycles a really fast loop runs ahead, and
  `MaxWrites` the bytes the CPU sends.
* Machine: a picture of two cells and a border of one; modes 0 and 6 are one of
  each width, with pictures that end at different lines; every other frame is a
  line longer. A slice of two cycles ends inside every instruction. The five
  opcodes are the ways to sample: never (BRK, whose i flag is set), before the
  last access, with the i flag cleared by the instruction or by what it pulls,
  and in a branch. One RAM interface is enough for the order of events, since
  waits only lengthen instructions; the proofs have all three. One reset shows
  each kind in every state at the end of a slice.
* Parts: the display has a RAM of 24 bytes, rows that end where it ends, and
  modes of different lengths. The memory starts with the Master RAM board, a
  disc drive and a Plus 1 and takes four steps: plug, write, save and load, in
  any order. The discs have tracks of four bytes as two sectors of one block or
  one of two. A raw track has two sectors of one and two bytes; four commands
  reach a command after one that failed after a seek. A CSW byte has three bits, a first, one in the middle and a
  last; polls of ten half waves begin and end everywhere in it. Two file names
  and two numbers show an option that gets another's value, and that the last
  of two wins.
* The `irq` run gives all masks of none and all sources: `updateulaints` only
  asks whether the intersection is empty.

What the runs leave out on purpose: MR1 is written while the receiver is off
and empty (`ModesFirst`); a polite driver in `driver` and `ends` (`Polite`: it
gives commands and writes registers only between commands, and serves each
request before the next poll; which sector it names is not restricted by this); the
cassette is not switched to output while it plays (`Outputs`); the mode is
written in the first line only where frames are counted (`ModeLines`); state
files are compared on machines wired alike (`Wired`). What the code
does otherwise is under *Behaviour worth knowing*.

### Fairness

The emulator is a loop that runs until the program ends, so weak fairness of
what the loop does unconditionally is justified: polls and their iterations
(`Poll`), the timers (`DiscPoll`, `FdcTimer`, `MixNoise`), instructions and the
polls of a really fast loop (`Instruction`, `FastPoll`), the display's
interrupt (`RasterInterrupt`), and in `Machine` the loop as a whole (`Cpu`): of
its actions only one at a time is possible, apart from what the program
chooses. That the display goes on for ever, the fairness of `Frame`, follows
from it. In the runs with a polite driver a poll waits
until the driver has served the last request, so `FairSpec` of `SsdDisc` also
asks the driver to serve what it sees (`ReadData`, `WriteData`): that is what
polite means, and the code's driver ROM does it in an NMI. Nothing is assumed of the user, the peer or
any other register access; `TapeIsRead` says itself that the user stops
rewinding. There is no strong fairness.

## What is proved

**`MachineProofs`**, for every raster, table of modes, set of start addresses,
program, RAM interface and length of a slice:

* `PictureKept` is `PictureInRam`, which `parts` checks in `DisplayRight`. The
  code steps back at most once when an address runs past the RAM, so what has to
  be known is how far it can run: `addr` is below the top of RAM, the cells of a
  row are fewer bytes than a screen, and `sc`, which no longer meets the height
  of a row after a change of mode, is still bounded, by the lines of the frame.
  That bound is what `ScreenInv` adds to the types: `sc <= y`
  (`ScreenCorrect`).
* `MachineIsScreen`: the machine implements `Screen`, so the above holds of it.
* `MachineTypeCorrect` is `TypeOK`. That no counter goes below 0 takes `TimeOK`:
  when an instruction is fetched the display has caught up, and before the first
  reset it is never ahead, so a slice can be taken off both.
* `HandlerEnteredFresh` is `IrqFresh`, from the hypothesis `SampledOrMasked`:
  every instruction samples the lines or leaves interrupts disabled. `parts`
  checks that hypothesis of all 256 opcodes (`SamplesLines`). The invariant
  `FreshInv` says of an instruction on its way that the sample was taken, is to
  come, or is not needed.
* `FramesKept` is the safety half of `ImplementsFrame`: initial states map to
  initial states and each step to a step of `Frame` or to none, from the
  hypothesis that the mode is written above the line of the clock
  (`ModesAbove`). Its invariant `FrameInv` says that the picture is off in the
  blank. Without the hypothesis it is false, as said below.

**`PartsProofs`** has the theorems of three parts that do not meet. Of `Adder`,
for a byte of any width: `AdditionRight` and `SubtractionRight` say that `ADC`
and `SBC` in binary compute sum and difference with carry, zero, sign and
overflow of arithmetic, and where `SBC` does not: the overflow flag when the
operand is the largest positive number and there is a borrow.

Of `Startup`, for any file names, numbers and lengths of the command line:

* `StartupIsRight` is `StartupRight`. The invariant `StartupInv` says that
  between two options the parser waits for nothing (`Quiet`) and has given every
  option its value. The flags of `initelk` outlive a turn of its loop, that of a
  tape even by counting down, so each kind of option has a lemma on what the
  words behind it leave. That a bank is a number below 16 is part of the option;
  what happens otherwise is said below. For the settings, `NoEarlier` says that
  no name begins an earlier line of the file, so each is found at its own line
  (`SavedIsLoaded`), and `ImagesFit` is the arithmetic of sizes, for files of
  any size.
* `StartupTypeCorrect` is `StartupTypeOK`, also of `want`, what the options
  should get: a restart leaves a value for every setting.

The parser is a recursive function of the line. What it computes of a longer
line follows from what it has computed of the shorter (`ParsesExists`,
`ParserAfterIs`); the library's theorems on recursion take an operator and
cannot be used, so this rests on the well-foundedness of `<`, applied to sets
(`UpTo`).

Of `Memory`, for all configurations and sideways banks, and behaviours of any
length:

* `StateRestored` is `LoadedReadsAsSaved`. The invariant `SavedOnce` says that
  the file and what is remembered of its saving are of one and the same machine,
  some options and some memory; with them a load is a function of what was saved
  and what it is loaded into. `SavedCells` gives the place of each memory in the
  file, `LoadMemRestores` that a load with the same options finds them there,
  and `ReadsBack` goes through the memory map.
* `MemoryTypeCorrect` is `MemTypeOK`.

The proof found the property wrong as it stood, in behaviours longer than those
of the run: a state can be saved on a machine that is not wired as its options
say, because a load brings options without their wiring. Then the file lacks
memory that is read. Hence `WiredFor` in the property; see *Behaviour worth
knowing*.

**`DuartProofs`**, for any number of channels, characters of any width, every
set of commands and modes and every bound:

* `TypeCorrect` is `TypeOK`; the lemmas on a receiver say what each
  operator of a receiver leaves, in type, fields and contents of the ring.
* `StatusCorrect` is what no driver can break. `StatusShowsFifo`, a part of
  `FlagsFollowFifo`: RxRDY is up over every FIFO that has data, FFULL over every
  full one. The converse does not always hold: a reset of the receiver empties
  the FIFO and leaves RxRDY up (serial.c:649). `StatusKeptExact` says that this
  is the only way: while both flags say exactly what the FIFO holds
  (`StatusExact`), each step that is not such a reset keeps it so, and a read of
  the FIFO makes it so again. Nothing is said of the overrun flag. `StatusKeptExact`
  is proved only; no run has it. `FlagsCorrect` is all of it, with the interrupt flag and RTS, from two
  hypotheses on the driver. `ModesFirst`: MR1 is written while the receiver is
  disabled and empty, for a condition chosen over data is raised by the next
  push or read only. `OutputPort \subseteq {TRUE}`: RTS is not cleared by
  hand. The invariant is per channel and inductive as it stands (`Shown`,
  `Raised`).
* `QueueImplemented` is `ImplementsQueue`, the refinement of `ReceiveQueue`:
  the initial receiver is the empty queue, and each operator of the receiver is
  one step of the queue or none (`QueueSteps`), which is read off the ring with
  its front, its back and its empty flag.
* `HandshakeCorrect` is `TransmitHandshake`, without hypotheses.
* `SentOrderCorrect` is `SentInOrder`. Its invariant `SendInv` orders what is
  sent, in the shift register, in `THR` and still to be written, and says that
  the shift register is only loaded from a full `THR`: bits left over from
  before a reset are not a character.
* `NothingIsLost` is `NothingLost`, if no command disables or resets the
  transmitter (`LeftAlone`); both drop what is on its way, as they should.
* `ReceiveOrderCorrect` is `ReceivedInOrder` and `ChannelsApart` is
  `NoCharacterOnBothChannels`, from `ModesFirst`. The invariant `ReceiveInv`
  orders what was read, the ring from front to back, the shift register behind
  it, the character being shifted in and the socket; and no two channels hold
  the same character anywhere. Only *whole* cells count: a character the
  receiver was disabled in leaves a part of itself, and a smaller size chosen
  over it would make the part look whole, hence `ModesFirst`.

**`SsdDiscProofs`**, for every number of tracks and sectors, every sector size,
all drives and discs, first with the driver and the user unrestricted:

* `TypeCorrect`, `MotorBitTrue`, `MotorHeld`, `RequestsAreForCommands` are the
  four invariants `TypeOK`, `MotorBit`, `MotorOnWhileBusy` and
  `RequestOnlyWhileBusy`. The inductive invariant `Inv` is `TypeOK /\ Sound(w)`,
  where `Sound` is the other three for one controller. They need each other:
  that a timer finds a command only with the motor on depends on the motor bit
  being what spin-up tests, and an error return may drop the request only
  because it also drops the command. Each operator of the controller keeps a
  record `Sound` (`Wd1770Proofs`); each stage of `ssd_poll` keeps a poll state typed and
  `Sound`; so the whole poll does, and the actions follow one by one.
* `ProtectedKept` is `ProtectedDiscUnchanged`. Each stage either leaves all
  images alone or is a write-back to the disc in a drive that is unprotected
  at that very byte (`Safe`), and stages compose.

Typing the buffers needs that a read or a write stays inside the track buffer.
That is the lemma `ReadsWithinBuffer`, from the guard `WithinBuffer` of
`DiscPoll`. A driver that interrupts operations can lead the code outside the
buffer, and so can a sector number the track does not have; there the behaviour
of C is undefined. The model stops, and the theorems speak of executions that
have not got there.

Under the hypothesis `Served` there is more: the driver gives commands only
between commands and serves each request before the next poll (`Polite`), and
the user leaves discs and the noise switch alone. Each part is needed. After a
Force Interrupt a stale byte or a stale flag is left for the next command; a
disc put in keeps the buffer of the one before; and a sample that goes on
silently while the noise is off ends whatever command runs when it is switched
on again.

* The invariant `Orderly` is the heart: an operation of ssd.c is in progress
  only for the command that the controller runs, in the drive and on the track
  selected, never two at once; a callback is due, a sample plays or a countdown
  to "not found" runs only for a command of the right kind. Nothing in the code
  ties the two modules together, they only never disagree.
* `TracksKeptApart` is `TracksNotMixed`, for images of any content and length
  (`Original`): each place an image came with a byte for holds, in the image and
  in a buffer that holds its track, that byte, one the CPU wrote, or the 0 of a
  format or of a buffer that nothing was read into yet. With bytes that all
  differ this says that none gets to another track or another place. Behind
  the end of a short image nothing is promised, as said below. Its invariant
  `OwnTracks` adds that what waits to be written is the CPU's (`Supplied`);
  `ReadOwn` says that a seek reads its own bytes, and the track test that a write
  back goes to the track the buffer holds.
* `TransfersInStep` is `TransferInStep`, for every sector size the history
  `moved` can hold (`Remembers`), and `FormatsBlank` is `FormatBlanks`: a format
  that is not refused ends with its whole track blank on the disc, also where
  the file had no such track. Their invariant `Steps` relates the position of
  the operation, the request, the data register, the history and the buffer at
  every moment of a transfer, so also between the poll and the register access
  that answers it.
* `BufferKept` is that `WithinBuffer` always holds, so that the guard stops no
  poll and ssd.c stays inside its track buffer, if besides `Served` the driver
  reads and writes only sectors that the track has (`NamesSectors`). This is
  asked of the driver because nothing in the code asks it: a read address alone
  puts the number of the track into the sector register.

**`AdfDiscProofs`**, for every set of formats, size of a block and number of
tracks and sectors, under the driver of `AdfDisc`:

* `AdfTransfersInStep` is `AdfInStep`. The invariant `AdfInv` is a list of the
  phases of a command, `Idle`, `Moving`, `Missing`, `Reading`, `ReadOver` and so
  on: each says what the controller shows, which operation of adf.c is in
  progress, and what has been read, written or blanked so far; one of them always
  holds. `St` is what the five stages of `adf_poll` pass on, the lemmas
  `...St` what one stage makes of it, `Poll...` what a whole poll leaves in a
  phase and `...Keeps` which phase comes next. That all formats share one poll
  takes arithmetic on sectors (`InTrack`, `SectorOf`), and the phase `Writing`
  knows where a longer sector stops for ever: past the byte the code takes for
  the last one there is neither a request nor a byte. So only sectors of one
  block reach the write-back, which `WriteInStep` says. A format of a double
  stepped disc does reach it, and the track, halved by the command (adf.c:211),
  is halved again there (adf.c:135): `FormatInStep` says that the side is blanked
  on the track half as far in, and that no other track changes. From then on
  the buffer and the image no longer agree (`Astray`), and `ReadInStep` says
  nothing of such a disc. The driver names sectors the track has
  (`SectorNumbers`): sector 0 of a disc that counts from 1 becomes -1
  (adf.c:156), outside the buffer.
* `AdfTypeCorrect` is `AdfTypeOK`, for the image remembered in `before` as well.

`AdfAssumption` is what adf.c and disc.c make of a file: its sectors fit in the
sector register, and 40 tracks are taken only with sectors of 512 bytes.

**`UlaProofs`**, for every tape, width of a byte, bit time, mask and bound:

* `UlaTypeCorrect` is `TypeOK`. Its invariant adds what the player relies on
  inside a chunk (`Inside`: the chunk is one of the tape's, its bytes are not
  used up, its gap is not over) and that a really fast loop has credit for the
  polls it has left (`Credit`). That a chunk to play is always found
  (`NextChunkType`) takes the least-number principle, from the well-foundedness
  of `<`.
* `EnabledInterruptsSeen` is `InterruptSeen`: each operator that changes flags
  or masks ends in `UpdateInts`, the others leave all three parts of the
  property alone.
* `ByteAndToneApart` is `ByteOrTone`. It is not inductive: a tone is announced
  when the bit count is 0 and the word is all ones, so one must know that a
  byte's flag is gone by then. `Counted` says so: while the flag is up the count
  is at its first two values, or a write of the data register has set it to 0
  and put a start bit at the end of the word, which is then latched and is not
  all ones.
* `BytesLatchedInStep` is `LatchedInStep`, from the hypothesis `Spaced`: no
  chunk of plain data follows a short tone or starts the tape. Its invariant
  says that while nothing but the tape touches the shift register, a stop bit,
  the start bit and the bits of the byte that have come are on their way down
  in it (`Frame`), and that these bits and those still in `taperecdat` make
  `recdat` (`Parts`). A step that shifts moves the frame by a bit
  (`FrameMoves`, `PartsMove`); with no bit to come it is a start bit at the end
  and the byte above.
* `BytesNotSkipped` is `NoByteSkipped`, from `Spaced` and that the cassette is
  not switched to output. The invariant `NextInv`: a byte that is not latched
  yet is the successor of the latched one or the first of the tape, some frame
  is in the register (`Upright`; the motor and the CPU may have changed its
  bits), and neither a tone nor a pause holds it up. So the poll that could take
  another byte latches it first. Both hypotheses are needed, as said below. The
  tape of the run `tape` is spaced.

**`CswProofs`**, for every set of tapes made of tones and bytes, bytes of any
width, polls of any number of half waves and either speed:

* `CswBytesInOrder` is `CswInOrder`: at normal speed a tape put in while the
  decoder was in a tone gives its bytes, each with its own bits, in order, and
  all of them by its end. An image is one long sequence, and `pollcsw` stops in
  it wherever ten half waves are over or a byte is handed over. So the proof
  first lays the image out: where each item ends (`ItemEnds`), where each bit of
  a byte begins (`ByteStarts`), and which half waves lie in between (`LaidOut`).
  The invariant `CswInv` then says of the decoder which place it has reached
  (`Follows`): in a tone or past the end; at a bit, with the bits before it
  shifted in (`Shifted`); at the stop bit; or just behind it. A half wave leads
  from one place to the next, so a poll of any length does, and so does opening
  a tape.
* `CswTypeCorrect` is `CswTypeOK`.

Two inductions over data are in it, over the items of a tape and over the bits
of a byte. They are done in the same way (`UpTo`, `Recursion`).

The assumptions are the named `ASSUME`s on the constants, which TLC evaluates in
every run. `PowerAssumption` (`Uef`) and `CswPowers` (`Csw`) are arithmetic, the
laws of powers, that the provers do not have.

Only model-checked, and why:

* Liveness: `AcceptedIsSent`, `ArrivedIsTaken`, `PollReturns`,
  `InterruptFollows`, `CommandEnds`, `TapeIsRead`, `LineFollows`,
  `InterruptTaken` and the fairness of `ImplementsFrame`. The prover has neither
  fairness nor `ENABLED`.
* `InstructionsRight`, and of `DisplayRight` pixels and palette. They are
  written with the bit operations of `Bitwise`, which is recursive and out of
  the provers' reach; the run tries all 256 opcodes, and all bytes in all modes.
  The addresses of the picture are `PictureKept`.
* `FdiInStep`, for the same reason: the checksums are exclusive ors. Nor is it
  true of every disc: two fields can have one checksum, a head that lands inside
  a field can take data for an identifier, and a read that met a bad identifier
  goes on by itself, as said below. The run has discs and places to land where
  no checksums meet.
* `PartsTypeOK` as one formula. Its parts for display, memory, double density
  disc, tape and options are theorems: `ScreenCorrect`, `MemoryTypeCorrect`,
  `AdfTypeCorrect`, `CswTypeCorrect`, `StartupTypeCorrect`.

## Behaviour worth knowing

What the models showed or led to, where no document says otherwise or no run
is spent on it:

* Serial. For a rate the table gives as 0 the period is `2000000 / 0.0`, an
  infinity converted to `int` (serial.c:462). Where that is the least `int` the
  catch-up loops need not end; Readme-serial.txt:86 says that such frequencies
  inhibit communication, and the comment at serial.c:887-888 speaks of ignoring
  unsupported rates. The runs take rates from 1. Resetting the receiver leaves RxRDY and its interrupt as they were
  (serial.c:649-658, against the comment at 558); disabling it keeps the bits
  received so far (521, against 873). Resetting the transmitter leaves TxRDY
  set, so a character written next is accepted by the status and dropped by
  `channel_write` (660). With both channels transmitting at one rate, channel A
  uses up the shared counter and channel B never sends (980, 1297). A smaller
  character size chosen in the middle of a character never compares equal and
  the receiver stops for good (912).
* Discs. `wd1770.written` survives an interrupted write, so a byte from before
  it can become the first of the next sector. Behind the end of a short image
  a seek leaves the bytes of the track before in the buffer (ssd.c:85), so they
  are read there, and the next write of a sector puts them on the disc with the
  rest of the buffer. The number of a sector is an index that nobody checks
  (ssd.c:203, 227): one the track does not have reads and writes beside the track
  buffer. Before the first seek the buffer is blank, and a write of a sector of
  track 0 blanks the rest of the track. A swapped disc keeps the track
  buffer of the old one until the next movement, and a write then copies that
  track to the new disc; a disc ejected in an operation leaves the command busy
  until Force Interrupt. A seek over more than one track ends when its sample
  does (ddnoise.c:151), and samples are played only while the noise is switched
  on: switched off in between, it takes the end of the movement with it, and the
  command stays busy for ever, though the readme offers the noise as a sound
  (readme.txt:99). `CommandEnds` is checked without that switch.
* Double density discs. A driver that only serves requests hangs in a write of
  sectors of 512 or 1024 bytes: at position 255 the last request is taken for
  the end of the sector (adf.c:264). Before the first seek nothing has been
  read, and a write then writes back an empty buffer. With double step the
  track is halved on the head movement, and of a format twice, when it begins
  and when it writes the track back (adf.c:211, 135): it blanks its side of the
  track half as far in, and takes the other side of its own track there. The
  number of a sector is not checked here either.
  Protecting the disc in the middle of a write leaves the new bytes in the
  buffer, where reads find them until the next movement. The sector of an
  address id is 1 but for the first id of a track (adf.c:286). The disc of the
  run has been moved to before and is either protected or not.
* Discs of raw tracks. A write in double density never ends: `fdi_writesector`
  sets `fdinotfound` (fdi.c:150), which nothing counts down. A bad identifier
  ends a read with the header error but leaves `fdiread` set, so the read goes
  on under later commands, and their addresses can begin in the middle of a
  field. A bad identifier met by a read of addresses leaves `fdireadaddr` set, so
  a later read is answered with identifiers. Deleted marks are known in single
  density only (fdi.c:363): a double density sector with one, or any sector
  without data, leaves `fdinextsector` set, and the next sector is counted as
  identifier and data at once. Before the first seek no track is loaded, and a
  command for it never ends. A read of addresses gives four of the six bytes.
* Tape. Switched to output while it plays, the cassette skips bytes: the shift
  register is filled with ones while the player goes on. Plain data that
  follows silence and a short tone loses its first byte: it is handed over in
  the pause, where no stop bit is shifted in, so it is never latched. The same
  goes for plain data that starts a tape rewound in a pause. In a gap after data the last byte is received again every ten
  polls, because the registers still hold it. Writing the data register makes
  the next poll latch the byte the tape gave last. In the pause, motor off or
  tape out, INT_SEND never comes (ula.c:436). Really fast loops add a bit time
  per poll to `tapewrite`, which only instructions count down: after a really
  fast load the tape and INT_SEND stand still until the CPU has caught up
  (ula.c:435).
  A CSW tape loses six pulses per bit when played fast (`tapespeed` other than
  0), so the bytes are not those of the tape, though readme.txt:45 offers fast
  loading; `opencsw` leaves the decoder where the tape before left it, and
  `closecsw` closes its file twice.
* CPU. `ADC (zp,x)` and `ADC (zp),y` take a cycle less than they should.
  `SBC` sets V wrongly for an operand of 7F with a borrow: the borrow is added
  before the sign is looked at. Decimal `ADC` sets z and n but never clears
  them. Undocumented opcodes of column B in the odd rows are skipped with the
  wrong length. Nothing raises the non-maskable interrupt.
* Display. A change of the mode between the lines where the pictures of modes
  end can skip a blank or give two. Several accesses to RAM in one instruction
  are each charged the rest of the line, since the display stands still in
  between; the comment at ula.c:840-842 describes one wait. A reset at the 24th
  frame of a fast load skips the test of `framecount` for 25, and nothing is
  drawn until the tape stops.
* Memory and saved states. After a reset the fast RAM is wired in as if it were
  mapped while `mrbmapped` says that it is not. Loading a state restores the
  options but not what follows from them: the place of the fast RAM, the banks
  enabled, the ROM inside, the page of FD. A state saved on such a machine lacks
  the memory whose option is off: with the fast RAM wired in and `mrb` off it
  is read and not in the file, and likewise the sideways RAM of `sndex` and DFS. The fast RAM of a turbo board is in
  no state file. A state saved before RAM bank 6 was written leaves the newer
  contents there when loaded, and drops them from the next file. The disc
  controller, the serial interface and the tape are in no state file and go on
  as they were.
* Startup. A setting is found by the beginning of its name, so `mrb` and
  `mrbmode` depend on their order in the file. `-rom` with a bank of 16 or more
  takes every later file for a ROM.
* Interrupts. `resetula` leaves `irq` as it was until the next update. While
  only the serial interface asks, bit 0 of the status register stays as it was.

## What is not modelled, and why

* Sound, tape noise, debugger, key tables, video filters: outputs or consoles
  that no other part reads.
* `fdi2raw.c`: third-party code that decodes a file to raw tracks; it is the
  environment of `FdiDisc`.
* The Plus 1's converter, printer port and joystick: three registers; only their
  addresses are in `Memory`.
* Host errors (files, sockets, allocation): the code hardly looks at them.
* Of the discs second sides of DSD and FDI images, ADF images shorter than their
  format, what an index outside a track buffer reads and writes, and the delays
  that only shift a poll in time; of the DUART parity, framing and
  break, never set by the code; of the ULA the sound, the power-on bit and
  `tapeoutwait`, which nothing here reads, and frames skipped in fast loads; of
  the keyboard the host's keys; of the menus those that only choose how to draw.
* What takes part in other models only as an input: which address an
  instruction of `Machine` touches, and when the peer of the serial interface
  writes.

## Plan

Left, the most important first:

1. *Proofs*: for `FdiDisc`, whose checksum must first be written without bit
   operations and whose discs must be those where no two fields share one; the
   abstractions below, step by step.
2. *Abstractions*, beside `ReceiveQueue` and `Frame`: a disc of sectors that
   `SsdDisc` and `AdfDisc` with a polite driver implement; a tape as a sequence
   of bytes that `Uef` and `Csw` implement.
3. *Composition*: the timers of `SsdDisc`, `Duart` and `Ula` under the
   instructions of `Machine`, with the two sources of the interrupt line.
4. *The rest*: the Plus 1's converter, the fast frames of the display.
