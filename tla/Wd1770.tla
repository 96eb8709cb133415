------------------------------- MODULE Wd1770 -------------------------------
(***************************************************************************)
(* The WD1770 floppy disc controller of src/1770.c, as operators on a      *)
(* record of its registers and of the three timers it shares with the CPU  *)
(* loop.  The disc formats (module SsdDisc) call the fdc... operators the  *)
(* way the code calls the function pointers reset1770 installs.            *)
(*                                                                         *)
(* The status register is the set of its bits.  "lost" is bit 2: lost data *)
(* after a data transfer, and head off track 0 after a head movement.      *)
(* "spinup" is bit 5.  The two countdowns fdctime and motorspin are kept   *)
(* as what they will do, not as how many cycles are left: fdctime is       *)
(* "none", "seek" (a head movement ends) or "finish" (the 200 cycles after *)
(* a transfer); motorspin tells whether the spin-down countdown is running.*)
(***************************************************************************)
EXTENDS Integers

CONSTANTS
  MaxTrack,   \* the last track of a disc
  MaxSector,  \* the last sector of a track
  Bytes       \* what the data register can hold (0..255 in the code)

Tracks == 0..MaxTrack
Sectors == 0..MaxSector
Blank == 255                     \* what getdata1770 gives when idle

ASSUME RegisterAssumption ==
  /\ MaxTrack \in Nat /\ MaxSector \in Nat
  /\ Tracks \subseteq Bytes /\ Sectors \subseteq Bytes
  /\ Bytes \subseteq 0..255 /\ {0, 1, Blank} \subseteq Bytes

StatusBit == {"motor", "wprot", "spinup", "notfound", "crc", "lost", "drq",
              "busy"}

(* The commands by the high nibble of their code; the odd step commands    *)
(* also update the track register.  0 is the value before any command.     *)
SeekCommands == {"restore", "seek", "step", "step+", "in", "in+", "out",
                 "out+"}
TransferCommands == {"read", "write", "address", "format"}
CommandKind == SeekCommands \cup TransferCommands \cup {"force"}

Controller ==
  [ command : CommandKind, status : SUBSET StatusBit,
    track : Bytes, sector : Bytes, data : Bytes,
    curtrack : Bytes, stepdir : {-1, 0, 1}, written : BOOLEAN,
    motoron : BOOLEAN, motorspin : BOOLEAN,
    fdctime : {"none", "seek", "finish"} ]

(* reset1770, from the zeroed statics of the program *)
FreshController ==
  [ command |-> "restore", status |-> {}, track |-> 0, sector |-> 0,
    data |-> 0, curtrack |-> 0, stepdir |-> 0, written |-> FALSE,
    motoron |-> FALSE, motorspin |-> TRUE, fdctime |-> "none" ]

Busy(w) == "busy" \in w.status
Requesting(w) == "drq" \in w.status

SpinUp_KeepsCountdown(w) ==            \* mutant: motorspin goes on counting
  [w EXCEPT !.status = @ \cup {"motor"}, !.motoron = TRUE]
SpinUp(w) == [w EXCEPT !.status = @ \cup {"motor"},
                       !.motoron = TRUE, !.motorspin = FALSE]
SpinDown_KeepsBit(w) == [w EXCEPT !.motoron = FALSE]            \* mutant
SpinDown(w) == [w EXCEPT !.status = @ \ {"motor"}, !.motoron = FALSE]

Track0(w) == IF w.curtrack = 0 THEN {} ELSE {"lost"}

-----------------------------------------------------------------------------
(* write1770, the command register: what happens in the controller.        *)
(* The head movement of a step; restore and seek move it at their end.     *)
Out(t) == IF t <= 0 THEN 0 ELSE t - 1

StepHead(w, cmd) ==
  CASE cmd \in {"step", "step+"} ->
         [w EXCEPT !.curtrack = IF w.stepdir = -1 THEN Out(@)
                                ELSE @ + w.stepdir]
    [] cmd \in {"in", "in+"} ->
         [w EXCEPT !.curtrack = @ + 1, !.stepdir = 1]
    [] cmd \in {"out", "out+"} ->
         [w EXCEPT !.curtrack = Out(@), !.stepdir = -1]
    [] OTHER -> w

(* The track disc_seek is called with *)
SeekTarget(w, cmd) ==
  CASE cmd = "restore" -> 0
    [] cmd = "seek" -> w.data
    [] OTHER -> StepHead(w, cmd).curtrack

StartSeek(w, cmd) ==
  LET started == [SpinUp(w) EXCEPT !.command = cmd,
                    !.status = {"motor", "spinup", "busy"} \cup Track0(w)]
  IN  StepHead(started, cmd)

StartTransfer(w, cmd) ==
  [SpinUp(w) EXCEPT !.command = cmd,
                    !.status = {"motor", "busy"}
                               \cup (IF cmd = "write" THEN {"drq"} ELSE {})]

ForceInterrupt(w) ==
  SpinDown([w EXCEPT !.command = "force", !.fdctime = "none",
                     !.status = {"motor"} \cup Track0(w)])

Accepts(w, cmd) == ~Busy(w) \/ cmd = "force"

(* The data register: a write hands the byte to the drive, a read takes it *)
WriteDataRegister(w, b) ==
  [w EXCEPT !.status = @ \ {"drq"}, !.data = b, !.written = TRUE]
ReadDataRegister_KeepsRequest(w) == w          \* mutant: DRQ is not cleared
ReadDataRegister(w) == [w EXCEPT !.status = @ \ {"drq"}]

-----------------------------------------------------------------------------
(* callback1770: fdctime ran out.                                          *)
Completed(w) ==
  CASE w.command = "restore" ->
         [w EXCEPT !.curtrack = 0, !.track = 0, !.status = {"motor"}]
    [] w.command = "seek" ->
         [w EXCEPT !.curtrack = w.data, !.track = w.data,
                   !.status = {"motor"}
                              \cup (IF w.data = 0 THEN {} ELSE {"lost"})]
    [] w.command \in {"step+", "in+", "out+"} ->
         [w EXCEPT !.track = w.curtrack, !.status = {"motor"} \cup Track0(w)]
    [] w.command \in {"step", "in", "out"} ->
         [w EXCEPT !.status = {"motor"} \cup Track0(w)]
    [] w.command = "address" ->
         [w EXCEPT !.sector = w.track, !.status = {"motor"}]
    [] OTHER -> [w EXCEPT !.status = {"motor"}]

Callback(w) ==
  IF w.command = "force"
  THEN [w EXCEPT !.fdctime = "none"]
  ELSE [Completed(w) EXCEPT !.fdctime = "none", !.motorspin = TRUE]

-----------------------------------------------------------------------------
(* What the drives call.                                                   *)

EndWith(w, bits) ==
  SpinDown([w EXCEPT !.fdctime = "none", !.status = {"motor"} \cup bits])

FdcData_Always(w, b) ==                \* mutant: is a command running?
  IF Requesting(w) THEN EndWith(w, {"lost"})
  ELSE [w EXCEPT !.data = b, !.status = @ \cup {"drq"}]

FdcData(w, b) ==
  IF ~Busy(w) THEN w
  ELSE IF Requesting(w) THEN EndWith(w, {"lost"})
  ELSE [w EXCEPT !.data = b, !.status = @ \cup {"drq"}]

FdcFinishRead_Nothing(w) == w          \* mutant: no callback is due
FdcFinishRead(w) == [w EXCEPT !.fdctime = "finish"]
FdcNotFound(w) == EndWith(w, {"notfound"})
FdcWriteProtect(w) == EndWith(w, {"wprot"})

(* getdata1770 returns 0xFF when no command runs, -1 when the CPU has not   *)
(* written a byte since the last one was taken, and else the byte.          *)
NoByte == -1
DataFor(w) == IF ~Busy(w) THEN Blank ELSE IF w.written THEN w.data ELSE NoByte
FdcGetData(w, last) ==
  IF ~Busy(w) \/ ~w.written THEN w
  ELSE [w EXCEPT !.status = IF last THEN @ ELSE @ \cup {"drq"},
                 !.written = FALSE]

=============================================================================
