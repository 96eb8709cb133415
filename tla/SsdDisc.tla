------------------------------ MODULE SsdDisc ------------------------------
(***************************************************************************)
(* The Plus 3: the controller of module Wd1770 with two drives that hold   *)
(* SSD images (src/ssd.c), the drive table of src/disc.c and the drive     *)
(* noise of src/ddnoise.c, whose samples time the head movements.          *)
(*                                                                         *)
(* Everything runs on the emulator's one thread, but what the CPU, the     *)
(* user and the timers do interleaves: the CPU loop counts fdctime,        *)
(* disctime and motorspin down between instructions, the noise is mixed    *)
(* between frames, and the menus act between frames.                       *)
(*                                                                         *)
(* The operation in progress is kept in flags of ssd.c that the controller *)
(* does not know of: no command clears them, only the poll that ends the   *)
(* operation does.                                                         *)
(***************************************************************************)
EXTENDS Wd1770, Sequences

CONSTANTS
  Drives,        \* {0, 1} in the code
  Discs,         \* the disc images there are, numbers 1, 2, ...
  NoDisc,        \* no image in a drive
  SectorSize,    \* 256 in the code
  AddressBytes,  \* 6 in the code: the bytes a read address sends
  NotFoundPolls, \* 500 in ssd.c, 10000 in disc.c: polls before "not found"
  CpuBytes,      \* the bytes the CPU writes to the data register
  SectorNumbers, \* the numbers it writes to the sector register
  Original,      \* the bytes of each image before anything is written
  Commands,      \* the commands the CPU gives
  MaxMoved,      \* bound: the bytes of a command the model remembers
  Polite,        \* does the CPU's driver give commands and select drives
                 \* only while nothing runs and serve every data request
                 \* before the next poll?
  Swaps,         \* does the user load, eject and write protect discs?
  Toggles        \* does the user switch the drive noise on and off?

Positions == 0..((MaxSector + 1) * SectorSize - 1)   \* of a track buffer

(* An image is a file and may end before, or in, any track the head can     *)
(* reach: what is not there reads as EndOfFile.                             *)
EndOfFile == -1
Files == [Tracks -> [Positions -> Bytes \cup {EndOfFile}]]

ASSUME DiscAssumption ==
  /\ 0 \in Drives
  /\ NoDisc \notin Discs
  /\ Original \in [Discs -> Files]
  /\ SectorNumbers \subseteq Bytes
  /\ SectorSize \in Nat \ {0} /\ AddressBytes \in Nat \ {0}
  /\ NotFoundPolls \in Nat \ {0} /\ MaxMoved \in Nat
  /\ CpuBytes \subseteq Bytes /\ Commands \subseteq CommandKind
  /\ Polite \in BOOLEAN /\ Swaps \in BOOLEAN /\ Toggles \in BOOLEAN

VARIABLES
  w,          \* the controller
  curdrive,   \* the selected drive
  readable,   \* do the selected side and density suit an SSD image?
  op,         \* the operation of ssd.c in progress
  noHandler,  \* disc_notfound: polls left for a drive nothing was loaded in
  mounted,    \* ssdf: the image in each drive
  handler,    \* has an image ever been loaded in the drive?
  trackc,     \* ssdtrackc: the track each track buffer was read from
  buffer,     \* trackinfo: the track buffer of each drive
  writeprot,  \* writeprot
  image,      \* the bytes of each disc image
  sndddnoise, \* is the drive noise on?
  sstat,      \* the seek sample playing: -1 none, 0 a step, 1 a longer one
  oldtrack,   \* the track each drive was last moved to
  moved       \* the bytes the CPU moved since the last transfer command

vars == <<w, curdrive, readable, op, noHandler, mounted, handler, trackc,
          buffer, writeprot, image, sndddnoise, sstat, oldtrack, moved>>

Operation ==
  [ read : BOOLEAN, write : BOOLEAN, address : BOOLEAN, format : BOOLEAN,
    notfound : 0..NotFoundPolls, pos : Nat, sector : Nat, track : Tracks,
    drive : Drives ]

NoOperation ==
  [ read |-> FALSE, write |-> FALSE, address |-> FALSE, format |-> FALSE,
    notfound |-> 0, pos |-> 0, sector |-> 0, track |-> 0, drive |-> 0 ]

(* The images named on the command line or in the configuration are in the  *)
(* drives before the CPU runs; nothing has been read from them yet.         *)
Init ==
  /\ w = FreshController
  /\ curdrive = 0 /\ readable \in BOOLEAN
  /\ op = NoOperation /\ noHandler = 0
  /\ mounted \in {m \in [Drives -> Discs \cup {NoDisc}] :
                    \A d, e \in Drives : d # e /\ m[d] # NoDisc => m[d] # m[e]}
  /\ handler = [d \in Drives |-> mounted[d] # NoDisc]
  /\ trackc = [d \in Drives |-> 0]
  /\ buffer = [d \in Drives |-> [p \in Positions |-> 0]]
  /\ writeprot \in [Drives -> BOOLEAN]
  /\ image = Original
  /\ sndddnoise \in BOOLEAN /\ sstat = -1
  /\ oldtrack = [d \in Drives |-> 0]
  /\ moved = <<>>

-----------------------------------------------------------------------------
(* ssd_seek: the buffer takes the bytes the image has of the track; from    *)
(* the end of the file on it keeps what it held before.                     *)
Read(file, track, before) ==
  [p \in Positions |-> IF file[track][p] = EndOfFile THEN before[p]
                       ELSE file[track][p]]
Sought(drive, track) ==
  IF mounted[drive] = NoDisc THEN buffer
  ELSE [buffer EXCEPT ![drive] = Read(image[mounted[drive]], track, @)]

(* ddnoise_seek: a head movement by more than a track ends with its sample. *)
Abs(i) == IF i < 0 THEN -i ELSE i
SampleFor(len) == CASE Abs(len) = 0 -> -1 [] Abs(len) = 1 -> 0 [] OTHER -> 1
SeekTime(len, wd) ==
  IF Abs(len) <= 1 \/ ~sndddnoise THEN [wd EXCEPT !.fdctime = "seek"] ELSE wd

(* disc_seek *)
DiscSeek(drive, track, wd) ==
  LET len == track - oldtrack[drive]
  IN  /\ trackc' = IF handler[drive] /\ mounted[drive] # NoDisc
                   THEN [trackc EXCEPT ![drive] = track] ELSE trackc
      /\ buffer' = IF handler[drive] THEN Sought(drive, track) ELSE buffer
      /\ sstat' = SampleFor(len)
      /\ w' = SeekTime(len, wd)
      /\ oldtrack' = [oldtrack EXCEPT ![drive] = track]

(* ssd_readsector, ssd_writesector, ssd_readaddress, ssd_format *)
Found_AnyTrack(drive, track) ==        \* mutant: the track is not compared
  mounted[drive] # NoDisc /\ readable
Found(drive, track) ==
  mounted[drive] # NoDisc /\ readable /\ track = trackc[drive]

Addressed(cmd) ==
  LET at == [op EXCEPT !.track = w.track, !.drive = curdrive]
  IN  IF cmd \in {"read", "write"} THEN [at EXCEPT !.sector = w.sector] ELSE at

Begin(o, cmd) ==
  CASE cmd = "read" -> [o EXCEPT !.read = TRUE, !.pos = 0]
    [] cmd = "write" -> [o EXCEPT !.write = TRUE, !.pos = 0]
    [] cmd = "address" -> [o EXCEPT !.address = TRUE, !.pos = 0]
    [] cmd = "format" -> [o EXCEPT !.format = TRUE, !.pos = 0, !.sector = 0]

Requested(cmd) ==
  IF Found(curdrive, w.track) THEN Begin(Addressed(cmd), cmd)
  ELSE [Addressed(cmd) EXCEPT !.notfound = NotFoundPolls]

(* write1770, the command register *)
MediaUnchanged == UNCHANGED <<mounted, handler, writeprot, image>>
SelectionUnchanged == UNCHANGED <<curdrive, readable>>

(* Bound: the head goes to, and a transfer names, tracks up to MaxTrack. *)
InBound(cmd) ==
  IF cmd \in SeekCommands THEN SeekTarget(w, cmd) \in Tracks
  ELSE w.track \in Tracks

SeekCommand(cmd) ==
  /\ Accepts(w, cmd) /\ InBound(cmd)
  /\ DiscSeek(curdrive, SeekTarget(w, cmd), StartSeek(w, cmd))
  /\ UNCHANGED <<op, noHandler, sndddnoise, moved>>
  /\ MediaUnchanged /\ SelectionUnchanged

TransferCommand(cmd) ==
  /\ Accepts(w, cmd) /\ InBound(cmd)
  /\ w' = StartTransfer(w, cmd)
  /\ IF handler[curdrive]
     THEN op' = Requested(cmd) /\ UNCHANGED noHandler
     ELSE noHandler' = NotFoundPolls /\ UNCHANGED op
  /\ moved' = <<>>
  /\ UNCHANGED <<trackc, buffer, sndddnoise, sstat, oldtrack>>
  /\ MediaUnchanged /\ SelectionUnchanged

ForceCommand ==
  /\ Polite => ~Busy(w)
  /\ w' = ForceInterrupt(w)
  /\ UNCHANGED <<op, noHandler, trackc, buffer, sndddnoise, sstat, oldtrack,
                 moved>>
  /\ MediaUnchanged /\ SelectionUnchanged

WriteCommand ==
  \E cmd \in Commands :
    \/ cmd \in SeekCommands /\ SeekCommand(cmd)
    \/ cmd \in TransferCommands /\ TransferCommand(cmd)
    \/ cmd = "force" /\ ForceCommand

(* write1770 and read1770, the other registers *)
RestUnchanged ==
  /\ UNCHANGED <<op, noHandler, trackc, buffer, sndddnoise, sstat, oldtrack>>
  /\ MediaUnchanged

WriteControl ==
  /\ Polite => ~Busy(w)
  /\ curdrive' \in Drives /\ readable' \in BOOLEAN
  /\ UNCHANGED <<w, moved>> /\ RestUnchanged

WriteTrack ==
  /\ Polite => ~Busy(w)
  /\ \E t \in Tracks : w' = [w EXCEPT !.track = t]
  /\ UNCHANGED moved /\ SelectionUnchanged /\ RestUnchanged

WriteSector ==
  /\ Polite => ~Busy(w)
  /\ \E s \in SectorNumbers : w' = [w EXCEPT !.sector = s]
  /\ UNCHANGED moved /\ SelectionUnchanged /\ RestUnchanged

(* The bytes a command moves are a history, kept up to MaxMoved of them. *)
Remember(b) == moved' = IF Len(moved) < MaxMoved
                        THEN Append(moved, b) ELSE moved

WriteData ==
  /\ Polite => ~Busy(w) \/ (w.command = "write" /\ Requesting(w))
  /\ \E b \in CpuBytes :
       /\ w' = WriteDataRegister(w, b)
       /\ IF Busy(w) THEN Remember(b) ELSE UNCHANGED moved
  /\ SelectionUnchanged /\ RestUnchanged

ReadData ==
  /\ Polite => w.command # "write" /\ Requesting(w)
  /\ w' = ReadDataRegister(w)
  /\ IF Requesting(w) THEN Remember(w.data) ELSE UNCHANGED moved
  /\ SelectionUnchanged /\ RestUnchanged

-----------------------------------------------------------------------------
(* ssd_poll: what is in progress takes one step each, in this order, on the *)
(* controller, the operation, the track buffers and the images.             *)
Here(s) == s.op.sector * SectorSize + s.op.pos
Present(s) == mounted[s.op.drive] # NoDisc
SectorDone(s) == s.op.pos + 1 = SectorSize

NotFoundStage_Always(s) ==             \* mutant: counts below 0
  [s EXCEPT !.w = IF s.op.notfound = 1 THEN FdcNotFound(@) ELSE @,
            !.op = [s.op EXCEPT !.notfound = s.op.notfound - 1]]
NotFoundStage(s) ==
  IF s.op.notfound = 0 THEN s
  ELSE [s EXCEPT !.w = IF s.op.notfound = 1 THEN FdcNotFound(@) ELSE @,
                 !.op = [s.op EXCEPT !.notfound = s.op.notfound - 1]]

ReadStage(s) ==
  IF ~s.op.read \/ ~Present(s) THEN s
  ELSE LET sent == FdcData(s.w, s.buffer[s.op.drive][Here(s)])
       IN  [s EXCEPT !.w = IF SectorDone(s) THEN FdcFinishRead(sent) ELSE sent,
                     !.op = [s.op EXCEPT !.read = ~SectorDone(s),
                                         !.pos = s.op.pos + 1]]

Store(s, b) ==
  [s EXCEPT !.buffer = [s.buffer EXCEPT ![s.op.drive][Here(s)] = b],
            !.op = [s.op EXCEPT !.pos = s.op.pos + 1]]

(* ssd_writeback: the whole buffer goes to its track; what the file lacks   *)
(* before that track is filled with zeros.                                  *)
Written(file, track, bytes) ==
  [t \in Tracks |->
     IF t = track THEN bytes
     ELSE IF t < track THEN Read(file, t, [p \in Positions |-> 0])
     ELSE file[t]]
WriteBack(s) ==
  [s EXCEPT !.image =
     [s.image EXCEPT ![mounted[s.op.drive]] =
        Written(@, s.op.track, s.buffer[s.op.drive])]]

Protected_Selected(s) == writeprot[curdrive]   \* mutant: the wrong drive's
Protected(s) == writeprot[s.op.drive]
Refused(s) == [s EXCEPT !.w = FdcWriteProtect(@), !.returned = TRUE]

(* What stops a stage: whether it is running, and then its last step *)
StopWrite(s) == [s EXCEPT !.op = [s.op EXCEPT !.write = FALSE]]
StopFormat(s) == [s EXCEPT !.op = [s.op EXCEPT !.format = FALSE]]
Finish(s) == [s EXCEPT !.w = FdcFinishRead(@)]

WriteStage(s) ==
  IF ~s.op.write \/ ~Present(s) THEN s
  ELSE IF Protected(s) THEN StopWrite(Refused(s))
  ELSE IF DataFor(s.w) = NoByte THEN [s EXCEPT !.returned = TRUE]
  ELSE LET got == [s EXCEPT !.w = FdcGetData(@, SectorDone(s))]
           stored == Store(got, DataFor(s.w))
       IN  IF SectorDone(s) THEN WriteBack(Finish(StopWrite(stored)))
           ELSE stored

AddressByte(o) == IF o.pos = 0 THEN o.track ELSE IF o.pos = 3 THEN 1 ELSE 0

AddressStage(s) ==
  IF ~s.op.address \/ ~Present(s) \/ s.returned THEN s
  ELSE [s EXCEPT !.w = IF s.op.pos < AddressBytes
                       THEN FdcData(@, AddressByte(s.op))
                       ELSE IF s.op.pos = AddressBytes THEN FdcFinishRead(@)
                       ELSE @,
                 !.op = [s.op EXCEPT !.address = s.op.pos # AddressBytes,
                                     !.pos = s.op.pos + 1]]

NextSector(s) ==
  [s EXCEPT !.op = [s.op EXCEPT !.pos = 0, !.sector = s.op.sector + 1]]

FormatStage_SectorShort(s) ==          \* mutant: ends a sector early
  IF ~s.op.format \/ ~Present(s) \/ s.returned THEN s
  ELSE IF Protected(s) THEN StopFormat(Refused(s))
  ELSE IF ~SectorDone(s) THEN Store(s, 0)
  ELSE LET next == NextSector(Store(s, 0))
       IN  IF next.op.sector = MaxSector
           THEN WriteBack(Finish(StopFormat(next)))
           ELSE next
FormatStage(s) ==
  IF ~s.op.format \/ ~Present(s) \/ s.returned THEN s
  ELSE IF Protected(s) THEN StopFormat(Refused(s))
  ELSE IF ~SectorDone(s) THEN Store(s, 0)
  ELSE LET next == NextSector(Store(s, 0))
       IN  IF next.op.sector = MaxSector + 1
           THEN WriteBack(Finish(StopFormat(next)))
           ELSE next

SsdPoll(s) == FormatStage(AddressStage(WriteStage(ReadStage(NotFoundStage(s)))))

(* disc_poll: the handler of the selected drive, then the countdown of a    *)
(* drive without one                                                        *)
DiscPollResult ==
  LET now == [w |-> w, op |-> op, buffer |-> buffer, image |-> image,
              returned |-> FALSE]
      polled == IF handler[curdrive] THEN SsdPoll(now) ELSE now
  IN  IF noHandler = 1 THEN [polled EXCEPT !.w = FdcNotFound(@)] ELSE polled

(* Bound: runs stop polling where operations that share pos, or a sector    *)
(* number the track does not have, would leave the track buffer.            *)
One(running) == IF running THEN 1 ELSE 0
Active == One(op.read) + One(op.write) + One(op.address) + One(op.format)
WithinBuffer ==
  Active > 0 => op.sector * SectorSize + op.pos + Active - 1 \in Positions
                \/ (Active = 1 /\ op.address)

(* The 200 cycles after a transfer are over before the next poll that does  *)
(* anything, 256 cycles on.                                                 *)
DiscPoll ==
  /\ w.motoron /\ (handler[curdrive] => w.fdctime # "finish")
  /\ Polite => ~Requesting(w)
  /\ WithinBuffer
  /\ w' = DiscPollResult.w
  /\ op' = DiscPollResult.op
  /\ buffer' = DiscPollResult.buffer
  /\ image' = DiscPollResult.image
  /\ noHandler' = IF noHandler = 0 THEN 0 ELSE noHandler - 1
  /\ UNCHANGED <<mounted, handler, trackc, writeprot, sndddnoise, sstat,
                 oldtrack, moved>>
  /\ SelectionUnchanged

(* exec6502: the countdowns of fdctime and motorspin *)
FdcTimer ==
  /\ w.motoron /\ w.fdctime # "none"
  /\ w' = Callback(w)
  /\ UNCHANGED moved /\ SelectionUnchanged /\ RestUnchanged

SpinTimer ==
  /\ w.motorspin
  /\ w' = [SpinDown(w) EXCEPT !.motorspin = FALSE]
  /\ UNCHANGED moved /\ SelectionUnchanged /\ RestUnchanged

(* mixddnoise, at the end of a seek sample *)
MixNoise ==
  /\ sndddnoise /\ sstat >= 0
  /\ w' = IF sstat > 0 THEN [w EXCEPT !.fdctime = "seek"] ELSE w
  /\ sstat' = -1
  /\ UNCHANGED <<op, noHandler, trackc, buffer, sndddnoise, oldtrack, moved>>
  /\ MediaUnchanged /\ SelectionUnchanged

-----------------------------------------------------------------------------
(* The user's menus.  A loaded disc is write protected if its file is, or   *)
(* by default.                                                              *)
UserUnchanged ==
  /\ UNCHANGED <<w, op, noHandler, trackc, buffer, sstat, oldtrack, moved>>
  /\ UNCHANGED image /\ SelectionUnchanged

Load(d, disc) ==
  /\ Swaps
  /\ \A e \in Drives \ {d} : mounted[e] # disc
  /\ mounted' = [mounted EXCEPT ![d] = disc]
  /\ handler' = [handler EXCEPT ![d] = TRUE]
  /\ \E p \in BOOLEAN : writeprot' = [writeprot EXCEPT ![d] = p]
  /\ UNCHANGED sndddnoise /\ UserUnchanged

Eject(d) ==
  /\ Swaps
  /\ mounted' = [mounted EXCEPT ![d] = NoDisc]
  /\ UNCHANGED <<handler, writeprot, sndddnoise>> /\ UserUnchanged

ToggleWriteProtect(d) ==
  /\ Swaps
  /\ writeprot' = [writeprot EXCEPT ![d] = ~@]
  /\ UNCHANGED <<mounted, handler, sndddnoise>> /\ UserUnchanged

ToggleNoise ==
  /\ Toggles
  /\ sndddnoise' = ~sndddnoise
  /\ UNCHANGED <<mounted, handler, writeprot>> /\ UserUnchanged

-----------------------------------------------------------------------------
Cpu == WriteCommand \/ WriteControl \/ WriteTrack \/ WriteSector
       \/ WriteData \/ ReadData
Timers == DiscPoll \/ FdcTimer \/ SpinTimer \/ MixNoise
User == \/ \E d \in Drives : Eject(d) \/ ToggleWriteProtect(d)
        \/ \E d \in Drives, disc \in Discs : Load(d, disc)
        \/ ToggleNoise

Next == Cpu \/ Timers \/ User

Spec == Init /\ [][Next]_vars

(* The CPU loop counts every timer down and the main loop mixes the noise   *)
(* for ever; a polite driver serves each request it sees.                   *)
FairSpec ==
  /\ Spec
  /\ WF_vars(DiscPoll) /\ WF_vars(FdcTimer) /\ WF_vars(MixNoise)
  /\ WF_vars(ReadData) /\ WF_vars(WriteData)

-----------------------------------------------------------------------------
TypeOK ==
  /\ w \in Controller
  /\ curdrive \in Drives /\ readable \in BOOLEAN
  /\ op \in Operation /\ noHandler \in 0..NotFoundPolls
  /\ mounted \in [Drives -> Discs \cup {NoDisc}]
  /\ handler \in [Drives -> BOOLEAN]
  /\ trackc \in [Drives -> Tracks]
  /\ buffer \in [Drives -> [Positions -> Bytes]]
  /\ writeprot \in [Drives -> BOOLEAN]
  /\ image \in [Discs -> Files]
  /\ sndddnoise \in BOOLEAN /\ sstat \in {-1, 0, 1}
  /\ oldtrack \in [Drives -> Nat]
  /\ moved \in Seq(Bytes)

(* The motor bit of the status register tells whether the motor runs.       *)
(* (spinup1770, spindown1770 and every assignment of wd1770.status)         *)
MotorBit == "motor" \in w.status <=> w.motoron

(* The motor never spins down under a command: while one runs the motor is  *)
(* on and the spin-down countdown is stopped, so disc_poll and fdctime, the *)
(* only things that can end the command, go on.  (spinup1770, callback1770, *)
(* setspindown1770, the error returns)                                      *)
MotorOnWhileBusy == Busy(w) => w.motoron /\ ~w.motorspin

(* Data is only requested for a command that runs.  (data1770, getdata1770, *)
(* callback1770)                                                            *)
RequestOnlyWhileBusy == Requesting(w) => Busy(w)

(* Nothing is ever written to a disc in a write protected drive, whenever   *)
(* the protection was switched on and whatever disc was there when the      *)
(* operation began.  (ssd_poll)                                             *)
ProtectedDiscUnchanged ==
  [][\A disc \in Discs : image'[disc] # image[disc] =>
       \E d \in Drives : mounted[d] = disc /\ ~writeprot[d]]_vars

(* A byte that is at a position of a track of a disc, in the image or in a  *)
(* buffer, although the image began with a byte there                       *)
Own(disc, track, p, b) ==
  Original[disc][track][p] # EndOfFile =>
    b \in CpuBytes \cup {0, Original[disc][track][p]}

(* No byte an image came with gives way to one of another track or place:   *)
(* at its place in the image, and in a buffer that holds its track, there   *)
(* is that byte, one the CPU wrote, or the 0 of a format or of a buffer     *)
(* nothing was read into yet.  What lies beyond the end of a short image    *)
(* has no such promise: a seek leaves the track before in that part of the  *)
(* buffer, and the next write back puts it on the disc.  (ssd_seek, the     *)
(* track test, ssd_writeback)                                               *)
BuffersOwn ==
  \A d \in Drives, p \in Positions :
    mounted[d] # NoDisc => Own(mounted[d], trackc[d], p, buffer[d][p])
TracksNotMixed ==
  /\ \A disc \in Discs, t \in Tracks, p \in Positions :
       Own(disc, t, p, image[disc][t][p])
  /\ BuffersOwn

(* While a sector is written, what the buffer holds of it so far is what    *)
(* the CPU supplied for this command, in order; at most one byte waits in   *)
(* the data register.  (ssd_poll, getdata1770, the data register)           *)
SectorBase == op.sector * SectorSize
WriteInStep ==
  op.write /\ Busy(w) =>
    /\ Len(moved) \in {op.pos, op.pos + 1}
    /\ \A p \in 0..(op.pos - 1) :
         buffer[op.drive][SectorBase + p] = moved[p + 1]
    /\ Len(moved) = op.pos + 1 => w.data = moved[op.pos + 1]

(* While a sector is read, what the CPU got so far is the sector's bytes in *)
(* order; the next one is in the data register.  (ssd_poll, data1770)       *)
ReadInStep ==
  op.read /\ Busy(w) =>
    /\ Len(moved) = op.pos - (IF Requesting(w) THEN 1 ELSE 0)
    /\ \A p \in 0..(Len(moved) - 1) :
         moved[p + 1] = buffer[op.drive][SectorBase + p]
    /\ Requesting(w) => w.data = buffer[op.drive][SectorBase + op.pos - 1]

(* The CPU and the disc keep step in both directions.                       *)
TransferInStep == WriteInStep /\ ReadInStep

(* A format that is not refused ends with its whole track blank on the      *)
(* disc, whatever the buffer and the end of the file were.  (ssd_format,    *)
(* ssd_poll, ssd_writeback)                                                 *)
FormatBlanks ==
  [][op.format /\ ~op'.format =>
       "wprot" \in w'.status
       \/ \A p \in Positions : image'[mounted[op.drive]][op.track][p] = 0]_vars

(* Every command ends.  (the timers, ssd_poll, disc_poll, mixddnoise)       *)
CommandEnds == Busy(w) ~> ~Busy(w)

=============================================================================
