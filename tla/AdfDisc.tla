------------------------------- MODULE AdfDisc -------------------------------
(***************************************************************************)
(* Double density discs, src/adf.c, under the controller of module Wd1770: *)
(* the formats of an image differ in sectors, sector size, sides and       *)
(* whether a 40 track disc is read by an 80 track drive.  One drive and a  *)
(* driver that waits for each command and serves each request; two drives, *)
(* swaps and the drive noise are module SsdDisc's.                         *)
(*                                                                         *)
(* A sector has one or more blocks of Block bytes, 256 in the code: the    *)
(* code takes the last byte of a block for the last of a sector.           *)
(***************************************************************************)
EXTENDS Wd1770, Sequences

CONSTANTS
  Block,          \* 256
  Formats,        \* the formats of the images
  CpuBytes,       \* the bytes the CPU writes
  NotFoundPolls,  \* 500
  MaxCommands     \* bound: the commands of the driver

(* disc.c takes 40 track discs only with sectors of 512 bytes.  The bytes   *)
(* have room for the numbers of the sectors, for the tracks of a drive of   *)
(* twice the tracks and for what stands on the disc.                        *)
ASSUME AdfAssumption ==
  /\ Block \in Nat \ {0} /\ NotFoundPolls \in Nat \ {0} /\ MaxCommands \in Nat
  /\ CpuBytes \subseteq Bytes /\ 0..(2 * MaxTrack + 3) \subseteq Bytes
  /\ \A f \in Formats :
       /\ f \in [ sectors : 1..(MaxSector + 1), blocks : Nat \ {0},
                  adl : BOOLEAN, dblstep : BOOLEAN ]
       /\ f.sectors \in Bytes /\ (f.dblstep => f.blocks # 1)

VARIABLES
  w,           \* the controller
  format,      \* adfsectors, adfsize in blocks, adl, adfdblstep
  op,          \* the operation of adf.c in progress
  trackc,      \* adftrackc
  buffer,      \* trackinfoa of the drive, a track of both sides
  image,       \* the image, by track
  writeprot,
  commands,    \* commands so far, the first moves the head
  moved,       \* the bytes the CPU moved for the last transfer.  History
  before       \* the image when that began.  History

adf == <<w, format, op, trackc, buffer, image, writeprot, commands, moved, before>>

Sides == {0, 1}
SectorSize == format.blocks * Block
Positions(f) == 0..(f.sectors * f.blocks * Block - 1)
TrackData(f) == [Sides -> [Positions(f) -> Bytes]]
OfSide(f) == 0..(IF f.adl THEN 1 ELSE 0)

Original(track, s) == 2 + 2 * track + s

Operation ==
  [ read : BOOLEAN, write : BOOLEAN, address : BOOLEAN, format : BOOLEAN,
    notfound : 0..NotFoundPolls, pos : Nat, sector : -1..(MaxSector + 1), track : Bytes,
    side : Sides, rsector : Sectors ]

AdfInit ==                             \* adf_load, adl_load, adl_loadex
  /\ w = FreshController
  /\ format \in Formats
  /\ op = [ read |-> FALSE, write |-> FALSE, address |-> FALSE,
            format |-> FALSE, notfound |-> 0, pos |-> 0, sector |-> 0,
            track |-> 0, side |-> 0, rsector |-> 0 ]
  /\ trackc = 0
  /\ buffer = [s \in Sides |-> [p \in Positions(format) |-> 0]]
  /\ image = [t \in Tracks |-> [s \in OfSide(format) |->
                [p \in Positions(format) |-> Original(t, s)]]]
  /\ writeprot \in BOOLEAN
  /\ commands = 0 /\ moved = <<>> /\ before = image

-----------------------------------------------------------------------------
Stepped(track) == IF format.dblstep THEN track \div 2 ELSE track

(* Bounds: the driver names tracks the drive has, and sectors the track     *)
(* has.  No code checks the number of a sector: 0 of a disc that counts     *)
(* from 1 would be a place before the buffer, a great one behind it.        *)
DriveTracks == 0..(IF format.dblstep THEN 2 * MaxTrack + 1 ELSE MaxTrack)
First == IF format.blocks = 1 THEN 0 ELSE 1     \* sectors of one block from 0
SectorNumbers == First..(First + format.sectors - 1)

ReadTrack_FirstSide(track) ==          \* mutant: the other side is not read
  [buffer EXCEPT ![0] = image[track][0]]
ReadTrack(track) ==
  [s \in Sides |-> IF s \in OfSide(format) THEN image[track][s] ELSE buffer[s]]

(* The driver writes the registers it needs, and the command. *)
Command ==
  /\ ~Busy(w) /\ commands < MaxCommands
  /\ commands' = commands + 1
  /\ UNCHANGED <<format, image, writeprot>>

Seek(cmd) ==                           \* adf_seek; bound: tracks of the disc
  \E to \in DriveTracks :
    LET wd == IF cmd = "seek" THEN WriteDataRegister(w, to) ELSE w
        track == Stepped(SeekTarget(wd, cmd))
    IN  /\ Command /\ track \in Tracks
        /\ w' = [StartSeek(wd, cmd) EXCEPT !.fdctime = "seek"]
        /\ trackc' = track /\ buffer' = ReadTrack(track)
        /\ UNCHANGED <<op, moved, before>>

Found(track, s, dens) == dens /\ s \in OfSide(format) /\ track = trackc

Begin(o, cmd) ==
  CASE cmd = "read" -> [o EXCEPT !.read = TRUE, !.pos = 0]
    [] cmd = "write" -> [o EXCEPT !.write = TRUE, !.pos = 0]
    [] cmd = "address" -> [o EXCEPT !.address = TRUE, !.pos = 0]
    [] cmd = "format" -> [o EXCEPT !.format = TRUE, !.pos = 0, !.sector = 0]

(* Read address and format halve the track, read and write do not. *)
Requested(wd, cmd, s, dens) ==
  LET track == IF cmd \in {"address", "format"} THEN Stepped(wd.track) ELSE wd.track
      named == [op EXCEPT !.track = track, !.side = s]
      at == IF cmd \in {"read", "write"}
            THEN [named EXCEPT !.sector = wd.sector - First] ELSE named
  IN  IF Found(track, s, dens) THEN Begin(at, cmd)
      ELSE [at EXCEPT !.notfound = NotFoundPolls]

(* The side and the density are those of the control register. *)
Transfer(cmd) ==
  \E track \in DriveTracks, sector \in SectorNumbers, s \in Sides, dens \in BOOLEAN :
    LET wd == [w EXCEPT !.track = track, !.sector = sector]
    IN  /\ Command /\ commands > 0
        /\ w' = StartTransfer(wd, cmd) /\ op' = Requested(wd, cmd, s, dens)
        /\ moved' = <<>> /\ before' = image
        /\ UNCHANGED <<trackc, buffer>>

-----------------------------------------------------------------------------
(* adf_poll *)
Here(s) == s.op.sector * SectorSize + s.op.pos
SectorDone(s) == s.op.pos + 1 = SectorSize
Passed(s) == [s EXCEPT !.op = [s.op EXCEPT !.pos = s.op.pos + 1]]
Stored(s, b) == Passed([s EXCEPT !.buffer = [@ EXCEPT ![s.op.side][Here(s)] = b]])

(* adf_writeback, which halves the track too: what was formatted of a       *)
(* double stepped disc goes to the wrong track.                             *)
WriteBack(s) ==
  [s EXCEPT !.image =
     [@ EXCEPT ![Stepped(s.op.track)] = [x \in OfSide(format) |-> s.buffer[x]]]]

NotFoundStage(s) ==
  IF s.op.notfound = 0 THEN s
  ELSE [s EXCEPT !.w = IF s.op.notfound = 1 THEN FdcNotFound(@) ELSE @,
                 !.op = [s.op EXCEPT !.notfound = s.op.notfound - 1]]

ReadStage(s) ==
  IF ~s.op.read THEN s
  ELSE LET sent == FdcData(s.w, s.buffer[s.op.side][Here(s)])
       IN  [Passed(s) EXCEPT
              !.w = IF SectorDone(s) THEN FdcFinishRead(sent) ELSE sent,
              !.op = [@ EXCEPT !.read = ~SectorDone(s)]]

Refused(s) == [s EXCEPT !.w = FdcWriteProtect(@), !.returned = TRUE]
StopWrite(s) == [s EXCEPT !.op = [@ EXCEPT !.write = FALSE]]
StopFormat(s) == [s EXCEPT !.op = [@ EXCEPT !.format = FALSE]]
Finish(s) == [s EXCEPT !.w = FdcFinishRead(@)]

(* Without a byte of the CPU's the poll is over: the sector waits.          *)
WriteStage(s) ==
  IF ~s.op.write THEN s
  ELSE IF writeprot THEN StopWrite(Refused(s))
  ELSE IF DataFor(s.w) = NoByte THEN [s EXCEPT !.returned = TRUE]
  ELSE LET last == s.op.pos = Block - 1
           put == Stored([s EXCEPT !.w = FdcGetData(@, last)], DataFor(s.w))
       IN  IF SectorDone(s) THEN WriteBack(Finish(StopWrite(put))) ELSE put

(* The sector number is 1 or 0: + binds tighter than ?:                     *)
AddressByte(o) ==
  CASE o.pos = 0 -> o.track
    [] o.pos = 1 -> o.side
    [] o.pos = 2 -> IF o.rsector + First # 0 THEN 1 ELSE 0
    [] o.pos = 3 -> IF format.blocks > 2 THEN 3 ELSE format.blocks
    [] OTHER -> 0

(* After the last byte the command ends, and the next sector is due. *)
Addressed(o) ==
  [o EXCEPT !.pos = o.pos + 1, !.address = o.pos # 6,
            !.rsector = IF o.pos # 6 THEN @ ELSE (@ + 1) % format.sectors]

AddressStage(s) ==
  IF ~s.op.address \/ s.returned THEN s
  ELSE IF s.op.pos < 6 THEN [Passed(s) EXCEPT !.w = FdcData(@, AddressByte(s.op))]
  ELSE [s EXCEPT !.w = IF s.op.pos = 6 THEN FdcFinishRead(@) ELSE @,
                 !.op = Addressed(s.op)]

NextSector(s) ==
  [s EXCEPT !.op = [s.op EXCEPT !.pos = 0, !.sector = s.op.sector + 1]]

FormatStage(s) ==
  IF ~s.op.format \/ s.returned THEN s
  ELSE IF writeprot THEN StopFormat(Refused(s))
  ELSE IF ~SectorDone(s) THEN Stored(s, 0)
  ELSE LET next == NextSector(Stored(s, 0))
       IN  IF next.op.sector = format.sectors
           THEN WriteBack(Finish(StopFormat(next))) ELSE next

Poll ==
  /\ w.motoron /\ w.fdctime # "finish" /\ ~Requesting(w)
  /\ LET now == [w |-> w, op |-> op, buffer |-> buffer, image |-> image,
                 returned |-> FALSE]
         done == FormatStage(AddressStage(WriteStage(ReadStage(NotFoundStage(now)))))
     IN  /\ w' = done.w /\ op' = done.op
         /\ buffer' = done.buffer /\ image' = done.image
  /\ UNCHANGED <<format, trackc, writeprot, commands, moved, before>>

FdcTimer ==
  /\ w.motoron /\ w.fdctime # "none" /\ ~Requesting(w)
  /\ w' = Callback(w)
  /\ moved' = <<>> /\ before' = image
  /\ UNCHANGED <<format, op, trackc, buffer, image, writeprot,
                 commands>>

SpinTimer ==
  /\ w.motorspin
  /\ w' = [SpinDown(w) EXCEPT !.motorspin = FALSE]
  /\ UNCHANGED <<format, op, trackc, buffer, image, writeprot,
                 commands, moved, before>>

-----------------------------------------------------------------------------
(* The driver *)
Remember(b) == moved' = Append(moved, b)

WriteData ==
  /\ w.command = "write" /\ Busy(w) /\ Requesting(w)
  /\ \E b \in CpuBytes : w' = WriteDataRegister(w, b) /\ Remember(b)
  /\ UNCHANGED <<format, op, trackc, buffer, image, writeprot, commands,
                 before>>

ReadData ==
  /\ w.command # "write" /\ Requesting(w)
  /\ w' = ReadDataRegister(w) /\ Remember(w.data)
  /\ UNCHANGED <<format, op, trackc, buffer, image, writeprot, commands,
                 before>>

WriteProtect ==                        \* gui_wprot0, with no command running
  /\ ~Busy(w) /\ writeprot' = ~writeprot
  /\ UNCHANGED <<w, format, op, trackc, buffer, image, commands, moved,
                 before>>

AdfNext ==
  \/ \E cmd \in {"restore", "seek", "in+"} : Seek(cmd)
  \/ \E cmd \in TransferCommands : Transfer(cmd)
  \/ Poll \/ FdcTimer \/ SpinTimer
  \/ WriteData \/ ReadData \/ WriteProtect

AdfSpec == AdfInit /\ [][AdfNext]_adf

-----------------------------------------------------------------------------
AdfTypeOK ==
  /\ w \in Controller /\ format \in Formats /\ op \in Operation
  /\ trackc \in Tracks
  /\ buffer \in TrackData(format)
  /\ {image, before} \subseteq
       [Tracks -> [OfSide(format) -> [Positions(format) -> Bytes]]]
  /\ writeprot \in BOOLEAN /\ commands \in 0..MaxCommands /\ moved \in Seq(Bytes)

(* The sector a command named, in an image.                                 *)
Bytewise(images) ==
  [ p \in 1..SectorSize |->
      images[op.track][op.side][op.sector * SectorSize + p - 1] ]

(* Has a format left its track elsewhere on a double stepped disc?  Until   *)
(* then nothing has changed it: no write of such a disc ends.               *)
Misplaced(images) ==
  /\ format.dblstep
  /\ \E t \in Tracks, s \in OfSide(format), p \in Positions(format) :
       images[t][s][p] # Original(t, s)

Finished(cmd) ==
  w.command = cmd /\ w.fdctime = "finish" /\ Busy(w) /\ ~Requesting(w)

(* A read that ends has moved the bytes of its sector in order, whatever    *)
(* the format, unless a format of a double stepped disc has gone astray.    *)
ReadInStep ==
  Finished("read") /\ ~Misplaced(image) => moved = Bytewise(image)

(* A write ends for sectors of one block only: adf_poll takes the byte 255  *)
(* for the last and no more are asked for.  It has put the CPU's bytes in   *)
(* its sector and has changed nothing else on the disc.                     *)
WriteInStep ==
  Finished("write") =>
    /\ format.blocks = 1 /\ Len(moved) = SectorSize
    /\ \A t \in Tracks, s \in OfSide(format), p \in Positions(format) :
         image[t][s][p] =
           IF t = op.track /\ s = op.side /\ p \div SectorSize = op.sector
           THEN moved[(p % SectorSize) + 1] ELSE before[t][s][p]

(* A format that ends has blanked its side of the track only.  On a double  *)
(* stepped disc it is the track half as far in that is changed: blank on    *)
(* one side, on the other what the buffer had of the track.                 *)
FormatInStep ==
  Finished("format") =>
    \A t \in Tracks, s \in OfSide(format), p \in Positions(format) :
      image[t][s][p] =
        IF t # Stepped(op.track) THEN before[t][s][p]
        ELSE IF s = op.side THEN 0
        ELSE IF Misplaced(before) THEN buffer[s][p]
        ELSE before[op.track][s][p]

(* Each transfer that ends has touched what it should, and how.             *)
AdfInStep == ReadInStep /\ WriteInStep /\ FormatInStep
=============================================================================
