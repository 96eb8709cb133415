------------------------------- MODULE FdiDisc -------------------------------
(***************************************************************************)
(* Discs of raw tracks, fdi_poll and its neighbours in src/fdi.c, under    *)
(* the controller of module Wd1770.  Unlike the other formats, an image is *)
(* no table of sectors: the poll finds them in what passes under the head, *)
(* by the marks, identifiers and checksums of single (FM) and double (MFM) *)
(* density.  The discs are read only.                                      *)
(*                                                                         *)
(* One step is 16 polls, in which a word passes: a byte between its clock  *)
(* bits, or one of the words that no byte makes, which begin a field.      *)
(* fdi2raw, which makes the track from the file, is the environment.       *)
(***************************************************************************)
EXTENDS Wd1770, Sequences, Bitwise

CONSTANTS
  SizeBits,     \* 7: a sector has 2^(its size code + 7) bytes
  Discs,        \* the discs: of a density, with the sectors of each track
  IndexHole,    \* ftrackindex, the place of the index hole
  Starts,       \* bound: the places where a command comes or the motor stops
  MaxCommands   \* bound: the commands of the driver

VARIABLES
  w,            \* the controller
  disc,         \* the disc in the drive
  track,        \* the track under the head
  raw,          \* its words by density, ftrackinfo
  pos,          \* fdipos
  op,           \* the flags and counters of fdi.c
  commands,     \* commands so far
  moved         \* the bytes the CPU moved for the last command.  History

fdi == <<w, disc, track, raw, pos, op, commands, moved>>

Words == [k : {"byte", "sync", "mark"}, b : 0..255]
Sync == [k |-> "sync", b |-> 161]                \* 4489
Mark(b) == [k |-> "mark", b |-> b]               \* F57E, F56F, F56A
IdMark == 254
DataMark == 251
DeletedMark == 248

Operation ==
  [ read : BOOLEAN, write : BOOLEAN, address : BOOLEAN,
    sector : Bytes, track : Bytes, density : BOOLEAN, revs : 0..3,
    left : Nat, id : BOOLEAN, data : BOOLEAN, next : BOOLEAN, dd : BOOLEAN,
    ident : [0..5 -> 0..255], size : Nat, crc : 0..65535,
    sectorcrc : [0..1 -> 0..255], last : Seq(0..255) ]

Init ==                                \* fdi_reset, fdi_load
  /\ w = FreshController
  /\ disc \in Discs /\ track = 0 /\ raw = [double \in BOOLEAN |-> <<>>] /\ pos = 0
  /\ op = [ read |-> FALSE, write |-> FALSE, address |-> FALSE, sector |-> 0,
            track |-> 0, density |-> FALSE, revs |-> 0, left |-> 0, id |-> FALSE,
            data |-> FALSE, next |-> FALSE, dd |-> FALSE,
            ident |-> [k \in 0..5 |-> 0], size |-> 0, crc |-> 0,
            sectorcrc |-> [k \in 0..1 |-> 0], last |-> <<>> ]
  /\ commands = 0 /\ moved = <<>>

-----------------------------------------------------------------------------
(* setupcrc and calccrc *)
Polynomial == 4129                     \* 0x1021

CRCTable(c) ==
  LET shifted(n) == IF n >= 32768 THEN ((2 * n) % 65536) ^^ Polynomial ELSE 2 * n
      after[bit \in 0..8] == IF bit = 0 THEN c * 256 ELSE shifted(after[bit - 1])
  IN  after[8]

CalcCrc(crc, byte) ==
  ((crc * 256) % 65536) ^^ CRCTable((crc \div 256) ^^ byte)

IdCrc(o) ==                            \* of the mark and the first four bytes
  LET start == CalcCrc(IF o.density THEN 52660 ELSE 65535, IdMark)   \* 0xcdb4
      upto[k \in 0..4] ==
        IF k = 0 THEN start ELSE CalcCrc(upto[k - 1], o.ident[k - 1])
  IN  upto[4]

CrcIs(crc, hi, lo) == crc \div 256 = hi /\ crc % 256 = lo

-----------------------------------------------------------------------------
(* The environment: the track fdi2raw makes of the sectors on a disc, when  *)
(* it is read in the density it was written in.  The checksum is the        *)
(* remainder of the bits of the field, with the three syncs of double       *)
(* density, after 16 ones: each bit comes in at the top.                    *)
Remainder(bytes) ==
  LET bit(k) == (bytes[(k \div 8) + 1] \div 2^(7 - (k % 8))) % 2
      next(n, in) ==
        IF (n \div 32768) # in THEN ((2 * n) % 65536) ^^ Polynomial
        ELSE (2 * n) % 65536
      after[k \in 0..(8 * Len(bytes))] ==
        IF k = 0 THEN 65535 ELSE next(after[k - 1], bit(k - 1))
  IN  after[8 * Len(bytes)]

Plain(bytes) == [k \in DOMAIN bytes |-> [k |-> "byte", b |-> bytes[k]]]

Field(double, mark, bytes, good) ==
  LET syncs == IF double THEN <<Sync, Sync, Sync>> ELSE <<>>
      crc == Remainder([k \in DOMAIN syncs |-> Sync.b] \o <<mark>> \o bytes)
      low == IF good THEN crc % 256 ELSE (crc + 1) % 256
  IN  Plain(<<0>>) \o syncs
        \o (IF double THEN Plain(<<mark>>) ELSE <<Mark(mark)>>)
        \o Plain(bytes \o <<crc \div 256, low>>)

IdOf(sector) == <<sector.track, 0, sector.sector, sector.size>>

SectorWords(double, sector) ==
  Field(double, IdMark, IdOf(sector), sector.idgood)
    \o Field(double, IF sector.deleted THEN DeletedMark ELSE DataMark,
             sector.bytes, sector.datagood)

RawTrack(d, t, double) ==
  LET words[k \in 0..Len(d.sectors[t])] ==
        IF k = 0 THEN <<>>
        ELSE words[k - 1] \o SectorWords(double, d.sectors[t][k])
  IN  IF double = d.double THEN words[Len(d.sectors[t])]
      ELSE Plain([k \in 1..IndexHole |-> 0])

-----------------------------------------------------------------------------
(* The commands *)
Command ==
  /\ ~Busy(w) /\ commands < MaxCommands /\ pos \in Starts
  /\ commands' = commands + 1 /\ moved' = <<>>
  /\ UNCHANGED <<disc, pos>>

Seek(cmd) ==                           \* fdi_seek; bound: tracks of the disc
  \E to \in Tracks :
    LET wd == IF cmd = "seek" THEN WriteDataRegister(w, to) ELSE w
        t == SeekTarget(wd, cmd)
    IN  /\ Command /\ t \in Tracks
        /\ w' = [StartSeek(wd, cmd) EXCEPT !.fdctime = "seek"]
        /\ track' = t
        /\ raw' = [double \in BOOLEAN |-> RawTrack(disc, t, double)]
        /\ UNCHANGED op

(* fdi_readsector, fdi_writesector, fdi_readaddress, fdi_format.  A write   *)
(* in double density does nothing: fdi_poll does not count fdinotfound.     *)
Requested(wd, cmd, double) ==
  LET named == [op EXCEPT !.revs = 0, !.track = wd.track]
  IN  CASE cmd = "read" ->
             [named EXCEPT !.sector = wd.sector, !.density = double, !.read = TRUE]
        [] cmd = "write" ->
             [named EXCEPT !.sector = wd.sector, !.write = @ \/ ~double]
        [] cmd = "address" -> [named EXCEPT !.density = double, !.address = TRUE]
        [] cmd = "format" -> [named EXCEPT !.density = double, !.write = TRUE]

(* The driver names a track and a sector to read one.  It reads addresses   *)
(* where they are sound, and after no bad one: fdiread and fdireadaddr stay *)
(* set, so that a command then begins in the middle of a field.             *)
Transfer(cmd) ==
  \E t \in Tracks, sector \in Sectors, double \in BOOLEAN :
    LET wd == [w EXCEPT !.track = t, !.sector = sector]
        sectors == disc.sectors[track]
    IN  /\ Command /\ commands > 0
        /\ cmd # "read" => t = track /\ sector = 0
        /\ cmd = "address" =>
             ~op.read /\ \A k \in DOMAIN sectors : sectors[k].idgood
        /\ w' = StartTransfer(wd, cmd) /\ op' = Requested(wd, cmd, double)
        /\ UNCHANGED <<track, raw>>

-----------------------------------------------------------------------------
(* fdi_poll, on a record s of the controller and the operation *)
FdcHeaderCrcError(c) == EndWith(c, {"notfound", "crc"})
FdcDataCrcError(c) == EndWith(c, {"crc"})

Named(o) == o.ident[0] = o.track /\ o.ident[2] = o.sector

IdentifierRead_AnyCrc(s) ==            \* mutant: the checksum is not looked at
  IF s.op.address THEN [s EXCEPT !.w = FdcFinishRead(@), !.op.address = FALSE]
  ELSE IF Named(s.op)
  THEN [s EXCEPT !.op.next = TRUE, !.op.id = FALSE,
                 !.op.size = 2^(s.op.ident[3] + SizeBits) + 2]
  ELSE s

(* All six bytes of an identifier have passed. *)
IdentifierRead(s) ==
  LET good == CrcIs(IdCrc(s.op), s.op.ident[4], s.op.ident[5])
  IN  CASE ~Named(s.op) /\ ~s.op.address -> s
        [] ~good /\ s.op.address ->
             [s EXCEPT !.w = FdcFinishRead(FdcData(@, s.op.sector)),
                       !.returned = TRUE]
        [] ~good /\ Named(s.op) /\ ~s.op.address ->
             [s EXCEPT !.w = FdcHeaderCrcError(@), !.returned = TRUE]
        [] good /\ s.op.address ->
             [s EXCEPT !.w = FdcFinishRead(@), !.op.address = FALSE]
        [] good /\ Named(s.op) /\ ~s.op.address ->
             [s EXCEPT !.op.next = TRUE, !.op.id = FALSE,
                       !.op.size = 2^(s.op.ident[3] + SizeBits) + 2]

IdentifierByte(s, b) ==
  LET put == [s EXCEPT !.op.ident = [@ EXCEPT ![5 - s.op.left] = b],
                       !.w = IF s.op.address /\ s.op.left > 1
                             THEN FdcData(@, b) ELSE @]
  IN  IF s.op.left = 0 THEN IdentifierRead(put) ELSE put

(* The bytes go to the controller two words late: the last two are the      *)
(* checksum.                                                                *)
Oldest(o) == o.last[2]
Holding(o, b) == [o EXCEPT !.last = IF @ = <<>> THEN <<b>> ELSE <<b, Head(@)>>]

SectorRead(s) ==
  LET o == [s.op EXCEPT !.read = FALSE, !.data = FALSE]
      sent == FdcFinishRead(FdcData(s.w, Oldest(s.op)))
  IN  IF CrcIs(o.crc, o.sectorcrc[0], o.sectorcrc[1])
      THEN [s EXCEPT !.op = o, !.w = sent]
      ELSE [s EXCEPT !.op = o, !.w = FdcDataCrcError(sent), !.returned = TRUE]

SectorByte(s, b) ==
  LET left == s.op.left
      o == IF left > 1 THEN [s.op EXCEPT !.crc = CalcCrc(@, b)]
           ELSE [s.op EXCEPT !.sectorcrc = [@ EXCEPT ![1 - left] = b]]
  IN  IF left = 0 THEN SectorRead([s EXCEPT !.op = o])
      ELSE [s EXCEPT !.op = Holding(o, b),
                     !.w = IF Len(o.last) = 2 THEN FdcData(@, Oldest(o)) ELSE @]

Byte(s, b) ==
  IF s.op.left = 0 THEN s
  ELSE LET taken == [s EXCEPT !.op.left = @ - 1]
           id == IF s.op.id THEN IdentifierByte(taken, b) ELSE taken
       IN  IF s.op.data /\ ~id.returned THEN SectorByte(id, b) ELSE id

BeginIdentifier(s) == [s EXCEPT !.op.left = 6, !.op.id = TRUE]

BeginData(s, mark) ==
  IF ~s.op.next THEN s
  ELSE [s EXCEPT !.op.left = s.op.size, !.op.data = TRUE, !.op.next = FALSE,
                 !.op.crc = CalcCrc(IF s.op.density THEN 52660 ELSE 65535, mark),
                 !.op.last = <<>>]

(* In double density the byte after the last sync is the mark.  A deleted   *)
(* mark is not known there.                                                 *)
Marks(s, word) ==
  CASE s.returned -> s
    [] s.op.density ->
         IF word = Sync THEN [s EXCEPT !.op.dd = TRUE]
         ELSE LET done == [s EXCEPT !.op.dd = FALSE]
              IN  CASE s.op.dd /\ word.b = IdMark -> BeginIdentifier(done)
                    [] s.op.dd /\ word.b = DataMark -> BeginData(done, DataMark)
                    [] OTHER -> done
    [] ~s.op.density /\ word = Mark(IdMark) -> BeginIdentifier(s)
    [] ~s.op.density /\ word \in {Mark(DataMark), Mark(DeletedMark)} ->
         BeginData(s, word.b)
    [] OTHER -> s

TrackWords == raw[op.density]
Place == IF pos >= Len(TrackWords) THEN 0 ELSE pos

Passing(s, word) ==
  LET round == Place + 1 = IndexHole
      seen == [s EXCEPT !.op.revs = IF round THEN @ + 1 ELSE @]
  IN  CASE s.op.write -> [s EXCEPT !.op.write = FALSE, !.w = FdcWriteProtect(@)]
        [] ~s.op.write /\ ~s.op.read /\ ~s.op.address -> s
        [] ~s.op.write /\ (s.op.read \/ s.op.address) /\ seen.op.revs = 3 /\ round ->
             [seen EXCEPT !.w = FdcNotFound(@), !.op.read = FALSE, !.op.address = FALSE]
        [] OTHER -> Marks(Byte(seen, word.b), word)

(* A word is 16 polls of 16 cycles: the 200 cycles after a transfer are    *)
(* over before the next, and the driver has served a request.               *)
Poll ==
  /\ w.motoron /\ w.fdctime # "finish" /\ ~Requesting(w)
  /\ ~(op.id /\ op.data)               \* only on tracks with a field missing
  /\ LET done == Passing([w |-> w, op |-> op, returned |-> FALSE],
                         TrackWords[Place + 1])
     IN  w' = done.w /\ op' = done.op
  /\ pos' = Place + 1
  /\ UNCHANGED <<disc, track, raw, commands, moved>>

FdcTimer ==
  /\ w.motoron /\ w.fdctime # "none" /\ ~Requesting(w)
  /\ w' = Callback(w) /\ moved' = <<>>
  /\ UNCHANGED <<disc, track, raw, pos, op, commands>>

SpinTimer ==
  /\ w.motorspin /\ pos \in Starts
  /\ w' = [SpinDown(w) EXCEPT !.motorspin = FALSE]
  /\ UNCHANGED <<disc, track, raw, pos, op, commands, moved>>

ReadData ==
  /\ w.command # "write" /\ Requesting(w)
  /\ w' = ReadDataRegister(w) /\ moved' = Append(moved, w.data)
  /\ UNCHANGED <<disc, track, raw, pos, op, commands>>

WriteData ==
  /\ w.command = "write" /\ Requesting(w)
  /\ w' = WriteDataRegister(w, 0)
  /\ UNCHANGED <<disc, track, raw, pos, op, commands, moved>>

ReadStatus == ~Busy(w) /\ UNCHANGED fdi    \* it changes nothing, read1770

Next ==
  \/ \E cmd \in {"restore", "seek"} : Seek(cmd)
  \/ \E cmd \in TransferCommands : Transfer(cmd)
  \/ Poll \/ FdcTimer \/ SpinTimer \/ ReadData \/ WriteData \/ ReadStatus

Spec == Init /\ [][Next]_fdi

-----------------------------------------------------------------------------
TypeOK ==
  /\ w \in Controller /\ disc \in Discs /\ track \in Tracks
  /\ \A double \in BOOLEAN : raw[double] \in Seq(Words)
  /\ pos \in Nat /\ op \in Operation
  /\ commands \in 0..MaxCommands /\ moved \in Seq(Bytes)

(* The sectors a command could find, and those of its name.                 *)
Here ==
  IF op.density # disc.double THEN {}
  ELSE {disc.sectors[track][k] : k \in DOMAIN disc.sectors[track]}

Wanted == {s \in Here : s.track = op.track /\ s.sector = op.sector}

Finished(cmd) ==
  w.command = cmd /\ w.fdctime = "finish" /\ Busy(w) /\ ~Requesting(w)

(* A read that ends well has moved all the bytes of a sound sector of that  *)
(* name; one that finds nothing has passed all of the track, and none is    *)
(* there; an error of a checksum is one of the field it names.  An address  *)
(* is that of a sector on the track.                                        *)
FdiInStep ==
  /\ Finished("read") =>
       \E s \in Wanted : s.idgood /\ s.datagood /\ moved = s.bytes
  /\ w.command = "read" =>
       /\ w.status = {"notfound"} => Wanted = {}
       /\ w.status = {"notfound", "crc"} => \E s \in Wanted : ~s.idgood
       /\ w.status = {"crc"} => \E s \in Wanted : s.idgood /\ ~s.datagood
  /\ Finished("address") => \E s \in Here : moved = IdOf(s)
=============================================================================
