--------------------------- MODULE AdfDiscProofs ---------------------------
(***************************************************************************)
(* Proofs about AdfDisc for every format, size and number of tracks: the   *)
(* types, and that each transfer moves the bytes of the sector it names.   *)
(*                                                                         *)
(* Each phase of a command is a predicate that says what the operation of  *)
(* adf.c has done so far; the controller and adf.c keep no record of each  *)
(* other, so that exactly one phase holds is what ties them.  The lemmas   *)
(* Poll... say what one poll leaves in a phase.                            *)
(***************************************************************************)
EXTENDS AdfDisc, Wd1770Proofs

USE RegisterAssumption, AdfAssumption

-----------------------------------------------------------------------------
(* The phases of a command.                                                 *)

(* Which operation of adf.c is in progress                                  *)
Only(kind) ==
  /\ op.read <=> kind = "read"
  /\ op.write <=> kind = "write"
  /\ op.address <=> kind = "address"
  /\ op.format <=> kind = "format"

Runs(cmd, t) == Busy(w) /\ w.command = cmd /\ w.fdctime = t

(* The byte p of the sector of the operation                                *)
At(p) == op.sector * SectorSize + p

OnTrack ==
  /\ op.track = trackc /\ op.side \in OfSide(format)
  /\ op.sector \in 0..(format.sectors - 1)

(* A format of a double stepped disc has gone to another track: from then   *)
(* on the track buffer need not hold the track under the head.              *)
Astray == Misplaced(image)
SameTrack == \A s \in OfSide(format) : Astray \/ buffer[s] = image[trackc][s]

(* Of a sector read so far, all but a byte the CPU has not taken            *)
ReadSoFar ==
  /\ Requesting(w) => op.pos > 0 /\ w.data = buffer[op.side][At(op.pos - 1)]
  /\ Len(moved) = IF Requesting(w) THEN op.pos - 1 ELSE op.pos
  /\ \A k \in 1..Len(moved) : moved[k] = buffer[op.side][At(k - 1)]

(* Of a sector written so far, the bytes below n                            *)
WrittenSoFar(n, b, i) ==
  \A s \in OfSide(format), p \in Positions(format) :
    b[s][p] = IF s = op.side /\ At(0) <= p /\ p < At(n)
              THEN moved[p - At(0) + 1]
              ELSE IF Astray THEN b[s][p] ELSE i[trackc][s][p]

(* Of a side formatted so far                                               *)
BlankSoFar(n, b, i) ==
  \A s \in OfSide(format), p \in Positions(format) :
    b[s][p] = IF s = op.side /\ p < n THEN 0
              ELSE IF Astray THEN b[s][p] ELSE i[trackc][s][p]

(* No command runs.                                                         *)
Idle ==
  /\ ~Busy(w) /\ w.fdctime = "none"
  /\ Only("none") /\ op.notfound = 0
  /\ commands > 0 => SameTrack

(* The head moves.                                                          *)
Moving ==
  /\ Busy(w) /\ w.command \in SeekCommands /\ w.fdctime = "seek"
  /\ ~Requesting(w) /\ commands > 0
  /\ Only("none") /\ op.notfound = 0 /\ SameTrack

(* The sector is not there.                                                 *)
Missing ==
  /\ Busy(w) /\ w.command \in TransferCommands /\ w.fdctime = "none"
  /\ Only("none") /\ op.notfound > 0
  /\ SameTrack /\ commands > 0

Reading ==
  /\ Runs("read", "none") /\ Only("read")
  /\ op.notfound = 0 /\ op.pos < SectorSize
  /\ OnTrack /\ SameTrack /\ ReadSoFar /\ commands > 0

ReadOver ==
  /\ Runs("read", "finish") /\ Only("none")
  /\ op.notfound = 0 /\ op.pos = SectorSize
  /\ OnTrack /\ SameTrack /\ ReadSoFar /\ commands > 0

Writing ==
  /\ Runs("write", "none") /\ Only("write")
  /\ op.notfound = 0 /\ op.pos < SectorSize /\ OnTrack /\ commands > 0
  /\ writeprot => op.pos = 0
  /\ image = before
  /\ IF ~Requesting(w) /\ w.written
     THEN Len(moved) = op.pos + 1 /\ moved[op.pos + 1] = w.data
     ELSE Len(moved) = op.pos
  /\ WrittenSoFar(op.pos, buffer, image)
  /\ op.pos <= Block /\ (op.pos = Block => ~Requesting(w) /\ ~w.written)

WriteOver ==
  /\ Runs("write", "finish") /\ Only("none")
  /\ op.notfound = 0 /\ OnTrack /\ commands > 0
  /\ ~Requesting(w) /\ Len(moved) = SectorSize /\ format.blocks = 1
  /\ SameTrack /\ WrittenSoFar(SectorSize, buffer, before)
  /\ \A t \in Tracks \ {trackc} : image[t] = before[t]

Addressing ==
  /\ Runs("address", "none") /\ Only("address")
  /\ op.notfound = 0 /\ op.pos < 7 /\ SameTrack /\ commands > 0

AddressOver ==
  /\ Runs("address", "finish") /\ Only("none")
  /\ op.notfound = 0 /\ SameTrack /\ commands > 0

Formatting ==
  /\ Runs("format", "none") /\ Only("format")
  /\ op.notfound = 0 /\ op.pos < SectorSize /\ OnTrack /\ commands > 0
  /\ ~Requesting(w)
  /\ writeprot => At(op.pos) = 0
  /\ image = before /\ BlankSoFar(At(op.pos), buffer, image)

FormatOver ==
  /\ Runs("format", "finish") /\ Only("none")
  /\ op.notfound = 0 /\ op.track = trackc /\ op.side \in OfSide(format)
  /\ commands > 0 /\ SameTrack
  /\ \A s \in OfSide(format), p \in Positions(format) :
       /\ buffer[s][p] = IF s = op.side THEN 0
                         ELSE IF Misplaced(before) THEN buffer[s][p]
                         ELSE before[trackc][s][p]
       /\ image[Stepped(trackc)][s][p] = buffer[s][p]
  /\ \A t \in Tracks \ {Stepped(trackc)} : image[t] = before[t]

Phase ==
  \/ Idle \/ Moving \/ Missing \/ Reading \/ ReadOver \/ Writing \/ WriteOver
  \/ Addressing \/ AddressOver \/ Formatting \/ FormatOver

(* The types: those of AdfTypeOK, with a controller that is Sound           *)
Images == [Tracks -> [OfSide(format) -> [Positions(format) -> Bytes]]]

Typed ==
  /\ w \in Good /\ format \in Formats /\ op \in Operation
  /\ trackc \in Tracks
  /\ buffer \in TrackData(format) /\ image \in Images /\ before \in Images
  /\ writeprot \in BOOLEAN /\ commands \in 0..MaxCommands
  /\ moved \in Seq(Bytes)

AdfInv == Typed /\ Phase

-----------------------------------------------------------------------------
(* Sizes and places.                                                        *)

(* What a format is.  A sector has a whole number of bytes, and a track a   *)
(* whole number of sectors.  (adf_load, adl_load, adl_loadex)               *)
LEMMA FormatSizes ==
  ASSUME format \in Formats
  PROVE  /\ format.sectors \in Nat \ {0} /\ format.sectors <= MaxSector + 1
         /\ format.blocks \in Nat \ {0}
         /\ format.adl \in BOOLEAN /\ format.dblstep \in BOOLEAN
         /\ (format.dblstep => format.blocks # 1) /\ format.sectors \in Bytes
         /\ SectorSize \in Nat \ {0} /\ Block <= SectorSize
         /\ (format.blocks = 1 <=> SectorSize = Block)
         /\ Positions(format) = 0..(format.sectors * SectorSize - 1)
         /\ OfSide(format) \subseteq Sides
<1>1. /\ format.sectors \in Nat \ {0} /\ format.sectors <= MaxSector + 1
      /\ format.blocks \in Nat \ {0}
      /\ format.adl \in BOOLEAN /\ format.dblstep \in BOOLEAN
      /\ (format.dblstep => format.blocks # 1) /\ format.sectors \in Bytes
  <2>1. format \in [ sectors : 1..(MaxSector + 1), blocks : Nat \ {0},
                     adl : BOOLEAN, dblstep : BOOLEAN ]
        /\ (format.dblstep => format.blocks # 1) /\ format.sectors \in Bytes
    BY Zenon
  <2> QED  BY <2>1
<1> DEFINE a == format.sectors
           b == format.blocks
<1>2. a \in Nat \ {0} /\ b \in Nat \ {0} /\ Block \in Nat \ {0}
  BY <1>1
<1> HIDE DEF a, b
<1>3. b * Block \in Nat \ {0} /\ Block <= b * Block
      /\ (b = 1 <=> b * Block = Block)
  <2>1. b * Block = (b - 1) * Block + Block /\ (b - 1) * Block >= 0
    BY <1>2
  <2>2. b # 1 => (b - 1) * Block > 0
    BY <1>2
  <2>3. b * Block \in Int /\ (b - 1) * Block \in Int
    BY <1>2
  <2>4. b = 1 => b * Block = Block
    BY <1>2
  <2> QED  BY <1>2, <2>1, <2>2, <2>3, <2>4
<1>4. a * b * Block = a * (b * Block)
  BY <1>2
<1>5. SectorSize = b * Block /\ Positions(format) = 0..(a * b * Block - 1)
  BY DEF SectorSize, Positions, a, b
<1>6. OfSide(format) \subseteq Sides
  BY DEF OfSide, Sides
<1> QED  BY <1>1, <1>3, <1>4, <1>5, <1>6 DEF a, b

(* A byte of a sector of the track is within the track, and before the next *)
(* sector.                                                                  *)
LEMMA InTrack ==
  ASSUME format \in Formats,
         NEW q \in 0..(format.sectors - 1), NEW p \in 0..(SectorSize - 1)
  PROVE  /\ q * SectorSize + p \in Positions(format)
         /\ q * SectorSize \in Nat /\ (q + 1) * SectorSize = q * SectorSize + SectorSize
<1> DEFINE z == SectorSize
           m == format.sectors
<1>1. z \in Nat \ {0} /\ m \in Nat \ {0} /\ q \in 0..(m - 1) /\ p \in 0..(z - 1)
  BY FormatSizes
<1>2. Positions(format) = 0..(m * z - 1)
  BY FormatSizes
<1> HIDE DEF z, m
<1>3. (m - 1 - q) * z >= 0 /\ q * z >= 0
  BY <1>1
<1>4. (m - 1 - q) * z = m * z - z - q * z /\ (q + 1) * z = q * z + z
  BY <1>1
<1>5. q * z \in Int /\ m * z \in Int
  BY <1>1
<1>6. q * z + p <= m * z - 1 /\ q * z + p >= 0
  BY <1>1, <1>3, <1>4, <1>5
<1> QED  BY <1>1, <1>2, <1>3, <1>4, <1>5, <1>6 DEF z

(* Sectors are found by dividing.                                           *)
LEMMA SectorOf ==
  ASSUME format \in Formats, NEW q \in Nat, NEW p \in Nat
  PROVE  /\ p \div SectorSize = q
              <=> q * SectorSize <= p /\ p < q * SectorSize + SectorSize
         /\ p \div SectorSize = q => p % SectorSize = p - q * SectorSize
<1> DEFINE z == SectorSize
           d == p \div z
           r == p % z
<1>1. z \in Nat \ {0}
  BY FormatSizes
<1> HIDE DEF z
<1>2. d \in Nat /\ r \in 0..(z - 1) /\ p = z * d + r
  BY <1>1
<1>3. z * d = d * z /\ d * z \in Int /\ q * z \in Int
  BY <1>1, <1>2
<1> HIDE DEF d, r
<1>4. d = q => q * z <= p /\ p < q * z + z /\ r = p - q * z
  BY <1>1, <1>2, <1>3
<1>5. ASSUME d < q PROVE ~(q * z <= p)
  <2>1. (q - 1 - d) * z >= 0 /\ (q - 1 - d) * z = q * z - z - d * z
    BY <1>1, <1>2, <1>5
  <2> QED  BY <1>1, <1>2, <1>3, <2>1
<1>6. ASSUME d > q PROVE ~(p < q * z + z)
  <2>1. (d - 1 - q) * z >= 0 /\ (d - 1 - q) * z = d * z - z - q * z
    BY <1>1, <1>2, <1>6
  <2> QED  BY <1>1, <1>2, <1>3, <2>1
<1> QED  BY <1>2, <1>4, <1>5, <1>6 DEF z, d, r

-----------------------------------------------------------------------------
(* A poll, stage by stage.  (adf_poll)                                      *)

(* What the stages of a poll pass on to each other                          *)
St(wd, o, b, i, r) ==
  [w |-> wd, op |-> o, buffer |-> b, image |-> i, returned |-> r]

(* Two fields change.                                                       *)
Both(s, x, y) == [s EXCEPT !.w = x, !.op = y]
Left(s, x, y) == [s EXCEPT !.w = x, !.returned = y]

(* They change one after the other.                                         *)
LEMMA StBoth ==
  ASSUME NEW wd, NEW o, NEW b, NEW i, NEW r, NEW x, NEW y
  PROVE  /\ Both(St(wd, o, b, i, r), x, y) = St(x, y, b, i, r)
         /\ Left(St(wd, o, b, i, r), x, y) = St(x, o, b, i, y)
<1> DEFINE s == St(wd, o, b, i, r)
           t == St(x, o, b, i, r)
           u == St(x, y, b, i, r)
           v == St(x, o, b, i, y)
<1>1. [s EXCEPT !.w = x] = t
  BY DEF St
<1>2. [t EXCEPT !.op = y] = u
  BY DEF St
<1>3. [t EXCEPT !.returned = y] = v
  BY DEF St
<1> HIDE DEF s, t, u, v
<1>4. /\ Both(s, x, y) = [[s EXCEPT !.w = x] EXCEPT !.op = y]
      /\ Left(s, x, y) = [[s EXCEPT !.w = x] EXCEPT !.returned = y]
  BY Zenon DEF Both, Left
<1>5. Both(s, x, y) = u /\ Left(s, x, y) = v
  BY <1>1, <1>2, <1>3, <1>4, Zenon
<1> QED  BY <1>5 DEF s, u, v

(* Stages of operations that are not in progress do nothing.                *)
LEMMA OtherStages ==
  ASSUME NEW s
  PROVE  /\ s.op.notfound = 0 => NotFoundStage(s) = s
         /\ ~s.op.read => ReadStage(s) = s
         /\ ~s.op.write => WriteStage(s) = s
         /\ ~s.op.address => AddressStage(s) = s
         /\ ~s.op.format => FormatStage(s) = s
<1>1. s.op.notfound = 0 => NotFoundStage(s) = s
  BY Zenon DEF NotFoundStage
<1>2. ~s.op.read => ReadStage(s) = s
  BY Zenon DEF ReadStage
<1>3. ~s.op.write => WriteStage(s) = s
  BY Zenon DEF WriteStage
<1>4. ~s.op.address => AddressStage(s) = s
  BY Zenon DEF AddressStage
<1>5. ~s.op.format => FormatStage(s) = s
  BY Zenon DEF FormatStage
<1> QED  BY <1>1, <1>2, <1>3, <1>4, <1>5

(* The end of a write or format in the controller and on the disc           *)
Image(o, b, i) ==
  [i EXCEPT ![Stepped(o.track)] = [x \in OfSide(format) |-> b[x]]]
Put(o, b, v) == [b EXCEPT ![o.side][o.sector * SectorSize + o.pos] = v]
Next1(o) == [o EXCEPT !.pos = o.pos + 1]

(* The operation is over.                                                   *)
NoWrite(o) == [o EXCEPT !.write = FALSE]
NoFormat(o) == [o EXCEPT !.format = FALSE]

(* A stage has returned.                                                    *)
Returned == TRUE

(* The controller when the drive has taken the CPU's byte                   *)
Taken(wd, o) == FdcGetData(wd, o.pos = Block - 1)

(* The next sector of a format                                              *)
Advance(o) == [o EXCEPT !.pos = 0, !.sector = o.sector + 1]

(* The countdown to "not found"                                             *)
LEMMA NotFoundSt ==
  ASSUME NEW wd, NEW o, NEW b, NEW i, NEW r, o.notfound # 0
  PROVE  NotFoundStage(St(wd, o, b, i, r))
           = St(IF o.notfound = 1 THEN FdcNotFound(wd) ELSE wd,
                [o EXCEPT !.notfound = o.notfound - 1], b, i, r)
<1> DEFINE s == St(wd, o, b, i, r)
           x == IF o.notfound = 1 THEN FdcNotFound(wd) ELSE wd
           y == [o EXCEPT !.notfound = o.notfound - 1]
<1>1. s.w = wd /\ s.op = o
  BY DEF St
<1> HIDE DEF s
<1>2. NotFoundStage(s) = Both(s, x, y)
  BY <1>1, Zenon DEF NotFoundStage, Both
<1> HIDE DEF x, y
<1>3. Both(s, x, y) = St(x, y, b, i, r)
  BY StBoth, SMT DEF s
<1> QED  BY <1>2, <1>3, Zenon DEF s, x, y

(* A byte passes: its place in the sector is the next, and it may be stored. *)
LEMMA PassedSt ==
  ASSUME NEW wd, NEW o, NEW b, NEW i, NEW r
  PROVE  /\ Passed(St(wd, o, b, i, r)) = St(wd, Next1(o), b, i, r)
         /\ \A v : Stored(St(wd, o, b, i, r), v)
                    = St(wd, Next1(o), Put(o, b, v), i, r)
<1> SUFFICES ASSUME NEW v
    PROVE  /\ Passed(St(wd, o, b, i, r)) = St(wd, Next1(o), b, i, r)
           /\ Stored(St(wd, o, b, i, r), v)
                = St(wd, Next1(o), Put(o, b, v), i, r)
  OBVIOUS
<1> DEFINE s == St(wd, o, b, i, r)
           c == Put(o, b, v)
           t == St(wd, o, c, i, r)
           x == Next1(o)
<1>1. s.op = o /\ s.buffer = b /\ t.op = o
  BY DEF St
<1>3. x = [o EXCEPT !.pos = o.pos + 1]
  BY DEF Next1
<1>4. c = [b EXCEPT ![o.side][o.sector * SectorSize + o.pos] = v]
  BY DEF Put
<1> HIDE DEF x, c
<1>2. /\ [s EXCEPT !.buffer = c] = t
      /\ [s EXCEPT !.op = x] = St(wd, x, b, i, r)
      /\ [t EXCEPT !.op = x] = St(wd, x, c, i, r)
  BY DEF St
<1> HIDE DEF s, t
<1>5. Passed(s) = [s EXCEPT !.op = x] /\ Passed(t) = [t EXCEPT !.op = x]
  BY <1>1, <1>3, Zenon DEF Passed
<1>7. Stored(s, v) = Passed(t)
  <2>1. Stored(s, v) = Passed([s EXCEPT !.buffer = c])
    BY <1>1, <1>4, Zenon DEF Stored, Here
  <2> QED  BY <1>2, <2>1
<1> QED  BY <1>2, <1>5, <1>7, Zenon DEF s, x, c

(* A sector that is read sends a byte, and the last one ends it.            *)
LEMMA ReadSt ==
  ASSUME NEW wd, NEW o, NEW b, NEW i, NEW r, o.read
  PROVE  LET sent == FdcData(wd, b[o.side][o.sector * SectorSize + o.pos])
             last == o.pos + 1 = SectorSize
         IN  ReadStage(St(wd, o, b, i, r))
               = St(IF last THEN FdcFinishRead(sent) ELSE sent,
                    [Next1(o) EXCEPT !.read = ~last], b, i, r)
<1> DEFINE s == St(wd, o, b, i, r)
           t == St(wd, Next1(o), b, i, r)
           sent == FdcData(wd, b[o.side][o.sector * SectorSize + o.pos])
           last == o.pos + 1 = SectorSize
           x == IF last THEN FdcFinishRead(sent) ELSE sent
           n == Next1(o)
           y == [n EXCEPT !.read = ~last]
<1>1. s.w = wd /\ s.op = o /\ s.buffer = b /\ t.op = n
  BY DEF St
<1>2. Passed(s) = t
  BY PassedSt
<1> HIDE DEF s, t, n
<1>3. ReadStage(s) = Both(t, x, y)
  BY <1>1, <1>2, Zenon DEF ReadStage, SectorDone, Here, Both
<1> HIDE DEF x, y
<1>4. Both(t, x, y) = St(x, y, b, i, r)
  BY StBoth, SMT DEF t
<1> QED  BY <1>3, <1>4, Zenon DEF s, x, y, n

(* The track goes back to the image.                                        *)
LEMMA WriteBackSt ==
  ASSUME NEW wd, NEW o, NEW b, NEW i, NEW r
  PROVE  WriteBack(Finish(St(wd, o, b, i, r)))
           = St(FdcFinishRead(wd), o, b, Image(o, b, i), r)
<1> DEFINE s == St(wd, o, b, i, r)
           x == FdcFinishRead(wd)
           t == St(x, o, b, i, r)
           y == Image(o, b, i)
<1>1. s.w = wd /\ t.op = o /\ t.buffer = b /\ t.image = i
  BY DEF St
<1>3. y = [i EXCEPT ![Stepped(o.track)] = [z \in OfSide(format) |-> b[z]]]
  BY DEF Image
<1> HIDE DEF y
<1>2. [s EXCEPT !.w = x] = t /\ [t EXCEPT !.image = y] = St(x, o, b, y, r)
  BY DEF St
<1> HIDE DEF s, t
<1>4. Finish(s) = t
  BY <1>1, <1>2, Zenon DEF Finish
<1>5. WriteBack(t) = [t EXCEPT !.image = y]
  BY <1>1, <1>3, Zenon DEF WriteBack
<1> QED  BY <1>2, <1>4, <1>5, Zenon DEF s, y

(* What a protected disc refuses                                            *)
LEMMA RefusedSt ==
  ASSUME NEW wd, NEW o, NEW b, NEW i, NEW r
  PROVE  /\ StopWrite(Refused(St(wd, o, b, i, r)))
              = St(FdcWriteProtect(wd), NoWrite(o), b, i, Returned)
         /\ StopFormat(Refused(St(wd, o, b, i, r)))
              = St(FdcWriteProtect(wd), NoFormat(o), b, i, Returned)
<1> DEFINE yes == Returned
           s == St(wd, o, b, i, r)
           x == FdcWriteProtect(wd)
           t == St(x, o, b, i, yes)
           y == NoWrite(o)
           z == NoFormat(o)
<1> HIDE DEF yes, x, y, z
<1>1. s.w = wd /\ t.op = o
  BY DEF St
<1>2. /\ [t EXCEPT !.op = y] = St(x, y, b, i, yes)
      /\ [t EXCEPT !.op = z] = St(x, z, b, i, yes)
  BY DEF St
<1>3. Left(s, x, yes) = t
  BY StBoth, SMT
<1> HIDE DEF s, t
<1>4. Refused(s) = t
  BY <1>1, <1>3, Zenon DEF Refused, Left, x, yes, Returned
<1>5. StopWrite(t) = [t EXCEPT !.op = y] /\ StopFormat(t) = [t EXCEPT !.op = z]
  BY <1>1, Zenon DEF StopWrite, StopFormat, y, z, NoWrite, NoFormat
<1> QED  BY <1>2, <1>4, <1>5, Zenon DEF s, x, y, z, yes, Returned

(* A sector that is written is refused, or waits for the CPU, or takes a    *)
(* byte, and the last one ends it.                                          *)
LEMMA WriteSt ==
  ASSUME NEW wd, NEW o, NEW b, NEW i, NEW r, o.write
  PROVE  LET s == St(wd, o, b, i, r)
             v == DataFor(wd)
             got == Taken(wd, o)
             c == Put(o, b, v)
             off == NoWrite(Next1(o))
         IN  /\ writeprot => WriteStage(s)
                  = St(FdcWriteProtect(wd), NoWrite(o), b, i, Returned)
             /\ ~writeprot /\ v = NoByte => WriteStage(s) = St(wd, o, b, i, Returned)
             /\ ~writeprot /\ v # NoByte /\ o.pos + 1 # SectorSize =>
                  WriteStage(s) = St(got, Next1(o), c, i, r)
             /\ ~writeprot /\ v # NoByte /\ o.pos + 1 = SectorSize =>
                  WriteStage(s)
                    = St(FdcFinishRead(got), off, c, Image(off, c, i), r)
<1> DEFINE yes == Returned
           s == St(wd, o, b, i, r)
           v == DataFor(wd)
           got == Taken(wd, o)
           c == Put(o, b, v)
           n == Next1(o)
           off == NoWrite(n)
           taken == St(got, o, b, i, r)
           put == St(got, n, c, i, r)
           fin == St(got, off, c, i, r)
<1>1. s.w = wd /\ s.op = o /\ put.op = n
  BY DEF St
<1>2. Stored(taken, v) = put
  BY PassedSt
<1>3. WriteBack(Finish(fin)) = St(FdcFinishRead(got), off, c, Image(off, c, i), r)
  BY WriteBackSt, SMT
<1>4. StopWrite(Refused(s))
        = St(FdcWriteProtect(wd), NoWrite(o), b, i, Returned)
  BY RefusedSt, Zenon
<1> HIDE DEF v, c, n, got, off, yes
<1>5. /\ [s EXCEPT !.w = got] = taken /\ [put EXCEPT !.op = off] = fin
      /\ [s EXCEPT !.returned = yes] = St(wd, o, b, i, yes)
  BY DEF St
<1> HIDE DEF s, taken, put, fin
<1>6. StopWrite(put) = fin
  BY <1>1, <1>5, Zenon DEF StopWrite, off, NoWrite
<1>7. CASE writeprot
  <2>1. WriteStage(s) = StopWrite(Refused(s))
    BY <1>1, <1>7, Zenon DEF WriteStage
  <2> QED  BY <1>4, <1>7, <2>1 DEF s
<1>8. CASE ~writeprot /\ v = NoByte
  <2>1. WriteStage(s) = St(wd, o, b, i, Returned)
    BY <1>1, <1>5, <1>8, Zenon DEF WriteStage, v, yes, Returned
  <2> QED  BY <1>8, <2>1 DEF s, v
<1>9. CASE ~writeprot /\ v # NoByte /\ o.pos + 1 # SectorSize
  <2>1. WriteStage(s) = put
    BY <1>1, <1>2, <1>5, <1>9, Zenon DEF WriteStage, SectorDone, v, got, Taken
  <2> QED  BY <1>9, <2>1 DEF s, v, put, n, got, c
<1>10. CASE ~writeprot /\ v # NoByte /\ o.pos + 1 = SectorSize
  <2>1. WriteStage(s) = WriteBack(Finish(fin))
    BY <1>1, <1>2, <1>5, <1>6, <1>10, Zenon DEF WriteStage, SectorDone, v, got, Taken
  <2>2. WriteStage(s) = St(FdcFinishRead(got), off, c, Image(off, c, i), r)
    BY <1>3, <2>1
  <2> QED  BY <1>10, <2>2 DEF s, v, got, c, off, n
<1>11. writeprot \/ ~writeprot
  OBVIOUS
<1> QED  BY <1>7, <1>8, <1>9, <1>10, <1>11 DEF s, v, got, c, off, n

(* An address sends a byte, and ends after the last one.                    *)
LEMMA AddressSt ==
  ASSUME NEW wd, NEW o, NEW b, NEW i, NEW r, ~St(wd, o, b, i, r).returned,
         o.address
  PROVE  LET s == St(wd, o, b, i, r)
         IN  /\ o.pos < 6 => AddressStage(s)
                  = St(FdcData(wd, AddressByte(o)), Next1(o), b, i, r)
             /\ ~(o.pos < 6) => AddressStage(s)
                  = St(IF o.pos = 6 THEN FdcFinishRead(wd) ELSE wd,
                       Addressed(o), b, i, r)
<1> DEFINE s == St(wd, o, b, i, r)
           n == Next1(o)
           t == St(wd, n, b, i, r)
           x == FdcData(wd, AddressByte(o))
           y == IF o.pos = 6 THEN FdcFinishRead(wd) ELSE wd
           off == Addressed(o)
<1>1. s.w = wd /\ s.op = o /\ ~s.returned /\ t.op = n /\ t.w = wd
  BY DEF St
<1>2. Passed(s) = t
  BY PassedSt, SMT
<1> HIDE DEF n, x, y, off
<1>3. [t EXCEPT !.w = x] = St(x, n, b, i, r)
  BY DEF St
<1>4. Both(s, y, off) = St(y, off, b, i, r)
  BY StBoth, SMT
<1> HIDE DEF s, t
<1>5. CASE o.pos < 6
  <2>1. AddressStage(s) = [t EXCEPT !.w = x]
    BY <1>1, <1>2, <1>5, Zenon DEF AddressStage, x
  <2> QED  BY <1>3, <1>5, <2>1 DEF s, x, n
<1>6. CASE ~(o.pos < 6)
  <2>1. AddressStage(s) = Both(s, y, off)
    BY <1>1, <1>6, Zenon DEF AddressStage, Both, y, off
  <2>2. AddressStage(s) = St(y, off, b, i, r)
    BY <1>4, <2>1
  <2> QED  BY <1>6, <2>2 DEF s, y, off
<1> QED  BY <1>5, <1>6 DEF s, x, y, n, off

(* A format is refused, or blanks a byte, and the last one ends it.         *)
LEMMA FormatSt ==
  ASSUME NEW wd, NEW o, NEW b, NEW i, NEW r, ~St(wd, o, b, i, r).returned,
         o.format
  PROVE  LET s == St(wd, o, b, i, r)
             c == Put(o, b, 0)
             on == Advance(Next1(o))
             off == NoFormat(on)
         IN  /\ writeprot => FormatStage(s)
                  = St(FdcWriteProtect(wd), NoFormat(o), b, i,
                       Returned)
             /\ ~writeprot /\ o.pos + 1 # SectorSize =>
                  FormatStage(s) = St(wd, Next1(o), c, i, r)
             /\ ~writeprot /\ o.pos + 1 = SectorSize
                  /\ on.sector # format.sectors =>
                  FormatStage(s) = St(wd, on, c, i, r)
             /\ ~writeprot /\ o.pos + 1 = SectorSize
                  /\ on.sector = format.sectors =>
                  FormatStage(s)
                    = St(FdcFinishRead(wd), off, c, Image(off, c, i), r)
<1> DEFINE s == St(wd, o, b, i, r)
           c == Put(o, b, 0)
           n == Next1(o)
           on == Advance(n)
           off == NoFormat(on)
           put == St(wd, n, c, i, r)
           next == St(wd, on, c, i, r)
           fin == St(wd, off, c, i, r)
<1>1. /\ s.w = wd /\ s.op = o /\ ~s.returned /\ put.op = n
      /\ next.op = on
  BY DEF St
<1>2. Stored(s, 0) = put
  BY PassedSt
<1>3. WriteBack(Finish(fin)) = St(FdcFinishRead(wd), off, c, Image(off, c, i), r)
  BY WriteBackSt, SMT
<1>4. StopFormat(Refused(s))
        = St(FdcWriteProtect(wd), NoFormat(o), b, i, Returned)
  BY RefusedSt, Zenon
<1> HIDE DEF c, n, on, off
<1>5. [put EXCEPT !.op = on] = next /\ [next EXCEPT !.op = off] = fin
  BY DEF St
<1> HIDE DEF s, put, next, fin
<1>6. StopFormat(next) = fin
  BY <1>1, <1>5, Zenon DEF StopFormat, off, NoFormat
<1>7. CASE writeprot
  <2>1. FormatStage(s) = StopFormat(Refused(s))
    BY <1>1, <1>7, Zenon DEF FormatStage
  <2> QED  BY <1>4, <1>7, <2>1 DEF s
<1>8. CASE ~writeprot /\ o.pos + 1 # SectorSize
  <2>1. FormatStage(s) = put
    BY <1>1, <1>2, <1>8, Zenon DEF FormatStage, SectorDone
  <2> QED  BY <1>8, <2>1 DEF s, put, n, c
<1>9. CASE ~writeprot /\ o.pos + 1 = SectorSize
  <2>1. NextSector(put) = next
    BY <1>1, <1>5, Zenon DEF NextSector, on, Advance
  <2>2. FormatStage(s) = IF next.op.sector = format.sectors
                         THEN WriteBack(Finish(StopFormat(next))) ELSE next
    BY <1>1, <1>2, <1>9, <2>1, Zenon DEF FormatStage, SectorDone
  <2>3. FormatStage(s)
          = IF on.sector = format.sectors
            THEN St(FdcFinishRead(wd), off, c, Image(off, c, i), r)
            ELSE next
    BY <1>1, <1>3, <1>6, <2>2
  <2> QED  BY <1>9, <2>3 DEF s, next, n, c, on, off
<1>10. writeprot \/ ~writeprot
  OBVIOUS
<1> QED  BY <1>7, <1>8, <1>9, <1>10 DEF s, c, on, off, n

-----------------------------------------------------------------------------
(* A poll in each phase.                                                    *)

(* What a poll leaves of the fields that are no stage's                     *)
PollKeeps ==
  UNCHANGED <<format, trackc, writeprot, commands, moved, before>>

(* A poll that leaves a record of its stages                                *)
Leaves(wd, o, b, i) == w' = wd /\ op' = o /\ buffer' = b /\ image' = i

(* A poll is its five stages.  (adf_poll)                                   *)
LEMMA PollSt ==
  ASSUME Poll, NEW no, no = FALSE, NEW wd, NEW o, NEW b, NEW i, NEW r,
         FormatStage(AddressStage(WriteStage(ReadStage(NotFoundStage(
           St(w, op, buffer, image, no)))))) = St(wd, o, b, i, r)
  PROVE  Leaves(wd, o, b, i) /\ PollKeeps /\ ~Requesting(w) /\ w.motoron
         /\ w.fdctime # "finish"
<1> DEFINE d == FormatStage(AddressStage(WriteStage(ReadStage(NotFoundStage(
                  St(w, op, buffer, image, no))))))
<1>1. w' = d.w /\ op' = d.op /\ buffer' = d.buffer /\ image' = d.image
  BY Zenon DEF Poll, St
<1>2. d = St(wd, o, b, i, r)
  OBVIOUS
<1> HIDE DEF d
<1>3. d.w = wd /\ d.op = o /\ d.buffer = b /\ d.image = i
  BY <1>2, SMT DEF St
<1> QED  BY <1>1, <1>3 DEF Poll, Leaves, PollKeeps

(* Stages of operations that are not in progress, and those after a return  *)
LEMMA SkipSt ==
  ASSUME NEW wd, NEW o, NEW b, NEW i, NEW r
  PROVE  LET s == St(wd, o, b, i, r)
         IN  /\ o.notfound = 0 => NotFoundStage(s) = s
             /\ ~o.read => ReadStage(s) = s
             /\ ~o.write => WriteStage(s) = s
             /\ (~o.address \/ r) => AddressStage(s) = s
             /\ (~o.format \/ r) => FormatStage(s) = s
<1> DEFINE s == St(wd, o, b, i, r)
<1>1. s.op = o /\ s.returned = r
  BY DEF St
<1> HIDE DEF s
<1>2. r => AddressStage(s) = s /\ FormatStage(s) = s
  BY <1>1, Zenon DEF AddressStage, FormatStage
<1>3. /\ o.notfound = 0 => NotFoundStage(s) = s
      /\ ~o.read => ReadStage(s) = s
      /\ ~o.write => WriteStage(s) = s
      /\ ~o.address => AddressStage(s) = s
      /\ ~o.format => FormatStage(s) = s
  BY <1>1, OtherStages
<1> QED  BY <1>2, <1>3 DEF s

(* With no operation in progress nothing happens.                           *)
LEMMA PollNothing ==
  ASSUME Poll, ~op.read, ~op.write, ~op.address, ~op.format, op.notfound = 0
  PROVE  UNCHANGED adf
<1> DEFINE no == FALSE
           s == St(w, op, buffer, image, no)
<1>0. no = FALSE
  BY DEF no
<1> HIDE DEF no
<1>1. /\ NotFoundStage(s) = s /\ ReadStage(s) = s /\ WriteStage(s) = s
      /\ AddressStage(s) = s /\ FormatStage(s) = s
  BY SkipSt, SMT
<1> HIDE DEF s
<1>2. FormatStage(AddressStage(WriteStage(ReadStage(NotFoundStage(s))))) = s
  BY <1>1
<1>3. Leaves(w, op, buffer, image) /\ PollKeeps
  BY <1>0, <1>2, PollSt, Zenon DEF s
<1> QED  BY <1>3 DEF Leaves, PollKeeps, adf

(* The countdown to "not found", with no operation in progress              *)
LEMMA PollMissing ==
  ASSUME Poll, op \in Operation,
         ~op.read, ~op.write, ~op.address, ~op.format, op.notfound # 0
  PROVE  Leaves(IF op.notfound = 1 THEN FdcNotFound(w) ELSE w,
                [op EXCEPT !.notfound = op.notfound - 1], buffer, image)
         /\ PollKeeps
<1> DEFINE no == FALSE
           s == St(w, op, buffer, image, no)
           x == IF op.notfound = 1 THEN FdcNotFound(w) ELSE w
           o == [op EXCEPT !.notfound = op.notfound - 1]
           t == St(x, o, buffer, image, no)
<1>1. ~o.read /\ ~o.write /\ ~o.address /\ ~o.format
  BY DEF Operation
<1>0. no = FALSE
  BY DEF no
<1> HIDE DEF no
<1>2. NotFoundStage(s) = t
  BY NotFoundSt, SMT
<1> HIDE DEF x, o
<1>3. /\ ReadStage(t) = t /\ WriteStage(t) = t
      /\ AddressStage(t) = t /\ FormatStage(t) = t
  BY <1>1, SkipSt, SMT
<1> HIDE DEF s
<1>4. FormatStage(AddressStage(WriteStage(ReadStage(NotFoundStage(s))))) = t
  BY <1>2, <1>3
<1>5. Leaves(x, o, buffer, image) /\ PollKeeps
  BY <1>0, <1>4, PollSt, Zenon DEF s
<1> QED  BY <1>5, Zenon DEF x, o

(* The next byte of a read                                                  *)
LEMMA PollReading ==
  ASSUME Poll, op \in Operation,
         op.read, ~op.write, ~op.address, ~op.format, op.notfound = 0
  PROVE  LET sent == FdcData(w, buffer[op.side][At(op.pos)])
             last == op.pos + 1 = SectorSize
         IN  Leaves(IF last THEN FdcFinishRead(sent) ELSE sent,
                    [Next1(op) EXCEPT !.read = ~last], buffer, image)
             /\ PollKeeps
<1> DEFINE no == FALSE
           s == St(w, op, buffer, image, no)
           last == op.pos + 1 = SectorSize
           sent == FdcData(w, buffer[op.side][op.sector * SectorSize + op.pos])
           x == IF last THEN FdcFinishRead(sent) ELSE sent
           o == [Next1(op) EXCEPT !.read = ~last]
           t == St(x, o, buffer, image, no)
<1>0. no = FALSE
  BY DEF no
<1>1. ~o.write /\ ~o.address /\ ~o.format
  BY SMTT(30) DEF Operation, Next1, NoWrite
<1> HIDE DEF no
<1>2. ReadStage(s) = t
  BY ReadSt, SMT
<1> HIDE DEF x, o
<1>3. /\ NotFoundStage(s) = s
      /\ WriteStage(t) = t /\ AddressStage(t) = t /\ FormatStage(t) = t
  BY <1>1, SkipSt, SMT
<1> HIDE DEF s
<1>4. FormatStage(AddressStage(WriteStage(ReadStage(NotFoundStage(s))))) = t
  BY <1>2, <1>3
<1>5. Leaves(x, o, buffer, image) /\ PollKeeps
  BY <1>0, <1>4, PollSt, Zenon DEF s
<1> QED  BY <1>5, Zenon DEF x, o, At

(* The next byte of a write, its refusal, or the wait for the CPU           *)
LEMMA PollWriting ==
  ASSUME Poll, op \in Operation,
         ~op.read, op.write, ~op.address, ~op.format, op.notfound = 0
  PROVE  LET v == DataFor(w)
             got == Taken(w, op)
             c == Put(op, buffer, v)
             off == NoWrite(Next1(op))
         IN  /\ PollKeeps
             /\ writeprot => Leaves(FdcWriteProtect(w), NoWrite(op),
                                    buffer, image)
             /\ ~writeprot /\ v = NoByte => Leaves(w, op, buffer, image)
             /\ ~writeprot /\ v # NoByte /\ op.pos + 1 # SectorSize =>
                  Leaves(got, Next1(op), c, image)
             /\ ~writeprot /\ v # NoByte /\ op.pos + 1 = SectorSize =>
                  Leaves(FdcFinishRead(got), off, c, Image(off, c, image))
<1> DEFINE no == FALSE
           yes == Returned
           s == St(w, op, buffer, image, no)
           v == DataFor(w)
           got == Taken(w, op)
           c == Put(op, buffer, v)
           off == NoWrite(Next1(op))
           no0 == NoWrite(op)
           next == Next1(op)
<1>0. no = FALSE
  BY DEF no
<1>1. \A o \in {op, off, no0, next} : ~o.address /\ ~o.format
  <2>1. ~next.address /\ ~next.format
    BY SMTT(30) DEF Operation, Next1
  <2>2. ~no0.address /\ ~no0.format
    BY SMTT(30) DEF Operation, NoWrite
  <2>3. ~off.address /\ ~off.format
    BY SMTT(30) DEF Operation, Next1, NoWrite
  <2> QED  BY <2>1, <2>2, <2>3, Zenon
<1> HIDE DEF no
<1>2. /\ writeprot => WriteStage(s)
           = St(FdcWriteProtect(w), no0, buffer, image, yes)
      /\ ~writeprot /\ v = NoByte => WriteStage(s) = St(w, op, buffer, image, yes)
      /\ ~writeprot /\ v # NoByte /\ op.pos + 1 # SectorSize =>
           WriteStage(s) = St(got, next, c, image, no)
      /\ ~writeprot /\ v # NoByte /\ op.pos + 1 = SectorSize =>
           WriteStage(s)
             = St(FdcFinishRead(got), off, c, Image(off, c, image), no)
  BY WriteSt, SMT
<1> HIDE DEF v, got, c, off, no0, yes, next
<1>3. \A x, o, b, i, r : ~o.address /\ ~o.format =>
        /\ AddressStage(St(x, o, b, i, r)) = St(x, o, b, i, r)
        /\ FormatStage(St(x, o, b, i, r)) = St(x, o, b, i, r)
  BY SkipSt, SMT
<1>4. NotFoundStage(s) = s /\ ReadStage(s) = s
  BY SkipSt, SMT
<1> HIDE DEF s
<1>5. ASSUME NEW x, NEW o \in {op, off, no0, next}, NEW b, NEW i, NEW r,
             WriteStage(s) = St(x, o, b, i, r)
      PROVE  Leaves(x, o, b, i) /\ PollKeeps
  <2>1. FormatStage(AddressStage(WriteStage(ReadStage(NotFoundStage(s)))))
          = St(x, o, b, i, r)
    BY <1>1, <1>3, <1>4, <1>5
  <2> QED  BY <1>0, <2>1, PollSt, Zenon DEF s
<1>6. writeprot \/ v = NoByte \/ op.pos + 1 = SectorSize
      \/ (v # NoByte /\ op.pos + 1 # SectorSize)
  OBVIOUS
<1>7. writeprot =>
        Leaves(FdcWriteProtect(w), no0, buffer, image) /\ PollKeeps
  BY <1>2, <1>5, Zenon
<1>8. ~writeprot /\ v = NoByte => Leaves(w, op, buffer, image) /\ PollKeeps
  BY <1>2, <1>5, Zenon
<1>9. ~writeprot /\ v # NoByte /\ op.pos + 1 # SectorSize =>
        Leaves(got, next, c, image) /\ PollKeeps
  BY <1>2, <1>5, Zenon
<1>10. ~writeprot /\ v # NoByte /\ op.pos + 1 = SectorSize =>
        Leaves(FdcFinishRead(got), off, c, Image(off, c, image)) /\ PollKeeps
  BY <1>2, <1>5, Zenon
<1> QED  BY <1>7, <1>8, <1>9, <1>10, Zenon DEF v, got, c, off, no0, next

(* The next byte of an address, or its end                                  *)
LEMMA PollAddressing ==
  ASSUME Poll, op \in Operation,
         ~op.read, ~op.write, op.address, ~op.format, op.notfound = 0
  PROVE  /\ PollKeeps
         /\ op.pos < 6 =>
              Leaves(FdcData(w, AddressByte(op)), Next1(op), buffer, image)
         /\ ~(op.pos < 6) =>
              Leaves(IF op.pos = 6 THEN FdcFinishRead(w) ELSE w, Addressed(op),
                     buffer, image)
<1> DEFINE no == FALSE
           s == St(w, op, buffer, image, no)
           x == FdcData(w, AddressByte(op))
           y == IF op.pos = 6 THEN FdcFinishRead(w) ELSE w
           next == Next1(op)
           off == Addressed(op)
<1>0. no = FALSE
  BY DEF no
<1>1. ~next.format /\ ~off.format
  BY DEF Operation, Next1, Addressed
<1>7. ~s.returned
  BY DEF St
<1> HIDE DEF no
<1>2. /\ op.pos < 6 => AddressStage(s) = St(x, next, buffer, image, no)
      /\ ~(op.pos < 6) => AddressStage(s) = St(y, off, buffer, image, no)
  BY <1>7, AddressSt, SMT
<1> HIDE DEF x, y, next, off
<1>3. /\ FormatStage(St(x, next, buffer, image, no))
           = St(x, next, buffer, image, no)
      /\ FormatStage(St(y, off, buffer, image, no))
           = St(y, off, buffer, image, no)
  BY <1>1, SkipSt, SMT
<1>4. NotFoundStage(s) = s /\ ReadStage(s) = s /\ WriteStage(s) = s
  BY SkipSt, SMT
<1> HIDE DEF s
<1>5. CASE op.pos < 6
  <2>1. FormatStage(AddressStage(WriteStage(ReadStage(NotFoundStage(s)))))
          = St(x, next, buffer, image, no)
    BY <1>2, <1>3, <1>4, <1>5
  <2>2. Leaves(x, next, buffer, image) /\ PollKeeps
    BY <1>0, <2>1, PollSt, Zenon DEF s
  <2> QED  BY <1>5, <2>2, Zenon DEF x, next
<1>6. CASE ~(op.pos < 6)
  <2>1. FormatStage(AddressStage(WriteStage(ReadStage(NotFoundStage(s)))))
          = St(y, off, buffer, image, no)
    BY <1>2, <1>3, <1>4, <1>6
  <2>2. Leaves(y, off, buffer, image) /\ PollKeeps
    BY <1>0, <2>1, PollSt, Zenon DEF s
  <2> QED  BY <1>6, <2>2, Zenon DEF y, off
<1> QED  BY <1>5, <1>6, Zenon

(* The next byte of a format, or its refusal                                *)
LEMMA PollFormatting ==
  ASSUME Poll, op \in Operation,
         ~op.read, ~op.write, ~op.address, op.format, op.notfound = 0
  PROVE  LET c == Put(op, buffer, 0)
             on == Advance(Next1(op))
             off == NoFormat(on)
         IN  /\ PollKeeps
             /\ writeprot => Leaves(FdcWriteProtect(w), NoFormat(op),
                                    buffer, image)
             /\ ~writeprot /\ op.pos + 1 # SectorSize =>
                  Leaves(w, Next1(op), c, image)
             /\ ~writeprot /\ op.pos + 1 = SectorSize
                  /\ on.sector # format.sectors => Leaves(w, on, c, image)
             /\ ~writeprot /\ op.pos + 1 = SectorSize
                  /\ on.sector = format.sectors =>
                  Leaves(FdcFinishRead(w), off, c, Image(off, c, image))
<1> DEFINE no == FALSE
           yes == Returned
           s == St(w, op, buffer, image, no)
           c == Put(op, buffer, 0)
           on == Advance(Next1(op))
           off == NoFormat(on)
           no0 == NoFormat(op)
           next == Next1(op)
<1>0. no = FALSE
  BY DEF no
<1>6. ~s.returned
  BY DEF St
<1> HIDE DEF no
<1>2. /\ writeprot => FormatStage(s)
           = St(FdcWriteProtect(w), no0, buffer, image, yes)
      /\ ~writeprot /\ op.pos + 1 # SectorSize =>
           FormatStage(s) = St(w, next, c, image, no)
      /\ ~writeprot /\ op.pos + 1 = SectorSize /\ on.sector # format.sectors =>
           FormatStage(s) = St(w, on, c, image, no)
      /\ ~writeprot /\ op.pos + 1 = SectorSize /\ on.sector = format.sectors =>
           FormatStage(s)
             = St(FdcFinishRead(w), off, c, Image(off, c, image), no)
  BY <1>6, FormatSt, SMT
<1> HIDE DEF c, on, off, no0, yes, next
<1>4. /\ NotFoundStage(s) = s /\ ReadStage(s) = s /\ WriteStage(s) = s
      /\ AddressStage(s) = s
  BY SkipSt, SMT
<1> HIDE DEF s
<1>5. ASSUME NEW x, NEW o, NEW b, NEW i, NEW r,
             FormatStage(s) = St(x, o, b, i, r)
      PROVE  Leaves(x, o, b, i) /\ PollKeeps
  <2>1. FormatStage(AddressStage(WriteStage(ReadStage(NotFoundStage(s)))))
          = St(x, o, b, i, r)
    BY <1>4, <1>5
  <2> QED  BY <1>0, <2>1, PollSt, Zenon DEF s
<1>7. writeprot =>
        Leaves(FdcWriteProtect(w), no0, buffer, image) /\ PollKeeps
  BY <1>2, <1>5, Zenon
<1>8. ~writeprot /\ op.pos + 1 # SectorSize =>
        Leaves(w, next, c, image) /\ PollKeeps
  BY <1>2, <1>5, Zenon
<1>9. ~writeprot /\ op.pos + 1 = SectorSize /\ on.sector # format.sectors =>
        Leaves(w, on, c, image) /\ PollKeeps
  BY <1>2, <1>5, Zenon
<1>10. ~writeprot /\ op.pos + 1 = SectorSize /\ on.sector = format.sectors =>
        Leaves(FdcFinishRead(w), off, c, Image(off, c, image)) /\ PollKeeps
  BY <1>2, <1>5, Zenon
<1> QED  BY <1>7, <1>8, <1>9, <1>10, Zenon DEF c, on, off, no0, next

-----------------------------------------------------------------------------
(* The types of what a poll leaves.                                         *)

(* The operation after each stage is one, and its other fields are as       *)
(* before.                                                                  *)
LEMMA OpTypes ==
  ASSUME format \in Formats, NEW o \in Operation
  PROVE  /\ Next1(o) \in Operation /\ NoWrite(o) \in Operation
         /\ NoFormat(o) \in Operation /\ Addressed(o) \in Operation
         /\ \A b \in BOOLEAN : [o EXCEPT !.read = b] \in Operation
         /\ o.notfound # 0 => [o EXCEPT !.notfound = o.notfound - 1] \in Operation
         /\ o.sector + 1 \in 0..(MaxSector + 1) => Advance(o) \in Operation
<1>1. /\ o.pos + 1 \in Nat /\ o.sector \in -1..(MaxSector + 1)
      /\ o.notfound \in 0..NotFoundPolls /\ o.rsector \in Sectors
  BY DEF Operation
<1>2. Next1(o) \in Operation
  BY <1>1, ZenonT(120) DEF Next1, Operation
<1>3. NoWrite(o) \in Operation /\ NoFormat(o) \in Operation
  BY ZenonT(120) DEF NoWrite, NoFormat, Operation
<1>4. ASSUME NEW b \in BOOLEAN PROVE [o EXCEPT !.read = b] \in Operation
  BY <1>4, ZenonT(120) DEF Operation
<1>5. ASSUME o.notfound # 0
      PROVE  [o EXCEPT !.notfound = o.notfound - 1] \in Operation
  <2> DEFINE n == o.notfound - 1
  <2>1. n \in 0..NotFoundPolls
    BY <1>1, <1>5
  <2> HIDE DEF n
  <2>2. [o EXCEPT !.notfound = n] \in Operation
    BY <2>1, ZenonT(120) DEF Operation
  <2> QED  BY <2>2 DEF n
<1>6. ASSUME o.sector + 1 \in 0..(MaxSector + 1) PROVE Advance(o) \in Operation
  <2> DEFINE n == o.sector + 1
             z == 0
  <2>1. n \in -1..(MaxSector + 1) /\ z \in Nat
    BY <1>6
  <2> HIDE DEF n, z
  <2>2. [o EXCEPT !.pos = z, !.sector = n] \in Operation
    BY <2>1, ZenonT(120) DEF Operation
  <2> QED  BY <2>2, Zenon DEF Advance, n, z
<1>7. Addressed(o) \in Operation
  <2> DEFINE n == o.pos + 1
             a == o.pos # 6
             q == IF o.pos # 6 THEN o.rsector
                  ELSE (o.rsector + 1) % format.sectors
  <2>1. n \in Nat /\ a \in BOOLEAN
    BY <1>1
  <2>2. format.sectors \in Nat \ {0} /\ format.sectors <= MaxSector + 1
    BY FormatSizes
  <2>3. (o.rsector + 1) % format.sectors \in 0..(format.sectors - 1)
    BY <1>1, <2>2 DEF Sectors
  <2>4. q \in Sectors
    BY <1>1, <2>2, <2>3 DEF Sectors
  <2>5. Addressed(o) = [o EXCEPT !.pos = n, !.address = a, !.rsector = q]
    BY Zenon DEF Addressed, n, a, q
  <2> HIDE DEF n, a, q
  <2>6. [o EXCEPT !.pos = n, !.address = a, !.rsector = q] \in Operation
    BY <2>1, <2>4, ZenonT(120) DEF Operation
  <2> QED  BY <2>5, <2>6
<1> QED  BY <1>2, <1>3, <1>4, <1>5, <1>6, <1>7

(* Where a byte of the sector is                                            *)
LEMMA AtPlaces ==
  ASSUME Typed, op.sector \in 0..(format.sectors - 1)
  PROVE  /\ At(0) \in Nat /\ \A p \in Int : At(p) = At(0) + p /\ At(p) \in Int
         /\ \A p \in 0..(SectorSize - 1) : At(p) \in Positions(format)
<1> DEFINE base == op.sector * SectorSize
<1>1. format \in Formats /\ SectorSize \in Nat \ {0}
  BY FormatSizes DEF Typed
<1>2. 0 \in 0..(SectorSize - 1)
  BY <1>1
<1>3. base \in Nat
  BY <1>1, <1>2, InTrack
<1>4. \A p \in 0..(SectorSize - 1) : base + p \in Positions(format)
  BY <1>1, InTrack
<1>5. \A p : At(p) = base + p
  BY DEF At
<1> HIDE DEF base
<1> QED  BY <1>3, <1>4, <1>5

(* The track buffer and a byte that is stored in it                         *)
LEMMA PutType ==
  ASSUME Typed, NEW v \in Bytes
  PROVE  /\ Put(op, buffer, v) \in TrackData(format)
         /\ \A s \in Sides, p \in Positions(format) :
              Put(op, buffer, v)[s][p] =
                IF s = op.side /\ p = At(op.pos) THEN v ELSE buffer[s][p]
<1> DEFINE x == op.side
           y == op.sector * SectorSize + op.pos
           c == [buffer EXCEPT ![x][y] = v]
           P == Positions(format)
<1>1. x \in Sides /\ buffer \in [Sides -> [P -> Bytes]]
  BY DEF Typed, Operation, TrackData
<1>2. Put(op, buffer, v) = c /\ At(op.pos) = y /\ TrackData(format) = [Sides -> [P -> Bytes]]
  BY DEF Put, At, TrackData
<1> HIDE DEF x, y, P
<1>3. c \in [Sides -> [P -> Bytes]]
  BY <1>1
<1>4. \A s \in Sides, p \in P : c[s][p] = IF s = x /\ p = y THEN v ELSE buffer[s][p]
  BY <1>1
<1> QED  BY <1>2, <1>3, <1>4 DEF x, y, P

(* The image and a track that is written back to it                         *)
LEMMA ImageType ==
  ASSUME Typed, NEW o, NEW b \in TrackData(format)
  PROVE  /\ Image(o, b, image) \in Images
         /\ \A t \in Tracks : Image(o, b, image)[t] =
              IF t = Stepped(o.track) THEN [x \in OfSide(format) |-> b[x]]
              ELSE image[t]
<1> DEFINE n == Stepped(o.track)
           B == [x \in OfSide(format) |-> b[x]]
           T == [OfSide(format) -> [Positions(format) -> Bytes]]
<1>1. OfSide(format) \subseteq Sides
  BY FormatSizes DEF Typed
<1>2. B \in T
  BY <1>1 DEF TrackData
<1>3. image \in [Tracks -> T] /\ Images = [Tracks -> T]
  BY DEF Typed, Images
<1>4. Image(o, b, image) = [image EXCEPT ![n] = B]
  BY DEF Image
<1> HIDE DEF n, B, T
<1>5. [image EXCEPT ![n] = B] \in [Tracks -> T]
  BY <1>2, <1>3
<1>6. \A t \in Tracks : [image EXCEPT ![n] = B][t] = IF t = n THEN B ELSE image[t]
  BY <1>3
<1> QED  BY <1>3, <1>4, <1>5, <1>6 DEF n, B

(* A poll that leaves data of these types keeps the types.                  *)
LEMMA LeavesTyped ==
  ASSUME Typed, PollKeeps,
         NEW wd \in Good, NEW o \in Operation, NEW b \in TrackData(format),
         NEW i \in Images, Leaves(wd, o, b, i)
  PROVE  Typed'
  BY DEF Typed, PollKeeps, Leaves, Images

-----------------------------------------------------------------------------
(* The inductive invariant through a poll, phase by phase.                  *)

(* Whether a format has gone astray is a matter of the disc.                *)
LEMMA AstrayKept ==
  ASSUME format' = format, image' = image PROVE Astray' <=> Astray
  BY DEF Astray, Misplaced, OfSide, Positions

(* A format that is over stays so until a timer or a command comes.         *)
LEMMA FormatOverKept ==
  ASSUME FormatOver, Runs("format", "finish")',
         UNCHANGED <<format, op, trackc, buffer, image, before, commands>>
  PROVE  FormatOver'
<1>1. SameTrack'
  BY AstrayKept DEF FormatOver, SameTrack
<1>2. Misplaced(before)' <=> Misplaced(before)
  BY DEF Misplaced, OfSide, Positions
<1>3. /\ Stepped(trackc)' = Stepped(trackc)
      /\ OfSide(format)' = OfSide(format) /\ Positions(format)' = Positions(format)
  BY DEF Stepped, OfSide, Positions
<1> QED  BY <1>1, <1>2, <1>3 DEF FormatOver, Only

(* A step that changes nothing keeps it.                                    *)
LEMMA StutterKeeps == ASSUME AdfInv, UNCHANGED adf PROVE AdfInv'
<1>1. Typed'
  BY DEF AdfInv, Typed, adf, Images
<1>2. /\ w' = w /\ format' = format /\ op' = op /\ trackc' = trackc
      /\ buffer' = buffer /\ image' = image /\ writeprot' = writeprot
      /\ commands' = commands /\ moved' = moved /\ before' = before
  BY DEF adf
<1>3. SectorSize' = SectorSize
  BY <1>2 DEF SectorSize
<1>4. \A p : At(p)' = At(p)
  BY <1>2, <1>3 DEF At
<1>5. (SameTrack => SameTrack') /\ (OnTrack => OnTrack')
      /\ (ReadSoFar => ReadSoFar')
  BY <1>2, <1>3, <1>4, AstrayKept DEF SameTrack, OnTrack, ReadSoFar
<1>6. CASE Idle \/ Moving \/ Missing \/ Addressing \/ AddressOver
  BY <1>1, <1>2, <1>5, <1>6
     DEF AdfInv, Phase, Idle, Moving, Missing, Addressing, AddressOver, Only,
         Runs
<1>7. CASE Reading \/ ReadOver
  BY <1>1, <1>2, <1>3, <1>5, <1>7
     DEF AdfInv, Phase, Reading, ReadOver, Only, Runs
<1>8. CASE Writing
  BY <1>1, <1>2, <1>3, <1>4, <1>5, <1>8, AstrayKept
     DEF AdfInv, Phase, Writing, WrittenSoFar, Only, Runs
<1>9. CASE WriteOver
  BY <1>1, <1>2, <1>3, <1>4, <1>5, <1>9, AstrayKept
     DEF AdfInv, Phase, WriteOver, WrittenSoFar, Only, Runs
<1>10. CASE Formatting
  BY <1>1, <1>2, <1>3, <1>4, <1>5, <1>10, AstrayKept
     DEF AdfInv, Phase, Formatting, BlankSoFar, Only, Runs
<1>11. CASE FormatOver
  <2>1. Runs("format", "finish")'
    BY <1>2, <1>11 DEF FormatOver, Runs
  <2>2. FormatOver'
    BY <1>2, <1>11, <2>1, FormatOverKept
  <2> QED  BY <1>1, <2>2 DEF AdfInv, Phase
<1> QED  BY <1>6, <1>7, <1>8, <1>9, <1>10, <1>11 DEF AdfInv, Phase

(* Nothing is polled while no command runs or the head moves.               *)
LEMMA PollIdleKeeps ==
  ASSUME AdfInv, Idle \/ Moving, Poll PROVE AdfInv'
<1>1. UNCHANGED adf
  BY PollNothing DEF Idle, Moving, Only
<1> QED  BY <1>1, StutterKeeps

(* What the format and the place say does not change in a poll.             *)
LEMMA Primes ==
  ASSUME format' = format
  PROVE  /\ SectorSize' = SectorSize
         /\ op'.sector = op.sector => \A p : At(p)' = At(p)
<1>1. SectorSize' = SectorSize
  BY DEF SectorSize
<1> QED  BY <1>1 DEF At

(* A missing sector is reported in the end.                                 *)
LEMMA PollMissingKeeps == ASSUME AdfInv, Missing, Poll PROVE AdfInv'
<1> DEFINE wd == IF op.notfound = 1 THEN FdcNotFound(w) ELSE w
           o == [op EXCEPT !.notfound = op.notfound - 1]
<1>1. Typed /\ op \in Operation /\ w \in Good /\ w \in Controller
      /\ format \in Formats /\ op.notfound \in Nat \ {0}
  BY DEF AdfInv, Typed, Good, Missing, Operation
<1>2. Leaves(wd, o, buffer, image) /\ PollKeeps
  BY <1>1, PollMissing, Zenon DEF Missing, Only
<1>3. wd \in Good
  BY <1>1, DriveEndsGood
<1>4. o \in Operation
  BY <1>1, OpTypes
<1>5. /\ o.notfound = op.notfound - 1 /\ o.read = op.read
      /\ o.write = op.write /\ o.address = op.address /\ o.format = op.format
  BY <1>1, SMT DEF Operation
<1>6. op.notfound = 1 => ~Busy(wd) /\ wd.fdctime = "none"
  BY <1>1, EndFields
<1>7. op.notfound # 1 => wd = w
  OBVIOUS
<1> HIDE DEF wd, o
<1>8. Typed'
  BY <1>1, <1>2, <1>3, <1>4, LeavesTyped, SMT DEF Typed
<1>9. SameTrack' /\ commands' > 0 /\ Only("none")'
      /\ op'.notfound = op.notfound - 1 /\ w' = wd
  BY <1>2, <1>5, AstrayKept DEF Missing, SameTrack, PollKeeps, Leaves, Only
<1>10. CASE op.notfound = 1
  <2>1. Idle'
    BY <1>6, <1>9, <1>10 DEF Idle
  <2> QED  BY <1>8, <2>1 DEF AdfInv, Phase
<1>11. CASE op.notfound # 1
  <2>1. Missing'
    BY <1>1, <1>7, <1>9, <1>11 DEF Missing
  <2> QED  BY <1>8, <2>1 DEF AdfInv, Phase
<1> QED  BY <1>10, <1>11

(* A read goes on in order and ends with the last byte of its sector.       *)
LEMMA PollReadingKeeps == ASSUME AdfInv, Reading, Poll PROVE AdfInv'
<1> DEFINE c == buffer[op.side][At(op.pos)]
           sent == FdcData(w, c)
           last == op.pos + 1 = SectorSize
           wd == IF last THEN FdcFinishRead(sent) ELSE sent
           o == [Next1(op) EXCEPT !.read = ~last]
<1>1. /\ Typed /\ op \in Operation /\ w \in Good /\ w \in Controller
      /\ format \in Formats /\ op.pos \in 0..(SectorSize - 1)
      /\ SectorSize \in Nat \ {0} /\ op.side \in OfSide(format)
      /\ Busy(w) /\ w.command = "read" /\ w.fdctime = "none"
  BY FormatSizes
     DEF AdfInv, Typed, Good, Reading, Operation, OnTrack, Runs
<1>2. ~Requesting(w)
  BY DEF Poll
<1>3. Leaves(wd, o, buffer, image) /\ PollKeeps
  BY <1>1, PollReading, Zenon DEF Reading, Only
<1>4. c \in Bytes
  <2>1. At(op.pos) \in Positions(format)
    BY <1>1, AtPlaces DEF Reading, OnTrack
  <2> QED  BY <1>1, <2>1 DEF Typed, TrackData, Operation
<1>5. sent \in Good /\ sent \in Controller
  BY <1>1, <1>4, DriveCallsGood DEF Good
<1>6. wd \in Good
  BY <1>5, DriveEndsGood
<1>7. o \in Operation
  <2>1. Next1(op) \in Operation
    BY <1>1, OpTypes
  <2> QED  BY <1>1, <2>1, OpTypes
<1>8. /\ o.pos = op.pos + 1 /\ o.read = ~last /\ o.side = op.side
      /\ o.track = op.track /\ o.sector = op.sector
      /\ o.write = op.write /\ o.address = op.address
      /\ o.format = op.format /\ o.notfound = op.notfound
  BY <1>1, SMT DEF Operation, Next1
<1>9. /\ Busy(sent) /\ Requesting(sent) /\ sent.data = c
      /\ sent.command = "read" /\ sent.fdctime = "none"
  BY <1>1, <1>2, FdcDataFields
<1> HIDE DEF c, sent
<1>10. /\ Busy(wd) /\ Requesting(wd) /\ wd.data = c /\ wd.command = "read"
       /\ wd.fdctime = IF last THEN "finish" ELSE "none"
  BY <1>5, <1>9, FinishFields
<1> HIDE DEF wd, o
<1>11. Typed'
  BY <1>1, <1>3, <1>6, <1>7, LeavesTyped, SMT DEF Typed
<1>12. /\ w' = wd /\ op' = o /\ buffer' = buffer /\ image' = image
       /\ trackc' = trackc /\ format' = format /\ moved' = moved
       /\ commands' = commands /\ SectorSize' = SectorSize
       /\ \A p : At(p)' = At(p)
  BY <1>3, <1>8, Primes DEF PollKeeps, Leaves
<1>13. SameTrack' /\ OnTrack'
  BY <1>8, <1>12, AstrayKept DEF Reading, SameTrack, OnTrack
<1>14. ReadSoFar'
  <2>1. Len(moved) = op.pos
        /\ \A k \in 1..Len(moved) : moved[k] = buffer[op.side][At(k - 1)]
    BY <1>2 DEF Reading, ReadSoFar
  <2>2. o.pos - 1 = op.pos /\ o.pos > 0
    BY <1>1, <1>8
  <2> QED  BY <1>8, <1>10, <1>12, <2>1, <2>2 DEF ReadSoFar, c
<1>15. /\ op'.notfound = 0 /\ commands' > 0
       /\ (last => Only("none")') /\ (~last => Only("read")')
  BY <1>8, <1>12 DEF Reading, Only
<1>16. CASE last
  <2>1. ReadOver'
    BY <1>8, <1>10, <1>12, <1>13, <1>14, <1>15, <1>16
       DEF ReadOver, Runs, Only
  <2> QED  BY <1>11, <2>1 DEF AdfInv, Phase
<1>17. CASE ~last
  <2>1. Reading'
    BY <1>1, <1>8, <1>10, <1>12, <1>13, <1>14, <1>15, <1>17
       DEF Reading, Runs, Only
  <2> QED  BY <1>11, <2>1 DEF AdfInv, Phase
<1> QED  BY <1>16, <1>17

(* An address goes on and ends with its sixth byte.                         *)
LEMMA PollAddressingKeeps == ASSUME AdfInv, Addressing, Poll PROVE AdfInv'
<1> DEFINE byte == AddressByte(op)
           sent == FdcData(w, byte)
           next == Next1(op)
           done == Addressed(op)
           over == FdcFinishRead(w)
<1>1. /\ Typed /\ op \in Operation /\ w \in Good /\ w \in Controller
      /\ format \in Formats /\ op.pos \in 0..6
      /\ Busy(w) /\ w.command = "address" /\ w.fdctime = "none"
  BY DEF AdfInv, Typed, Good, Addressing, Operation, Runs
<1>2. ~Requesting(w)
  BY DEF Poll
<1>3. /\ PollKeeps
      /\ op.pos < 6 => Leaves(sent, next, buffer, image)
      /\ ~(op.pos < 6) => Leaves(IF op.pos = 6 THEN over ELSE w, done, buffer, image)
  BY <1>1, PollAddressing, Zenon DEF Addressing, Only
<1>4. byte \in Bytes
  <2>1. op.track \in Bytes /\ op.side \in {0, 1}
    BY <1>1 DEF Operation, Sides
  <2>2. format.blocks \in Nat \ {0} /\ (format.blocks > 2 \/ format.blocks \in {1, 2})
    BY <1>1, FormatSizes
  <2>3. {0, 1, 2, 3} \subseteq Bytes
    OBVIOUS
  <2> QED  BY <2>1, <2>2, <2>3 DEF AddressByte
<1>5. sent \in Good /\ over \in Good
  BY <1>1, <1>4, DriveCallsGood, DriveEndsGood
<1>6. next \in Operation /\ done \in Operation
  BY <1>1, OpTypes
<1>7. /\ next.pos = op.pos + 1 /\ done.pos = op.pos + 1
      /\ next.address = op.address /\ done.address = (op.pos # 6)
      /\ \A o \in {next, done} :
           /\ o.read = op.read /\ o.write = op.write
           /\ o.format = op.format /\ o.notfound = op.notfound
  BY <1>1, SMT DEF Operation, Next1, Addressed
<1>8. Busy(sent) /\ sent.command = "address" /\ sent.fdctime = "none"
  BY <1>1, <1>2, FdcDataFields
<1>9. Busy(over) /\ over.command = "address" /\ over.fdctime = "finish"
  BY <1>1, FinishFields
<1> HIDE DEF byte, sent, next, done, over
<1>10. ASSUME NEW o, Leaves(w', o, buffer, image) PROVE SameTrack' /\ commands' > 0
  BY <1>3, <1>10, AstrayKept DEF Addressing, SameTrack, PollKeeps, Leaves
<1>11. CASE op.pos < 6
  <2>1. Typed'
    BY <1>1, <1>3, <1>5, <1>6, <1>11, LeavesTyped, SMT DEF Typed
  <2>2. w' = sent /\ op' = next /\ SameTrack' /\ commands' > 0
    BY <1>3, <1>10, <1>11 DEF Leaves
  <2>3. Addressing'
    BY <1>1, <1>7, <1>8, <1>11, <2>2 DEF Addressing, Runs, Only
  <2> QED  BY <2>1, <2>3 DEF AdfInv, Phase
<1>12. CASE op.pos = 6
  <2>1. Leaves(over, done, buffer, image)
    BY <1>3, <1>12
  <2>2. Typed'
    BY <1>1, <1>3, <1>5, <1>6, <2>1, LeavesTyped, SMT DEF Typed
  <2>3. w' = over /\ op' = done /\ SameTrack' /\ commands' > 0
    BY <1>10, <2>1 DEF Leaves
  <2>4. AddressOver'
    BY <1>7, <1>9, <1>12, <2>3 DEF Addressing, AddressOver, Runs, Only
  <2> QED  BY <2>2, <2>4 DEF AdfInv, Phase
<1> QED  BY <1>1, <1>11, <1>12

(* Of a sector of which nothing is written, or a side of which nothing is   *)
(* blanked, the track buffer holds the track.                               *)
LEMMA NothingYet ==
  ASSUME Typed, \A s \in OfSide(format), p \in Positions(format) :
                  Astray \/ buffer[s][p] = image[trackc][s][p]
  PROVE  SameTrack
<1> DEFINE P == Positions(format)
           S == OfSide(format)
<1>1. /\ buffer \in [Sides -> [P -> Bytes]] /\ S \subseteq Sides
      /\ image[trackc] \in [S -> [P -> Bytes]]
  BY FormatSizes DEF Typed, TrackData, Images
<1> HIDE DEF P, S
<1>2. \A s \in S : buffer[s] \in [P -> Bytes] /\ image[trackc][s] \in [P -> Bytes]
  BY <1>1
<1>3. \A s \in S, p \in P : Astray \/ buffer[s][p] = image[trackc][s][p]
  BY DEF P, S
<1>4. \A s \in S : Astray \/ buffer[s] = image[trackc][s]
  BY <1>2, <1>3
<1> QED  BY <1>4 DEF SameTrack, S

(* A write goes on in order, is refused, or waits, and ends with the byte   *)
(* the code takes for the last: the track then goes back to the image.      *)
LEMMA PollWritingKeeps == ASSUME AdfInv, Writing, Poll PROVE AdfInv'
<1> DEFINE v == DataFor(w)
           got == Taken(w, op)
           c == Put(op, buffer, v)
           next == Next1(op)
           off == NoWrite(next)
           no == NoWrite(op)
           refused == FdcWriteProtect(w)
           over == FdcFinishRead(got)
           i == Image(off, c, image)
<1>1. /\ Typed /\ op \in Operation /\ w \in Good /\ w \in Controller
      /\ format \in Formats /\ op.pos \in 0..(SectorSize - 1)
      /\ SectorSize \in Nat \ {0} /\ Block \in Nat \ {0}
      /\ Block <= SectorSize /\ op.side \in OfSide(format)
      /\ OfSide(format) \subseteq Sides
      /\ Busy(w) /\ w.command = "write" /\ w.fdctime = "none"
      /\ w.data \in Bytes /\ w.written \in BOOLEAN /\ trackc \in Tracks
      /\ op.sector \in 0..(format.sectors - 1)
  BY FormatSizes
     DEF AdfInv, Typed, Good, Writing, Operation, OnTrack, Runs, Controller
<1>2. ~Requesting(w)
  BY DEF Poll
<1>3. /\ PollKeeps
      /\ writeprot => Leaves(refused, no, buffer, image)
      /\ ~writeprot /\ v = NoByte => Leaves(w, op, buffer, image)
      /\ ~writeprot /\ v # NoByte /\ op.pos + 1 # SectorSize =>
           Leaves(got, next, c, image)
      /\ ~writeprot /\ v # NoByte /\ op.pos + 1 = SectorSize =>
           Leaves(over, off, c, i)
  BY <1>1, PollWriting, SMT DEF Writing, Only
<1>4. /\ At(0) \in Nat
      /\ \A p \in Int : At(p) = At(0) + p
      /\ \A p \in 0..(SectorSize - 1) : At(p) \in Positions(format)
      /\ Positions(format) \subseteq Nat
  <2>1. Positions(format) \subseteq Nat
    BY <1>1, FormatSizes
  <2> QED  BY <1>1, <2>1, AtPlaces
<1>5. CASE writeprot
  <2>1. \A s \in OfSide(format), p \in Positions(format) :
          Astray \/ buffer[s][p] = image[trackc][s][p]
    BY <1>4, <1>5 DEF Writing, WrittenSoFar
  <2>2. SameTrack
    BY <1>1, <2>1, NothingYet
  <2>0. no \in Operation
    BY <1>1, OpTypes
  <2>3. /\ ~no.write /\ no.read = op.read
        /\ no.address = op.address /\ no.format = op.format
        /\ no.notfound = op.notfound
    BY <1>1, SMT DEF Operation, NoWrite
  <2>4. refused \in Good /\ ~Busy(refused) /\ refused.fdctime = "none"
    BY <1>1, DriveEndsGood, EndFields
  <2> HIDE DEF no, refused
  <2>5. Leaves(refused, no, buffer, image)
    BY <1>3, <1>5
  <2>6. Typed'
    BY <1>1, <1>3, <2>0, <2>4, <2>5, LeavesTyped, SMT DEF Typed
  <2>7. Idle'
    BY <1>3, <2>2, <2>3, <2>4, <2>5, AstrayKept
       DEF Idle, SameTrack, Leaves, PollKeeps, Writing, Only
  <2> QED  BY <2>6, <2>7 DEF AdfInv, Phase
<1>6. CASE ~writeprot /\ v = NoByte
  <2>1. UNCHANGED adf
    BY <1>3, <1>6 DEF Leaves, PollKeeps, adf
  <2> QED  BY <2>1, StutterKeeps
<1>7. CASE ~writeprot /\ v # NoByte
  <2>1. /\ w.written /\ v = w.data /\ op.pos < Block
        /\ Len(moved) = op.pos + 1 /\ moved[op.pos + 1] = v
        /\ image = before /\ WrittenSoFar(op.pos, buffer, image)
    <3>1. w.written /\ v = w.data
      BY <1>1, <1>7 DEF DataFor
    <3>2. op.pos <= Block /\ op.pos # Block
      BY <3>1 DEF Writing
    <3> QED  BY <1>1, <1>2, <3>1, <3>2 DEF Writing
  <2>2. /\ got \in Good /\ got \in Controller
        /\ Busy(got) /\ got.command = "write" /\ got.fdctime = "none"
        /\ ~got.written /\ (op.pos # Block - 1 => Requesting(got))
        /\ (op.pos = Block - 1 => ~Requesting(got))
    <3>1. (op.pos = Block - 1) \in BOOLEAN
      OBVIOUS
    <3>2. got \in Good
      BY <1>1, <3>1, DriveCallsGood DEF Taken
    <3>3. /\ Busy(got) /\ got.command = "write" /\ got.fdctime = "none"
          /\ ~got.written /\ (op.pos # Block - 1 => Requesting(got))
          /\ (op.pos = Block - 1 => got.status = w.status)
      BY <1>1, <2>1, <3>1, FdcGetDataFields DEF Taken
    <3> QED  BY <1>2, <3>2, <3>3 DEF Good, Requesting
  <2>3. /\ c \in TrackData(format)
        /\ \A s \in Sides, p \in Positions(format) :
             c[s][p] = IF s = op.side /\ p = At(op.pos) THEN v
                       ELSE buffer[s][p]
    BY <1>1, <2>1, PutType
  <2>4. /\ next \in Operation /\ off \in Operation
    <3>1. next \in Operation
      BY <1>1, OpTypes
    <3> QED  BY <1>1, <3>1, OpTypes
  <2>5. /\ \A o \in {next, off} :
             /\ o.pos = op.pos + 1 /\ o.sector = op.sector /\ o.side = op.side
             /\ o.track = op.track /\ o.notfound = op.notfound
             /\ o.read = op.read /\ o.address = op.address
             /\ o.format = op.format
        /\ next.write = op.write /\ ~off.write
    BY <1>1, SMT DEF Operation, Next1, NoWrite
  <2> HIDE DEF v, got, c, next, off
  <2>6. \A s \in OfSide(format), p \in Positions(format) :
          c[s][p] = IF s = op.side /\ At(0) <= p /\ p < At(op.pos + 1)
                    THEN moved[p - At(0) + 1]
                    ELSE IF Astray THEN c[s][p] ELSE image[trackc][s][p]
    <3>1. /\ At(op.pos) = At(0) + op.pos
          /\ At(op.pos + 1) = At(0) + op.pos + 1
          /\ op.pos \in Nat
      BY <1>1, <1>4
    <3>2. \A s \in OfSide(format), p \in Positions(format) :
            buffer[s][p] = IF s = op.side /\ At(0) <= p /\ p < At(op.pos)
                           THEN moved[p - At(0) + 1]
                           ELSE IF Astray THEN buffer[s][p]
                           ELSE image[trackc][s][p]
      BY <2>1 DEF WrittenSoFar
    <3> DEFINE base == At(0)
    <3> HIDE DEF base
    <3>3. base \in Nat /\ At(op.pos) = base + op.pos
          /\ At(op.pos + 1) = base + op.pos + 1
      BY <1>4, <3>1 DEF base
    <3>4. \A s \in OfSide(format), p \in Positions(format) :
            c[s][p] = IF s = op.side /\ base <= p /\ p < base + op.pos + 1
                      THEN moved[p - base + 1]
                      ELSE IF Astray THEN c[s][p] ELSE image[trackc][s][p]
      <4> SUFFICES ASSUME NEW s \in OfSide(format), NEW p \in Positions(format)
                   PROVE  c[s][p] = IF s = op.side /\ base <= p
                                        /\ p < base + op.pos + 1
                                    THEN moved[p - base + 1]
                                    ELSE IF Astray THEN c[s][p]
                                    ELSE image[trackc][s][p]
        OBVIOUS
      <4>1. p \in Nat /\ s \in Sides
        BY <1>1, <1>4
      <4>2. c[s][p] = IF s = op.side /\ p = base + op.pos THEN v
                      ELSE buffer[s][p]
        BY <2>3, <3>3, <4>1
      <4>3. buffer[s][p] = IF s = op.side /\ base <= p /\ p < base + op.pos
                           THEN moved[p - base + 1]
                           ELSE IF Astray THEN buffer[s][p]
                           ELSE image[trackc][s][p]
        BY <3>2, <3>3 DEF base
      <4>4. p = base + op.pos => moved[p - base + 1] = v
        BY <2>1, <3>1, <3>3, <4>1
      <4> QED  BY <3>1, <3>3, <4>1, <4>2, <4>3, <4>4
    <3> QED  BY <3>3, <3>4 DEF base
  <2>7. CASE op.pos + 1 # SectorSize
    <3>1. Leaves(got, next, c, image)
      BY <1>3, <1>7, <2>7 DEF v
    <3>2. Typed'
      BY <1>1, <1>3, <2>2, <2>3, <2>4, <3>1, LeavesTyped, SMT DEF Typed
    <3>3. /\ w' = got /\ op' = next /\ buffer' = c /\ image' = image
          /\ trackc' = trackc /\ format' = format /\ moved' = moved
          /\ commands' = commands /\ before' = before /\ writeprot' = writeprot
          /\ SectorSize' = SectorSize /\ \A p : At(p)' = At(p)
      BY <1>3, <2>5, <3>1, Primes DEF PollKeeps, Leaves
    <3>4. WrittenSoFar(op.pos, buffer, image)'
      BY <2>5, <2>6, <3>3, AstrayKept DEF WrittenSoFar
    <3>5. /\ op.pos + 1 < SectorSize /\ op.pos + 1 <= Block
          /\ (op.pos + 1 = Block => ~Requesting(got))
      <4>1. op.pos \in Nat /\ op.pos <= SectorSize - 1
        BY <1>1
      <4>2. op.pos + 1 = Block => op.pos = Block - 1
        BY <1>1, <4>1
      <4>3. op.pos + 1 < SectorSize /\ op.pos + 1 <= Block
        BY <1>1, <2>1, <2>7, <4>1
      <4> QED  BY <2>2, <4>2, <4>3
    <3>6. IF ~Requesting(w') /\ w'.written
          THEN Len(moved') = op'.pos + 1 /\ moved'[op'.pos + 1] = w'.data
          ELSE Len(moved') = op'.pos
      BY <2>1, <2>2, <2>5, <3>3
    <3>7. /\ Runs("write", "none")' /\ Only("write")' /\ OnTrack'
          /\ op'.notfound = 0 /\ op'.pos < SectorSize' /\ commands' > 0
          /\ image' = before' /\ ~writeprot' /\ op'.pos <= Block
          /\ (op'.pos = Block => ~Requesting(w') /\ ~w'.written)
      BY <1>7, <2>1, <2>2, <2>5, <3>3, <3>5
         DEF Writing, Runs, Only, OnTrack
    <3>8. Writing'
      BY <3>4, <3>6, <3>7 DEF Writing
    <3> QED  BY <3>2, <3>8 DEF AdfInv, Phase
  <2>8. CASE op.pos + 1 = SectorSize
    <3>1. Leaves(over, off, c, i)
      BY <1>3, <1>7, <2>8 DEF v
    <3>2. op.pos = Block - 1 /\ SectorSize = Block
      BY <1>1, <2>1, <2>8
    <3>3. ~format.dblstep /\ format.blocks = 1 /\ ~Astray
      BY <1>1, <3>2, FormatSizes DEF Astray, Misplaced
    <3>4. /\ i \in Images
          /\ \A t \in Tracks : i[t] = IF t = trackc
                                     THEN [x \in OfSide(format) |-> c[x]]
                                     ELSE image[t]
      <4>1. Stepped(off.track) = trackc
        BY <2>5, <3>3 DEF Stepped, Writing, OnTrack
      <4> QED  BY <1>1, <2>3, <4>1, ImageType
    <3>5. /\ over \in Good /\ Busy(over) /\ over.command = "write"
          /\ over.fdctime = "finish" /\ ~Requesting(over)
      BY <2>2, <3>2, FinishFields, DriveEndsGood
    <3> HIDE DEF over, i
    <3>6. Typed'
      BY <1>1, <1>3, <2>3, <2>4, <3>1, <3>4, <3>5, LeavesTyped, SMT DEF Typed
    <3>7. /\ w' = over /\ op' = off /\ buffer' = c /\ image' = i
          /\ trackc' = trackc /\ format' = format /\ moved' = moved
          /\ commands' = commands /\ before' = before
          /\ SectorSize' = SectorSize /\ \A p : At(p)' = At(p)
      BY <1>3, <2>5, <3>1, Primes DEF PollKeeps, Leaves
    <3>8. WrittenSoFar(SectorSize, buffer, before)'
      <4>1. ~Astray'
        BY <3>3, <3>7 DEF Astray, Misplaced
      <4> QED  BY <2>1, <2>5, <2>6, <2>8, <3>3, <3>7, <4>1 DEF WrittenSoFar
    <3>9. SameTrack' /\ \A t \in Tracks \ {trackc'} : image'[t] = before'[t]
      <4>1. \A s \in OfSide(format) : i[trackc][s] = c[s]
        BY <1>1, <3>4
      <4>2. \A t \in Tracks \ {trackc} : i[t] = before[t]
        BY <2>1, <3>4
      <4> QED  BY <3>7, <4>1, <4>2 DEF SameTrack
    <3>10. /\ Runs("write", "finish")' /\ Only("none")' /\ OnTrack'
           /\ op'.notfound = 0 /\ commands' > 0 /\ ~Requesting(w')
           /\ Len(moved') = SectorSize' /\ format'.blocks = 1
      BY <2>1, <2>5, <2>8, <3>3, <3>5, <3>7 DEF Writing, Runs, Only, OnTrack
    <3>11. WriteOver'
      BY <3>8, <3>9, <3>10 DEF WriteOver
    <3> QED  BY <3>6, <3>11 DEF AdfInv, Phase
  <2> QED  BY <2>7, <2>8
<1> QED  BY <1>5, <1>6, <1>7

(* A format blanks its side from the first byte to the last, or is refused  *)
(* before it has blanked anything.                                          *)
LEMMA PollFormattingKeeps == ASSUME AdfInv, Formatting, Poll PROVE AdfInv'
<1> DEFINE zero == 0
           c == Put(op, buffer, zero)
           next == Next1(op)
           on == Advance(next)
           off == NoFormat(on)
           no == NoFormat(op)
           refused == FdcWriteProtect(w)
           over == FdcFinishRead(w)
           i == Image(off, c, image)
           here == At(op.pos)
<1>1. /\ Typed /\ op \in Operation /\ w \in Good /\ w \in Controller
      /\ format \in Formats /\ op.pos \in 0..(SectorSize - 1)
      /\ SectorSize \in Nat \ {0} /\ op.side \in OfSide(format)
      /\ OfSide(format) \subseteq Sides
      /\ Busy(w) /\ w.command = "format" /\ w.fdctime = "none"
      /\ trackc \in Tracks /\ op.sector \in 0..(format.sectors - 1)
      /\ format.sectors \in Nat \ {0} /\ format.sectors <= MaxSector + 1
      /\ ~Requesting(w) /\ image = before /\ op.track = trackc
  BY FormatSizes
     DEF AdfInv, Typed, Good, Formatting, Operation, OnTrack, Runs
<1>2. /\ PollKeeps
      /\ writeprot => Leaves(refused, no, buffer, image)
      /\ ~writeprot /\ op.pos + 1 # SectorSize => Leaves(w, next, c, image)
      /\ ~writeprot /\ op.pos + 1 = SectorSize /\ on.sector # format.sectors =>
           Leaves(w, on, c, image)
      /\ ~writeprot /\ op.pos + 1 = SectorSize /\ on.sector = format.sectors =>
           Leaves(over, off, c, i)
  BY <1>1, PollFormatting, SMT DEF Formatting, Only
<1>3. /\ here \in Nat /\ Positions(format) \subseteq Nat
      /\ At(op.pos + 1) = here + 1
      /\ op.pos + 1 = SectorSize => (op.sector + 1) * SectorSize = here + 1
      /\ Positions(format) = 0..(format.sectors * SectorSize - 1)
  <2>1. /\ At(0) \in Nat /\ At(op.pos) = At(0) + op.pos
        /\ At(op.pos + 1) = At(0) + (op.pos + 1)
    BY <1>1, AtPlaces
  <2>2. Positions(format) = 0..(format.sectors * SectorSize - 1)
    BY <1>1, FormatSizes
  <2>3. (op.sector + 1) * SectorSize = op.sector * SectorSize + SectorSize
        /\ op.sector * SectorSize \in Nat
    BY <1>1, InTrack
  <2>4. At(op.pos) = op.sector * SectorSize + op.pos
    BY DEF At
  <2> DEFINE base == op.sector * SectorSize
             above == (op.sector + 1) * SectorSize
             first == At(0)
             after == At(op.pos + 1)
  <2>5. /\ first \in Nat /\ here = first + op.pos /\ after = first + (op.pos + 1)
        /\ above = base + SectorSize /\ base \in Nat /\ here = base + op.pos
        /\ op.pos \in Nat /\ SectorSize \in Nat
    BY <1>1, <2>1, <2>3, <2>4
  <2> HIDE DEF base, above, first, after, here
  <2>6. /\ here \in Nat /\ after = here + 1
        /\ (op.pos + 1 = SectorSize => above = here + 1)
    BY <2>5
  <2> QED  BY <2>2, <2>6 DEF above, after
<1>4. /\ c \in TrackData(format)
      /\ \A s \in Sides, p \in Positions(format) :
           c[s][p] = IF s = op.side /\ p = here THEN 0 ELSE buffer[s][p]
  <2>1. zero \in Bytes
    OBVIOUS
  <2> HIDE DEF zero
  <2>2. /\ c \in TrackData(format)
        /\ \A s \in Sides, p \in Positions(format) :
             c[s][p] = IF s = op.side /\ p = here THEN zero ELSE buffer[s][p]
    BY <1>1, <2>1, PutType
  <2> QED  BY <2>2 DEF zero
<1>5. /\ next \in Operation /\ on \in Operation /\ off \in Operation
      /\ no \in Operation
  <2>1. next \in Operation /\ no \in Operation
    BY <1>1, OpTypes
  <2>2. next.sector = op.sector
    BY <1>1, SMT DEF Operation, Next1
  <2>3. op.sector + 1 \in 0..(MaxSector + 1)
    BY <1>1
  <2>4. on \in Operation
    BY <1>1, <2>1, <2>2, <2>3, OpTypes
  <2> QED  BY <1>1, <2>1, <2>4, OpTypes
<1>6. /\ \A o \in {next, on, off, no} :
           /\ o.side = op.side /\ o.track = op.track
           /\ o.notfound = op.notfound /\ o.read = op.read
           /\ o.write = op.write /\ o.address = op.address
      /\ next.format = op.format /\ on.format = op.format
      /\ ~off.format /\ ~no.format
      /\ next.pos = op.pos + 1 /\ next.sector = op.sector
      /\ on.pos = 0 /\ on.sector = op.sector + 1
  <2>1. /\ no.side = op.side /\ no.track = op.track
        /\ no.notfound = op.notfound /\ no.read = op.read
        /\ no.write = op.write /\ no.address = op.address /\ ~no.format
    BY <1>1, SMT DEF Operation, NoFormat
  <2>2. /\ next.side = op.side /\ next.track = op.track
        /\ next.notfound = op.notfound /\ next.read = op.read
        /\ next.write = op.write /\ next.address = op.address
        /\ next.format = op.format
        /\ next.pos = op.pos + 1 /\ next.sector = op.sector
    BY <1>1, SMT DEF Operation, Next1
  <2> HIDE DEF next
  <2>3. /\ on.side = next.side /\ on.track = next.track
        /\ on.notfound = next.notfound /\ on.read = next.read
        /\ on.write = next.write /\ on.address = next.address
        /\ on.format = next.format
        /\ on.pos = 0 /\ on.sector = next.sector + 1
    BY <1>5, SMT DEF Operation, Advance
  <2> HIDE DEF on
  <2>4. /\ off.side = on.side /\ off.track = on.track
        /\ off.notfound = on.notfound /\ off.read = on.read
        /\ off.write = on.write /\ off.address = on.address /\ ~off.format
    BY <1>5, SMT DEF Operation, NoFormat
  <2> HIDE DEF off, no
  <2> QED  BY <2>1, <2>2, <2>3, <2>4
<1>7. \A s \in OfSide(format), p \in Positions(format) :
        buffer[s][p] = IF s = op.side /\ p < here THEN 0
                       ELSE IF Astray THEN buffer[s][p] ELSE image[trackc][s][p]
  BY DEF Formatting, BlankSoFar
<1>8. \A s \in OfSide(format), p \in Positions(format) :
        c[s][p] = IF s = op.side /\ p < here + 1 THEN 0
                  ELSE IF Astray THEN c[s][p] ELSE image[trackc][s][p]
  <2> HIDE DEF c, here
  <2> SUFFICES ASSUME NEW s \in OfSide(format), NEW p \in Positions(format)
               PROVE  c[s][p] = IF s = op.side /\ p < here + 1 THEN 0
                                ELSE IF Astray THEN c[s][p]
                                ELSE image[trackc][s][p]
    OBVIOUS
  <2>1. s \in Sides /\ p \in Nat
    BY <1>1, <1>3
  <2>2. c[s][p] = IF s = op.side /\ p = here THEN 0 ELSE buffer[s][p]
    BY <1>4, <2>1
  <2>3. buffer[s][p] = IF s = op.side /\ p < here THEN 0
                       ELSE IF Astray THEN buffer[s][p] ELSE image[trackc][s][p]
    BY <1>7
  <2>4. p < here + 1 <=> p < here \/ p = here
    BY <1>3, <2>1
  <2> QED  BY <2>2, <2>3, <2>4
<1> HIDE DEF c, next, on, off, no, here
<1>9. CASE writeprot
  <2>1. here = 0
    BY <1>9 DEF Formatting, here
  <2>2. SameTrack
    <3>1. \A s \in OfSide(format), p \in Positions(format) :
            Astray \/ buffer[s][p] = image[trackc][s][p]
      BY <1>3, <1>7, <2>1
    <3> QED  BY <1>1, <3>1, NothingYet
  <2>3. refused \in Good /\ ~Busy(refused) /\ refused.fdctime = "none"
    BY <1>1, DriveEndsGood, EndFields
  <2> HIDE DEF refused
  <2>4. Leaves(refused, no, buffer, image)
    BY <1>2, <1>9
  <2>5. Typed'
    BY <1>1, <1>2, <1>5, <2>3, <2>4, LeavesTyped, SMT DEF Typed
  <2>6. Idle'
    BY <1>2, <1>6, <2>2, <2>3, <2>4, AstrayKept
       DEF Idle, SameTrack, Leaves, PollKeeps, Formatting, Only
  <2> QED  BY <2>5, <2>6 DEF AdfInv, Phase
<1>10. ASSUME NEW o \in {next, on}, ~writeprot, Leaves(w, o, c, image),
              o.pos < SectorSize, o.sector \in 0..(format.sectors - 1),
              o.sector * SectorSize + o.pos = here + 1
       PROVE  AdfInv'
  <2>1. Typed'
    BY <1>1, <1>2, <1>4, <1>5, <1>10, LeavesTyped, SMT DEF Typed
  <2>2. /\ w' = w /\ op' = o /\ buffer' = c /\ image' = image
        /\ trackc' = trackc /\ format' = format /\ commands' = commands
        /\ before' = before /\ writeprot' = writeprot
        /\ SectorSize' = SectorSize
    BY <1>2, <1>10, Primes DEF PollKeeps, Leaves
  <2>3. At(op.pos)' = here + 1
    BY <1>10, <2>2 DEF At
  <2>4. BlankSoFar(At(op.pos), buffer, image)'
    BY <1>6, <1>8, <2>2, <2>3, AstrayKept DEF BlankSoFar
  <2>5. /\ Runs("format", "none")' /\ Only("format")' /\ OnTrack'
        /\ op'.notfound = 0 /\ op'.pos < SectorSize' /\ commands' > 0
        /\ ~Requesting(w') /\ ~writeprot'
        /\ image' = before'
    BY <1>1, <1>6, <1>10, <2>2 DEF Formatting, Runs, Only, OnTrack
  <2>6. Formatting'
    BY <2>4, <2>5 DEF Formatting
  <2> QED  BY <2>1, <2>6 DEF AdfInv, Phase
<1>11. CASE ~writeprot /\ op.pos + 1 # SectorSize
  <2>1. Leaves(w, next, c, image)
    BY <1>2, <1>11
  <2>2. next.pos < SectorSize /\ next.sector \in 0..(format.sectors - 1)
    BY <1>1, <1>6, <1>11
  <2>3. next.sector * SectorSize + next.pos = here + 1
    BY <1>3, <1>6 DEF At
  <2> QED  BY <1>10, <1>11, <2>1, <2>2, <2>3
<1>12. CASE ~writeprot /\ op.pos + 1 = SectorSize /\ on.sector # format.sectors
  <2>1. Leaves(w, on, c, image)
    BY <1>2, <1>12
  <2>2. on.pos < SectorSize /\ on.sector \in 0..(format.sectors - 1)
    BY <1>1, <1>6, <1>12
  <2>3. on.sector * SectorSize + on.pos = here + 1
    BY <1>3, <1>6, <1>12
  <2> QED  BY <1>10, <1>12, <2>1, <2>2, <2>3
<1>13. CASE ~writeprot /\ op.pos + 1 = SectorSize /\ on.sector = format.sectors
  <2> DEFINE to == Stepped(trackc)
  <2>1. Leaves(over, off, c, i)
    BY <1>2, <1>13
  <2>0. /\ to \in Tracks /\ (~format.dblstep => to = trackc)
        /\ 0 \in Positions(format)
    <3>1. to \in Tracks /\ (~format.dblstep => to = trackc)
      BY <1>1 DEF Stepped, Tracks
    <3>2. format.sectors * SectorSize \in Nat \ {0}
      <4>1. 0 \in 0..(SectorSize - 1) /\ 0 \in 0..(format.sectors - 1)
        BY <1>1
      <4>2. 0 * SectorSize + 0 \in Positions(format)
        BY <1>1, <4>1, InTrack
      <4> QED  BY <1>1, <1>3, <4>2
    <3> QED  BY <1>3, <3>1, <3>2
  <2>2. \A p \in Positions(format) : p < here + 1
    <3>1. format.sectors * SectorSize = here + 1
      BY <1>3, <1>6, <1>13
    <3> QED  BY <1>3, <3>1
  <2>3. /\ i \in Images
        /\ \A t \in Tracks : i[t] = IF t = to
                                   THEN [x \in OfSide(format) |-> c[x]]
                                   ELSE image[t]
    BY <1>1, <1>4, <1>6, ImageType
  <2>4. /\ over \in Good /\ Busy(over) /\ over.command = "format"
        /\ over.fdctime = "finish"
    BY <1>1, FinishFields, DriveEndsGood
  <2> HIDE DEF over, i, to
  <2>5. Typed'
    BY <1>1, <1>2, <1>4, <1>5, <2>1, <2>3, <2>4, LeavesTyped, SMT DEF Typed
  <2>6. /\ w' = over /\ op' = off /\ buffer' = c /\ image' = i
        /\ trackc' = trackc /\ format' = format /\ commands' = commands
        /\ before' = before
    BY <1>2, <2>1 DEF PollKeeps, Leaves
  <2>7. /\ OfSide(format)' = OfSide(format) /\ Positions(format)' = Positions(format)
        /\ Stepped(trackc)' = to /\ (Misplaced(before)' <=> Misplaced(before))
    BY <2>6 DEF to, Stepped, OfSide, Positions, Misplaced
  <2>8. Misplaced(before) <=> Astray
    BY <1>1 DEF Astray
  <2>9. \A s \in OfSide(format), p \in Positions(format) :
          /\ c[s][p] = IF s = op.side THEN 0
                       ELSE IF Misplaced(before) THEN c[s][p]
                       ELSE before[trackc][s][p]
          /\ i[to][s][p] = c[s][p]
    <3>1. \A s \in OfSide(format) : i[to][s] = c[s]
      BY <2>0, <2>3
    <3> QED  BY <1>1, <1>8, <2>2, <2>8, <3>1
  <2>10. \A t \in Tracks \ {to} : i[t] = before[t]
    BY <1>1, <2>3
  <2>11. SameTrack'
    <3>1. CASE ~format.dblstep
      <4>1. \A s \in OfSide(format) : i[trackc][s] = c[s]
        BY <2>0, <2>3, <3>1
      <4> QED  BY <2>6, <2>7, <4>1 DEF SameTrack
    <3>2. CASE format.dblstep
      <4>1. i[to][op.side][0] = 0
        BY <1>1, <2>0, <2>9
      <4>2. Original(to, op.side) # 0
        <5>1. to \in Nat /\ op.side \in {0, 1}
          BY <1>1, <2>0 DEF Tracks, Sides
        <5> QED  BY <5>1 DEF Original
      <4>3. Misplaced(image)'
        <5>1. i[to][op.side][0] # Original(to, op.side)
          BY <4>1, <4>2
        <5>2. \E t \in Tracks, s \in OfSide(format), p \in Positions(format) :
                i[t][s][p] # Original(t, s)
          BY <1>1, <2>0, <5>1
        <5> QED  BY <2>6, <2>7, <3>2, <5>2 DEF Misplaced
      <4> QED  BY <4>3 DEF SameTrack, Astray
    <3> QED  BY <3>1, <3>2
  <2>12. /\ Runs("format", "finish")' /\ Only("none")'
         /\ op'.track = trackc' /\ op'.side \in OfSide(format)'
         /\ op'.notfound = 0 /\ commands' > 0
    BY <1>1, <1>6, <2>4, <2>6 DEF Formatting, Runs, Only, OnTrack
  <2>13. FormatOver'
    BY <1>6, <2>6, <2>7, <2>9, <2>10, <2>11, <2>12 DEF FormatOver
  <2> QED  BY <2>5, <2>13 DEF AdfInv, Phase
<1> QED  BY <1>9, <1>11, <1>12, <1>13

(* A poll keeps the invariant in every phase: while a command ends it is    *)
(* not made.                                                                *)
LEMMA PollKeepsInv == ASSUME AdfInv, Poll PROVE AdfInv'
<1>1. ~(ReadOver \/ WriteOver \/ AddressOver \/ FormatOver)
  BY DEF Poll, ReadOver, WriteOver, AddressOver, FormatOver, Runs
<1> QED  BY <1>1, PollIdleKeeps, PollMissingKeeps, PollReadingKeeps,
            PollWritingKeeps, PollAddressingKeeps, PollFormattingKeeps
         DEF AdfInv, Phase

-----------------------------------------------------------------------------
(* The other steps.                                                         *)

(* A disc is loaded with the controller at rest.  (adf_load, adl_load)      *)
LEMMA InitInv == AdfInit => AdfInv
<1> SUFFICES ASSUME AdfInit PROVE AdfInv
  OBVIOUS
<1>1. w \in Good
  BY FreshGood DEF AdfInit
<1>2. /\ format \in Formats
      /\ trackc \in Tracks /\ commands \in 0..MaxCommands
      /\ moved \in Seq(Bytes) /\ writeprot \in BOOLEAN
  BY DEF AdfInit, Sides, Tracks
<1>3. op \in Operation
  BY DEF AdfInit, Operation, Sides, Sectors
<1>4. buffer \in TrackData(format)
  BY DEF AdfInit, TrackData
<1>5. image \in Images /\ before \in Images
  <2>1. \A t \in Tracks, s \in OfSide(format) : Original(t, s) \in Bytes
    <3>1. \A t \in Tracks, s \in {0, 1} : 2 + 2 * t + s \in 0..(2 * MaxTrack + 3)
      BY DEF Tracks
    <3>2. OfSide(format) \subseteq {0, 1}
      BY <1>2, FormatSizes DEF Sides
    <3> QED  BY <3>1, <3>2 DEF Original
  <2>2. before = image
    BY DEF AdfInit
  <2> DEFINE S == OfSide(format)
             P == Positions(format)
             E(t, s) == Original(t, s)
  <2>3. image = [t \in Tracks |-> [s \in S |-> [p \in P |-> E(t, s)]]]
    BY DEF AdfInit
  <2>4. Images = [Tracks -> [S -> [P -> Bytes]]]
    BY DEF Images
  <2>5. \A t \in Tracks, s \in S : E(t, s) \in Bytes
    BY <2>1
  <2> HIDE DEF S, P, E
  <2>6. image \in Images
    BY <2>3, <2>4, <2>5
  <2> QED  BY <2>2, <2>6
<1>6. Idle
  <2>1. ~Busy(w) /\ w.fdctime = "none"
    BY DEF AdfInit, FreshController, Busy
  <2>2. Only("none") /\ op.notfound = 0 /\ commands = 0
    BY DEF AdfInit, Only
  <2> QED  BY <2>1, <2>2 DEF Idle
<1> QED  BY <1>1, <1>2, <1>3, <1>4, <1>5, <1>6 DEF AdfInv, Typed, Phase

(* No command runs, so no operation is in progress.                         *)
LEMMA AtRest ==
  ASSUME AdfInv, ~Busy(w)
  PROVE  Idle
  BY DEF AdfInv, Phase, Moving, Missing, Reading, ReadOver, Writing, WriteOver,
         Addressing, AddressOver, Formatting, FormatOver, Runs

(* The numbers of the tracks the driver names fit in a register.            *)
LEMMA DriveBytes ==
  ASSUME NEW track \in DriveTracks
  PROVE  track \in Bytes /\ Stepped(track) \in Bytes
<1>1. track \in 0..(2 * MaxTrack + 3) /\ track \div 2 \in 0..(2 * MaxTrack + 3)
  BY DEF DriveTracks
<1> QED  BY <1>1 DEF Stepped

(* A head movement takes the track under the head to the buffer.            *)
LEMMA SeekKeeps ==
  ASSUME AdfInv, NEW cmd \in {"restore", "seek", "in+"}, Seek(cmd)
  PROVE  AdfInv'
<1>1. PICK to \in DriveTracks :
        LET wd == IF cmd = "seek" THEN WriteDataRegister(w, to) ELSE w
            track == Stepped(SeekTarget(wd, cmd))
        IN  /\ Command /\ track \in Tracks
            /\ w' = [StartSeek(wd, cmd) EXCEPT !.fdctime = "seek"]
            /\ trackc' = track /\ buffer' = ReadTrack(track)
            /\ UNCHANGED <<op, moved, before>>
  BY Zenon DEF Seek
<1> DEFINE wd == IF cmd = "seek" THEN WriteDataRegister(w, to) ELSE w
           track == Stepped(SeekTarget(wd, cmd))
           go == StartSeek(wd, cmd)
<1>2. /\ Command /\ track \in Tracks /\ trackc' = track
      /\ w' = [go EXCEPT !.fdctime = "seek"]
      /\ buffer' = ReadTrack(track)
      /\ UNCHANGED <<op, moved, before>>
  BY <1>1
<1>3. /\ Typed /\ w \in Good /\ format \in Formats /\ to \in Bytes
      /\ OfSide(format) \subseteq Sides /\ Idle
  BY <1>2, AtRest, FormatSizes, DriveBytes DEF AdfInv, Typed, Command
<1>4. wd \in Good
  BY <1>3, DataGood DEF WriteDataRegister
<1>5. wd \in Controller /\ wd.curtrack \in Bytes
  BY <1>4 DEF Good, Controller
<1> HIDE DEF wd
<1>6. cmd \in SeekCommands
  BY DEF SeekCommands
<1>7. StepHead(wd, cmd).curtrack \in Bytes
  <2>1. CASE cmd # "in+"
    <3>1. StepHead(wd, cmd) = wd
      BY <2>1 DEF StepHead
    <3> QED  BY <1>5, <3>1
  <2>2. CASE cmd = "in+"
    <3>1. StepHead(wd, cmd).curtrack = wd.curtrack + 1
      BY <1>5, <2>2 DEF StepHead, Controller
    <3>2. SeekTarget(wd, cmd) = wd.curtrack + 1
      BY <2>2, <3>1 DEF SeekTarget
    <3> DEFINE n == wd.curtrack + 1
    <3>3. n \in Nat /\ Stepped(n) \in 0..MaxTrack
      BY <1>2, <1>5, <3>2 DEF Tracks
    <3>4. Stepped(n) = n \/ Stepped(n) = n \div 2
      BY DEF Stepped
    <3> HIDE DEF n
    <3>5. n \in 0..(2 * MaxTrack + 3)
      BY <3>3, <3>4
    <3> QED  BY <3>1, <3>5 DEF n
  <2> QED  BY <2>1, <2>2
<1>8. go \in Good /\ go \in Controller
  BY <1>5, <1>6, <1>7, StartSeekGood DEF Good
<1>9. go.command = cmd /\ Busy(go) /\ ~Requesting(go)
  BY <1>5, StartFields
<1> HIDE DEF go, track
<1>10. /\ w' \in Good /\ w'.command = cmd /\ Busy(w') /\ ~Requesting(w')
       /\ w'.fdctime = "seek"
  <2>1. "seek" \in {"none", "seek", "finish"}
    OBVIOUS
  <2>2. w' \in Good
    BY <1>2, <1>8, <2>1, TimerGood
  <2> QED  BY <1>2, <1>8, <1>9, <2>2, SMT DEF Controller, Busy, Requesting
<1>11. /\ buffer' \in TrackData(format)
       /\ \A s \in OfSide(format) : buffer'[s] = image[track][s]
  <2>1. buffer' = [s \in Sides |-> IF s \in OfSide(format) THEN image[track][s]
                                   ELSE buffer[s]]
    BY <1>2 DEF ReadTrack
  <2>2. /\ image[track] \in [OfSide(format) -> [Positions(format) -> Bytes]]
        /\ buffer \in [Sides -> [Positions(format) -> Bytes]]
    BY <1>2, <1>3 DEF Typed, Images, TrackData
  <2> QED  BY <1>3, <2>1, <2>2 DEF TrackData
<1>12. /\ commands' \in 0..MaxCommands /\ commands' > 0
       /\ format' = format /\ image' = image /\ writeprot' = writeprot
  BY <1>2, <1>3 DEF Command, Typed
<1>13. Typed'
  BY <1>2, <1>3, <1>10, <1>11, <1>12 DEF Typed, Images
<1>14. Moving'
  BY <1>2, <1>3, <1>6, <1>10, <1>11, <1>12
     DEF Idle, Moving, Only, SameTrack
<1> QED  BY <1>13, <1>14 DEF AdfInv, Phase

(* A timer ends a head movement or a transfer.  (callback1770)              *)
LEMMA FdcTimerKeeps == ASSUME AdfInv, FdcTimer PROVE AdfInv'
<1>1. /\ w \in Good /\ w \in Controller /\ w.motoron /\ w.fdctime # "none"
      /\ w' = Callback(w) /\ moved' = <<>> /\ before' = image
      /\ UNCHANGED <<format, op, trackc, buffer, image,
                     writeprot, commands>>
  BY DEF FdcTimer, AdfInv, Typed, Good
<1>2. Typed'
  <2>1. w' \in Good
    BY <1>1, CallbackGood
  <2>2. moved' \in Seq(Bytes)
    BY <1>1
  <2> QED  BY <1>1, <2>1, <2>2 DEF AdfInv, Typed, Images
<1>3. /\ w.command \in SeekCommands \cup TransferCommands
      /\ Only("none") /\ op.notfound = 0 /\ SameTrack
  <2>1. Moving \/ ReadOver \/ WriteOver \/ AddressOver \/ FormatOver
    BY <1>1 DEF AdfInv, Phase, Idle, Missing, Reading, Writing, Addressing,
                Formatting, Runs
  <2> QED  BY <2>1, CommandsDiffer
           DEF Moving, ReadOver, WriteOver, AddressOver, FormatOver, Runs
<1>4. ~Busy(w') /\ w'.fdctime = "none"
  BY <1>1, <1>3, CallbackFields, CommandsDiffer
<1>5. Idle'
  BY <1>1, <1>3, <1>4, AstrayKept DEF Idle, Only, SameTrack
<1> QED  BY <1>2, <1>5 DEF AdfInv, Phase

(* The motor stops only when no command runs.                               *)
LEMMA SpinTimerKeeps == ASSUME AdfInv, SpinTimer PROVE AdfInv'
<1>1. /\ w \in Good /\ w \in Controller /\ w.motorspin
      /\ w' = [SpinDown(w) EXCEPT !.motorspin = FALSE]
      /\ UNCHANGED <<format, op, trackc, buffer, image, writeprot,
                     commands, moved, before>>
  BY DEF SpinTimer, AdfInv, Typed, Good
<1>2. ~Busy(w) /\ ~Requesting(w)
  BY <1>1 DEF Good, Sound
<1>3. Idle
  BY <1>2, AtRest
<1>4. w' \in Good
  <2>1. SpinDown(w) \in Good /\ SpinDown(w) \in Controller
    BY <1>1, <1>2, StoppedGood DEF Good
  <2>2. ~Busy(SpinDown(w)) /\ ~Requesting(SpinDown(w))
    BY <1>1, <1>2, SMT DEF SpinDown, Busy, Requesting, Controller
  <2> DEFINE down == SpinDown(w)
             no == FALSE
  <2>3. no \in BOOLEAN /\ w' = [down EXCEPT !.motorspin = no]
    BY <1>1
  <2> HIDE DEF down, no
  <2>4. [down EXCEPT !.motorspin = no] \in Controller
    BY <2>1, <2>3, ZenonT(120) DEF Controller, down
  <2>5. /\ [down EXCEPT !.motorspin = no].status = down.status
        /\ [down EXCEPT !.motorspin = no].motoron = down.motoron
    BY <2>1, SMT DEF Controller, down
  <2> QED  BY <2>1, <2>2, <2>3, <2>4, <2>5 DEF Good, Sound, Busy, Requesting, down
<1>5. ~Busy(w') /\ w'.fdctime = "none"
  BY <1>1, <1>2, <1>3, SMT DEF Idle, SpinDown, Controller, Busy
<1>6. Typed' /\ Idle'
  BY <1>1, <1>3, <1>4, <1>5, AstrayKept
     DEF AdfInv, Typed, Images, Idle, Only, SameTrack
<1> QED  BY <1>6 DEF AdfInv, Phase

(* The user protects the disc only while no command runs.                   *)
LEMMA WriteProtectKeeps == ASSUME AdfInv, WriteProtect PROVE AdfInv'
<1>1. Idle
  BY AtRest DEF WriteProtect
<1>2. Idle' /\ Typed'
  BY <1>1, AstrayKept
     DEF WriteProtect, AdfInv, Typed, Images, Idle, Only, SameTrack
<1> QED  BY <1>2 DEF AdfInv, Phase

(* The data register                                                        *)

(* The history grows by the byte.                                           *)
LEMMA Remembered ==
  ASSUME moved \in Seq(Bytes), NEW b \in Bytes, Remember(b)
  PROVE  /\ moved' \in Seq(Bytes) /\ Len(moved') = Len(moved) + 1
         /\ moved'[Len(moved) + 1] = b
         /\ \A k \in 1..Len(moved) : moved'[k] = moved[k]
  BY DEF Remember

(* The CPU supplies the byte a write asked for.                             *)
LEMMA WriteDataKeeps == ASSUME AdfInv, WriteData PROVE AdfInv'
<1>1. PICK b \in CpuBytes : w' = WriteDataRegister(w, b) /\ Remember(b)
  BY DEF WriteData
<1>2. /\ Typed /\ w \in Good /\ w \in Controller /\ b \in Bytes
      /\ moved \in Seq(Bytes) /\ format \in Formats
      /\ w.command = "write" /\ Busy(w) /\ Requesting(w)
      /\ UNCHANGED <<format, op, trackc, buffer, image, writeprot,
                     commands, before>>
  BY <1>1 DEF WriteData, AdfInv, Typed, Good
<1>3. /\ w'.command = "write" /\ Busy(w') /\ w'.fdctime = w.fdctime
      /\ w'.data = b /\ w'.written /\ ~Requesting(w')
  BY <1>1, <1>2, SMT DEF WriteDataRegister, Busy, Requesting, Controller
<1>4. w' \in Good
  BY <1>1, <1>2, DataGood DEF WriteDataRegister
<1>5. /\ moved' \in Seq(Bytes) /\ Len(moved') = Len(moved) + 1
      /\ moved'[Len(moved) + 1] = b
      /\ \A k \in 1..Len(moved) : moved'[k] = moved[k]
  BY <1>1, <1>2, Remembered
<1>6. Typed'
  BY <1>2, <1>4, <1>5 DEF Typed, Images
<1>7. Missing \/ Writing
  BY <1>2, CommandsDiffer
     DEF AdfInv, Phase, Idle, Moving, Reading, ReadOver, WriteOver, Addressing,
         AddressOver, Formatting, FormatOver, Runs
<1>8. CASE Missing
  <2>1. Missing'
    BY <1>2, <1>3, <1>8, AstrayKept DEF Missing, Only, SameTrack
  <2> QED  BY <1>6, <2>1 DEF AdfInv, Phase
<1>9. CASE Writing
  <2>1. SectorSize' = SectorSize /\ \A p : At(p)' = At(p)
    BY <1>2, Primes
  <2>2. /\ Len(moved) = op.pos /\ op.pos \in Nat
        /\ op.sector \in 0..(format.sectors - 1)
        /\ WrittenSoFar(op.pos, buffer, image) /\ op.pos # Block
    BY <1>2, <1>9 DEF Writing, OnTrack, Typed, Operation
  <2>3. WrittenSoFar(op.pos, buffer, image)'
    <3> DEFINE base == At(0)
    <3>1. base \in Nat /\ At(op.pos) = base + op.pos /\ Positions(format) \subseteq Nat
      <4>1. Positions(format) \subseteq Nat
        BY <1>2, FormatSizes
      <4>2. base \in Nat /\ At(op.pos) = base + op.pos
        <5>1. op.pos \in Int
          BY <2>2
        <5>2. op.sector \in 0..(format.sectors - 1)
          BY <2>2
        <5>3. At(0) \in Nat /\ At(op.pos) = At(0) + op.pos
          BY <1>2, <5>1, <5>2, AtPlaces
        <5> QED  BY <5>3
      <4> QED  BY <4>1, <4>2
    <3> HIDE DEF base
    <3>2. \A p \in Positions(format) : base <= p /\ p < At(op.pos) =>
            moved'[p - base + 1] = moved[p - base + 1]
      <4>1. \A p \in Positions(format) : base <= p /\ p < At(op.pos) =>
              p - base + 1 \in 1..Len(moved)
        BY <2>2, <3>1
      <4> QED  BY <1>5, <4>1
    <3>3. \A s \in OfSide(format), p \in Positions(format) :
            buffer[s][p] = IF s = op.side /\ base <= p /\ p < At(op.pos)
                           THEN moved'[p - base + 1]
                           ELSE IF Astray THEN buffer[s][p]
                           ELSE image[trackc][s][p]
      BY <2>2, <3>2 DEF WrittenSoFar, base
    <3> QED  BY <1>2, <2>1, <3>3, AstrayKept DEF WrittenSoFar, base
  <2>4. /\ Runs("write", "none")' /\ Only("write")' /\ OnTrack'
        /\ op'.notfound = 0 /\ op'.pos < SectorSize' /\ commands' > 0
        /\ (writeprot' => op'.pos = 0) /\ image' = before'
        /\ op'.pos <= Block /\ op'.pos # Block
    BY <1>2, <1>3, <1>9, <2>1, <2>2 DEF Writing, Runs, Only, OnTrack
  <2>5. Len(moved') = op'.pos + 1 /\ moved'[op'.pos + 1] = w'.data
    BY <1>2, <1>3, <1>5, <2>2
  <2>6. Writing'
    BY <1>3, <2>3, <2>4, <2>5 DEF Writing
  <2> QED  BY <1>6, <2>6 DEF AdfInv, Phase
<1> QED  BY <1>7, <1>8, <1>9

(* The CPU takes the byte a read or an address has sent.                    *)
LEMMA ReadDataKeeps == ASSUME AdfInv, ReadData PROVE AdfInv'
<1>1. /\ w' = ReadDataRegister(w) /\ Remember(w.data)
      /\ w.command # "write" /\ Requesting(w)
      /\ UNCHANGED <<format, op, trackc, buffer, image, writeprot,
                     commands, before>>
  BY DEF ReadData
<1>2. /\ Typed /\ w \in Good /\ w \in Controller /\ w.data \in Bytes
      /\ moved \in Seq(Bytes) /\ format \in Formats /\ Busy(w)
  BY <1>1 DEF AdfInv, Typed, Good, Sound, Controller
<1>3. /\ w'.command = w.command /\ Busy(w') /\ w'.fdctime = w.fdctime
      /\ w'.data = w.data /\ w'.written = w.written /\ ~Requesting(w')
  BY <1>1, <1>2, RegisterFields
<1>4. w' \in Good
  BY <1>1, <1>2, ReadRegisterGood
<1>5. /\ moved' \in Seq(Bytes) /\ Len(moved') = Len(moved) + 1
      /\ moved'[Len(moved) + 1] = w.data
      /\ \A k \in 1..Len(moved) : moved'[k] = moved[k]
  BY <1>1, <1>2, Remembered
<1>6. Typed'
  BY <1>1, <1>2, <1>4, <1>5 DEF Typed, Images
<1>7. Missing \/ Reading \/ ReadOver \/ Addressing \/ AddressOver
      \/ FormatOver
  BY <1>1, <1>2
     DEF AdfInv, Phase, Idle, Moving, Writing, WriteOver, Formatting, Runs
<1>8. SectorSize' = SectorSize /\ \A p : At(p)' = At(p)
  BY <1>1, Primes
<1>9. CASE Missing \/ Addressing \/ AddressOver
  <2>1. Missing' \/ Addressing' \/ AddressOver'
    BY <1>1, <1>3, <1>9, AstrayKept
       DEF Missing, Addressing, AddressOver, Only, SameTrack, Runs
  <2> QED  BY <1>6, <2>1 DEF AdfInv, Phase
<1>10. CASE FormatOver
  <2>1. FormatOver'
    <3>1. Runs("format", "finish")'
      BY <1>3, <1>10 DEF FormatOver, Runs
    <3> QED  BY <1>1, <1>10, <3>1, FormatOverKept
  <2> QED  BY <1>6, <2>1 DEF AdfInv, Phase
<1>11. CASE Reading \/ ReadOver
  <2>1. /\ op.pos \in Nat /\ op.pos > 0 /\ w.data = buffer[op.side][At(op.pos - 1)]
        /\ Len(moved) = op.pos - 1
        /\ \A k \in 1..Len(moved) : moved[k] = buffer[op.side][At(k - 1)]
    BY <1>1, <1>2, <1>11 DEF Reading, ReadOver, ReadSoFar, Typed, Operation
  <2>2. Len(moved') = op.pos
    BY <1>5, <2>1
  <2>3. \A k \in 1..Len(moved') : moved'[k] = buffer[op.side][At(k - 1)]
    <3> SUFFICES ASSUME NEW k \in 1..Len(moved')
                 PROVE  moved'[k] = buffer[op.side][At(k - 1)]
      OBVIOUS
    <3>1. CASE k = op.pos
      BY <1>5, <2>1, <3>1
    <3>2. CASE k # op.pos
      <4>1. k \in 1..Len(moved)
        BY <2>1, <2>2, <3>2
      <4> QED  BY <1>5, <2>1, <4>1
    <3> QED  BY <3>1, <3>2
  <2>4. ReadSoFar'
    BY <1>1, <1>3, <1>8, <2>2, <2>3 DEF ReadSoFar
  <2>5. Reading' \/ ReadOver'
    BY <1>1, <1>3, <1>8, <1>11, <2>4, AstrayKept
       DEF Reading, ReadOver, Only, SameTrack, OnTrack, Runs
  <2> QED  BY <1>6, <2>5 DEF AdfInv, Phase
<1> QED  BY <1>7, <1>9, <1>10, <1>11

(* A command.  (adf_readsector, adf_writesector, adf_readaddress,           *)
(* adf_format)                                                              *)

(* What a command leaves of the operation: its own flag, or the countdown   *)
LEMMA RequestedSt ==
  ASSUME Typed, Only("none"), op.notfound = 0,
         NEW wd, wd.track \in DriveTracks, wd.sector - First \in 0..(format.sectors - 1),
         NEW cmd \in TransferCommands, NEW s \in Sides, NEW dens \in BOOLEAN
  PROVE  LET o == Requested(wd, cmd, s, dens)
             track == IF cmd \in {"address", "format"} THEN Stepped(wd.track)
                      ELSE wd.track
         IN  /\ o \in Operation
             /\ ~Found(track, s, dens) =>
                  /\ o.notfound = NotFoundPolls
                  /\ ~o.read /\ ~o.write /\ ~o.address /\ ~o.format
             /\ Found(track, s, dens) =>
                  /\ o.notfound = 0 /\ o.pos = 0
                  /\ o.track = track /\ o.side = s
                  /\ o.read <=> cmd = "read"
                  /\ o.write <=> cmd = "write"
                  /\ o.address <=> cmd = "address"
                  /\ o.format <=> cmd = "format"
                  /\ cmd \in {"read", "write"} => o.sector = wd.sector - First
                  /\ cmd = "format" => o.sector = 0
<1> DEFINE track == IF cmd \in {"address", "format"} THEN Stepped(wd.track)
                    ELSE wd.track
           n == wd.sector - First
           named == [op EXCEPT !.track = track, !.side = s]
           at == IF cmd \in {"read", "write"} THEN [named EXCEPT !.sector = n]
                 ELSE named
           lost == [at EXCEPT !.notfound = NotFoundPolls]
           o == Requested(wd, cmd, s, dens)
<1>1. o = IF Found(track, s, dens) THEN Begin(at, cmd) ELSE lost
  BY Zenon DEF Requested
<1>2. /\ op \in Operation /\ n \in -1..(MaxSector + 1) /\ track \in Bytes
      /\ NotFoundPolls \in 0..NotFoundPolls
  <2>1. format.sectors \in Nat /\ format.sectors <= MaxSector + 1
    BY FormatSizes DEF Typed
  <2>2. n \in -1..(MaxSector + 1)
    BY <2>1
  <2>3. track \in Bytes
    BY DriveBytes
  <2>4. op \in Operation
    BY DEF Typed
  <2>5. NotFoundPolls \in Nat \ {0}
    OBVIOUS
  <2> HIDE DEF track, n
  <2>6. NotFoundPolls \in 0..NotFoundPolls
    BY <2>5
  <2> QED  BY <2>2, <2>3, <2>4, <2>5, <2>6
<1> HIDE DEF track, n, o
<1>3. named \in Operation
  BY <1>2, ZenonT(120) DEF Operation
<1>4. /\ named.track = track /\ named.side = s /\ named.notfound = 0
      /\ ~named.read /\ ~named.write /\ ~named.address /\ ~named.format
  BY <1>2, SMT DEF Operation, Only
<1> HIDE DEF named
<1>5. [named EXCEPT !.sector = n] \in Operation
  BY <1>2, <1>3, ZenonT(120) DEF Operation
<1>6. at \in Operation
  BY <1>3, <1>5
<1>7. /\ at.track = track /\ at.side = s /\ at.notfound = 0
      /\ ~at.read /\ ~at.write /\ ~at.address /\ ~at.format
      /\ (cmd \in {"read", "write"} => at.sector = n)
  BY <1>3, <1>4, SMT DEF Operation
<1> HIDE DEF at
<1>8. /\ lost \in Operation /\ lost.notfound = NotFoundPolls
      /\ ~lost.read /\ ~lost.write /\ ~lost.address /\ ~lost.format
  <2>1. lost \in Operation
    BY <1>2, <1>6, ZenonT(120) DEF Operation
  <2> QED  BY <1>6, <1>7, <2>1, SMT DEF Operation
<1> HIDE DEF lost
<1> DEFINE begun == Begin(at, cmd)
<1>9. /\ begun \in Operation
      /\ begun.notfound = 0 /\ begun.pos = 0
      /\ begun.track = track /\ begun.side = s
      /\ begun.read <=> cmd = "read"
      /\ begun.write <=> cmd = "write"
      /\ begun.address <=> cmd = "address"
      /\ begun.format <=> cmd = "format"
      /\ cmd \in {"read", "write"} => begun.sector = n
      /\ cmd = "format" => begun.sector = 0
  <2> DEFINE yes == TRUE
             zero == 0
  <2>1. yes \in BOOLEAN /\ zero \in Nat /\ zero \in -1..(MaxSector + 1)
    OBVIOUS
  <2>2. cmd \in {"read", "write", "address", "format"}
    BY DEF TransferCommands
  <2> DEFINE r == [at EXCEPT !.read = yes, !.pos = zero]
             wr == [at EXCEPT !.write = yes, !.pos = zero]
             ad == [at EXCEPT !.address = yes, !.pos = zero]
             fm == [at EXCEPT !.format = yes, !.pos = zero, !.sector = zero]
  <2>3. /\ cmd = "read" => begun = r
        /\ cmd = "write" => begun = wr
        /\ cmd = "address" => begun = ad
        /\ cmd = "format" => begun = fm
    BY DEF Begin
  <2> HIDE DEF yes, zero, begun
  <2>4. CASE cmd = "read"
    <3>1. r \in Operation
      BY <1>6, <2>1, ZenonT(120) DEF Operation
    <3>2. /\ r.notfound = at.notfound /\ r.pos = zero /\ r.read = yes
          /\ r.track = at.track /\ r.side = at.side
          /\ r.sector = at.sector
          /\ r.write = at.write /\ r.address = at.address /\ r.format = at.format
      BY <1>6, SMT DEF Operation
    <3> HIDE DEF r
    <3>3. begun = r
      BY <2>3, <2>4
    <3> QED  BY <1>7, <2>4, <3>1, <3>2, <3>3 DEF yes, zero
  <2>5. CASE cmd = "write"
    <3>1. wr \in Operation
      BY <1>6, <2>1, ZenonT(120) DEF Operation
    <3>2. /\ wr.notfound = at.notfound /\ wr.pos = zero /\ wr.write = yes
          /\ wr.track = at.track /\ wr.side = at.side
          /\ wr.sector = at.sector
          /\ wr.read = at.read /\ wr.address = at.address /\ wr.format = at.format
      BY <1>6, SMT DEF Operation
    <3> HIDE DEF wr
    <3>3. begun = wr
      BY <2>3, <2>5
    <3> QED  BY <1>7, <2>5, <3>1, <3>2, <3>3 DEF yes, zero
  <2>6. CASE cmd = "address"
    <3>1. ad \in Operation
      BY <1>6, <2>1, ZenonT(120) DEF Operation
    <3>2. /\ ad.notfound = at.notfound /\ ad.pos = zero /\ ad.address = yes
          /\ ad.track = at.track /\ ad.side = at.side
          /\ ad.sector = at.sector
          /\ ad.read = at.read /\ ad.write = at.write /\ ad.format = at.format
      BY <1>6, SMT DEF Operation
    <3> HIDE DEF ad
    <3>3. begun = ad
      BY <2>3, <2>6
    <3> QED  BY <1>7, <2>6, <3>1, <3>2, <3>3 DEF yes, zero
  <2>7. CASE cmd = "format"
    <3> DEFINE begin == [at EXCEPT !.format = yes, !.pos = zero]
    <3>1. begin \in Operation
      BY <1>6, <2>1, ZenonT(120) DEF Operation
    <3>2. fm = [begin EXCEPT !.sector = zero]
      BY <1>6, SMT DEF Operation
    <3> HIDE DEF begin, fm
    <3>3. fm \in Operation
      BY <2>1, <3>1, <3>2, ZenonT(120) DEF Operation
    <3> USE DEF fm
    <3>4. /\ fm.notfound = at.notfound /\ fm.pos = zero /\ fm.format = yes
          /\ fm.track = at.track /\ fm.side = at.side
          /\ fm.sector = zero
          /\ fm.read = at.read /\ fm.write = at.write /\ fm.address = at.address
      BY <1>6, SMT DEF Operation
    <3> HIDE DEF fm
    <3>5. begun = fm
      BY <2>3, <2>7
    <3> QED  BY <1>7, <2>7, <3>3, <3>4, <3>5 DEF yes, zero
  <2> QED  BY <2>2, <2>4, <2>5, <2>6, <2>7
<1> HIDE DEF begun
<1>10. CASE ~Found(track, s, dens)
  <2>1. o = lost
    BY <1>1, <1>10
  <2> QED  BY <1>8, <1>10, <2>1 DEF o, track
<1>11. CASE Found(track, s, dens)
  <2>1. o = begun
    BY <1>1, <1>11 DEF begun
  <2> QED  BY <1>9, <1>11, <2>1 DEF o, track, n
<1> QED  BY <1>10, <1>11

(* A command begins with nothing read, written or blanked.                  *)
LEMMA TransferKeeps ==
  ASSUME AdfInv, NEW cmd \in TransferCommands, Transfer(cmd)
  PROVE  AdfInv'
<1>1. PICK track \in DriveTracks, sector \in SectorNumbers, s \in Sides,
           dens \in BOOLEAN :
        LET wd == [w EXCEPT !.track = track, !.sector = sector]
        IN  /\ Command /\ commands > 0
            /\ w' = StartTransfer(wd, cmd) /\ op' = Requested(wd, cmd, s, dens)
            /\ moved' = <<>> /\ before' = image
            /\ UNCHANGED <<trackc, buffer>>
  BY Zenon DEF Transfer
<1> DEFINE wd == [w EXCEPT !.track = track, !.sector = sector]
           o == Requested(wd, cmd, s, dens)
           there == IF cmd \in {"address", "format"} THEN Stepped(track) ELSE track
<1>2. /\ Command /\ commands > 0
      /\ w' = StartTransfer(wd, cmd) /\ op' = o
      /\ moved' = <<>> /\ before' = image
      /\ UNCHANGED <<trackc, buffer>>
  BY <1>1
<1>3. /\ Typed /\ w \in Controller /\ format \in Formats
      /\ Idle /\ SameTrack /\ w.fdctime = "none"
      /\ OfSide(format) \subseteq Sides
  BY <1>2, AtRest, FormatSizes DEF AdfInv, Typed, Good, Command, Idle
<1>4. /\ First \in {0, 1} /\ sector - First \in 0..(format.sectors - 1)
      /\ sector \in Bytes /\ track \in Bytes
  <2>1. /\ format.sectors \in Nat \ {0} /\ format.sectors <= MaxSector + 1
        /\ format.sectors \in Bytes
    BY <1>3, FormatSizes
  <2>2. First \in {0, 1}
    BY DEF First
  <2>3. sector - First \in 0..(format.sectors - 1)
    BY <2>1, <2>2 DEF SectorNumbers
  <2>4. sector \in 0..MaxSector \/ sector = format.sectors
    BY <2>1, <2>2 DEF SectorNumbers
  <2>5. 0..MaxSector \subseteq Bytes /\ track \in Bytes
    BY DriveBytes DEF Sectors
  <2> QED  BY <2>1, <2>2, <2>3, <2>4, <2>5
<1>5. wd \in Controller
  BY <1>3, <1>4, ZenonT(120) DEF Controller
<1>6. wd.track = track /\ wd.sector = sector /\ wd.fdctime = "none"
  BY <1>3, SMT DEF Controller
<1> HIDE DEF wd
<1>7. w' \in Good
  BY <1>2, <1>5, StartTransferGood
<1>8. /\ w'.command = cmd /\ Busy(w') /\ w'.fdctime = "none"
      /\ Requesting(w') <=> cmd = "write"
  BY <1>2, <1>5, <1>6, StartFields
<1>9. /\ o \in Operation
      /\ ~Found(there, s, dens) =>
           /\ o.notfound = NotFoundPolls
           /\ ~o.read /\ ~o.write /\ ~o.address /\ ~o.format
      /\ Found(there, s, dens) =>
           /\ o.notfound = 0 /\ o.pos = 0
           /\ o.track = there /\ o.side = s
           /\ o.read <=> cmd = "read"
           /\ o.write <=> cmd = "write"
           /\ o.address <=> cmd = "address"
           /\ o.format <=> cmd = "format"
           /\ cmd \in {"read", "write"} => o.sector = sector - First
           /\ cmd = "format" => o.sector = 0
  <2>1. Only("none") /\ op.notfound = 0
    BY <1>3 DEF Idle
  <2> QED  BY <1>3, <1>4, <1>6, <2>1, RequestedSt
<1> HIDE DEF o, there
<1>10. /\ commands' \in 0..MaxCommands /\ commands' > 0
       /\ format' = format /\ image' = image /\ writeprot' = writeprot
       /\ trackc' = trackc /\ buffer' = buffer /\ op' = o /\ moved' = <<>>
       /\ before' = image /\ Len(moved') = 0 /\ moved' \in Seq(Bytes)
  BY <1>2, <1>3 DEF Command, Typed
<1>11. Typed'
  BY <1>2, <1>3, <1>7, <1>9, <1>10 DEF Typed, Images
<1>12. SameTrack'
  BY <1>3, <1>10, AstrayKept DEF SameTrack
<1>13. CASE ~Found(there, s, dens)
  <2>1. Missing'
    BY <1>8, <1>9, <1>10, <1>12, <1>13 DEF Missing, Only
  <2> QED  BY <1>11, <2>1 DEF AdfInv, Phase
<1>14. CASE Found(there, s, dens)
  <2>1. there = trackc /\ s \in OfSide(format) /\ trackc' = trackc
    BY <1>10, <1>14 DEF Found
  <2>2. /\ SectorSize' = SectorSize /\ SectorSize \in Nat \ {0}
        /\ format.sectors \in Nat \ {0}
    BY <1>3, <1>10, Primes, FormatSizes
  <2>3. cmd \in {"read", "write", "address", "format"}
    BY DEF TransferCommands
  <2>4. CASE cmd = "read"
    <3>1. OnTrack'
      BY <1>4, <1>9, <1>10, <1>14, <2>1, <2>4 DEF OnTrack
    <3>2. ReadSoFar'
      BY <1>8, <1>9, <1>10, <1>14, <2>4 DEF ReadSoFar
    <3>3. Reading'
      BY <1>8, <1>9, <1>10, <1>12, <1>14, <2>2, <2>4, <3>1, <3>2
         DEF Reading, Runs, Only
    <3> QED  BY <1>11, <3>3 DEF AdfInv, Phase
  <2>5. CASE cmd = "write"
    <3>1. OnTrack'
      BY <1>4, <1>9, <1>10, <1>14, <2>1, <2>5 DEF OnTrack
    <3>2. o.pos = 0 /\ Positions(format) \subseteq Nat
      BY <1>3, <1>9, <1>14, FormatSizes
    <3>3. At(op.pos)' = At(0)'
      BY <1>10, <3>2
    <3>4. At(0)' \in Nat
      <4>1. At(0)' = (sector - First) * SectorSize + 0
        BY <1>9, <1>10, <1>14, <2>2, <2>5 DEF At
      <4>2. 0 \in 0..(SectorSize - 1)
        BY <2>2
      <4> QED  BY <1>3, <1>4, <4>1, <4>2, InTrack
    <3>5. WrittenSoFar(op.pos, buffer, image)'
      <4>1. \A x \in OfSide(format), p \in Positions(format) :
              /\ ~(At(0)' <= p /\ p < At(0)')
              /\ Astray \/ buffer[x][p] = image[trackc][x][p]
        BY <1>3, <3>2, <3>4 DEF SameTrack
      <4> QED  BY <1>10, <3>3, <4>1, AstrayKept DEF WrittenSoFar
    <3>6. Writing'
      BY <1>8, <1>9, <1>10, <1>14, <2>2, <2>5, <3>1, <3>5
         DEF Writing, Runs, Only
    <3> QED  BY <1>11, <3>6 DEF AdfInv, Phase
  <2>6. CASE cmd = "address"
    <3>1. Addressing'
      BY <1>8, <1>9, <1>10, <1>12, <1>14, <2>6 DEF Addressing, Runs, Only
    <3> QED  BY <1>11, <3>1 DEF AdfInv, Phase
  <2>7. CASE cmd = "format"
    <3>1. OnTrack'
      BY <1>9, <1>10, <1>14, <2>1, <2>2, <2>7 DEF OnTrack
    <3>2. At(op.pos)' = 0
      BY <1>9, <1>10, <1>14, <2>2, <2>7 DEF At
    <3>3. BlankSoFar(At(op.pos), buffer, image)'
      <4>1. \A x \in OfSide(format), p \in Positions(format) :
              ~(p < 0) /\ (Astray \/ buffer[x][p] = image[trackc][x][p])
        <5>1. Positions(format) \subseteq Nat
          BY <1>3, FormatSizes
        <5> QED  BY <1>3, <5>1 DEF SameTrack
      <4> QED  BY <1>10, <3>2, <4>1, AstrayKept DEF BlankSoFar
    <3>4. Formatting'
      BY <1>2, <1>8, <1>9, <1>10, <1>14, <2>2, <2>7, <3>1, <3>2, <3>3
         DEF Formatting, Runs, Only
    <3> QED  BY <1>11, <3>4 DEF AdfInv, Phase
  <2> QED  BY <2>3, <2>4, <2>5, <2>6, <2>7
<1> QED  BY <1>13, <1>14

-----------------------------------------------------------------------------
(* Theorems                                                                 *)

(* Every step keeps the invariant.                                          *)
LEMMA NextInv == AdfInv /\ [AdfNext]_adf => AdfInv'
<1> SUFFICES ASSUME AdfInv, [AdfNext]_adf PROVE AdfInv'
  OBVIOUS
<1>1. ASSUME NEW cmd \in {"restore", "seek", "in+"}, Seek(cmd) PROVE AdfInv'
  BY <1>1, SeekKeeps
<1>2. ASSUME NEW cmd \in TransferCommands, Transfer(cmd) PROVE AdfInv'
  BY <1>2, TransferKeeps
<1>3. CASE Poll
  BY <1>3, PollKeepsInv
<1>4. CASE FdcTimer
  BY <1>4, FdcTimerKeeps
<1>5. CASE SpinTimer
  BY <1>5, SpinTimerKeeps
<1>6. CASE WriteData
  BY <1>6, WriteDataKeeps
<1>7. CASE ReadData
  BY <1>7, ReadDataKeeps
<1>8. CASE WriteProtect
  BY <1>8, WriteProtectKeeps
<1>9. CASE UNCHANGED adf
  BY <1>9, StutterKeeps
<1> QED  BY <1>1, <1>2, <1>3, <1>4, <1>5, <1>6, <1>7, <1>8, <1>9 DEF AdfNext

(* The phases: what the operation of adf.c has done is always that of one   *)
(* phase of the command the controller runs.                                *)
LEMMA AdfInvHolds == AdfSpec => []AdfInv
<1> QED  BY InitInv, NextInv, PTL DEF AdfSpec

(* Every step of a double density disc keeps the types, its controller      *)
(* included, whatever the format.  (adf.c, 1770.c)                          *)
THEOREM AdfTypeCorrect == AdfSpec => []AdfTypeOK
<1>1. AdfInv => AdfTypeOK
  BY DEF AdfInv, Typed, AdfTypeOK, Good, Images
<1> QED  BY <1>1, AdfInvHolds, PTL

(* A transfer that has ended moved the bytes of the sector it names.        *)
LEMMA OverInStep ==
  ASSUME AdfInv
  PROVE  AdfInStep
<1>1. Typed /\ format \in Formats /\ OfSide(format) \subseteq Sides
      /\ SectorSize \in Nat \ {0} /\ Positions(format) \subseteq Nat
  <2>1. format \in Formats
    BY DEF AdfInv, Typed
  <2> QED  BY <2>1, FormatSizes DEF AdfInv
<1>2. ASSUME Finished("read"), ~Misplaced(image)
      PROVE  moved = Bytewise(image)
  <2>1. ReadOver
    BY <1>2 DEF AdfInv, Phase, Finished, Idle, Moving, Missing, Reading, Writing,
                WriteOver, Addressing, AddressOver, Formatting, FormatOver, Runs
  <2>2. /\ Len(moved) = SectorSize /\ OnTrack
        /\ \A k \in 1..Len(moved) : moved[k] = buffer[op.side][At(k - 1)]
    BY <1>1, <1>2, <2>1 DEF ReadOver, ReadSoFar, Finished
  <2>3. \A k \in 1..SectorSize :
          moved[k] = image[op.track][op.side][op.sector * SectorSize + k - 1]
    <3> SUFFICES ASSUME NEW k \in 1..SectorSize
                 PROVE  moved[k]
                   = image[op.track][op.side][op.sector * SectorSize + k - 1]
      OBVIOUS
    <3>1. buffer[op.side] = image[op.track][op.side]
      BY <1>2, <2>1, <2>2 DEF ReadOver, SameTrack, OnTrack, Astray
    <3>2. op.sector * SectorSize \in Nat
      <4>1. 0 \in 0..(SectorSize - 1)
        BY <1>1
      <4> QED  BY <1>1, <2>2, <4>1, InTrack DEF OnTrack
    <3>3. At(k - 1) = op.sector * SectorSize + k - 1
      BY <3>2 DEF At
    <3> QED  BY <2>2, <3>1, <3>3
  <2>4. moved \in Seq(Bytes)
    BY <1>1 DEF Typed
  <2>5. moved = [k \in 1..Len(moved) |-> moved[k]]
    BY <2>4
  <2> QED  BY <2>2, <2>3, <2>5 DEF Bytewise
<1>3. ASSUME Finished("write")
      PROVE  /\ format.blocks = 1 /\ Len(moved) = SectorSize
             /\ \A t \in Tracks, s \in OfSide(format), p \in Positions(format) :
                  image[t][s][p] =
                    IF t = op.track /\ s = op.side /\ p \div SectorSize = op.sector
                    THEN moved[(p % SectorSize) + 1] ELSE before[t][s][p]
  <2>1. WriteOver
    BY <1>3 DEF AdfInv, Phase, Finished, Idle, Moving, Missing, Reading, Writing,
                ReadOver, Addressing, AddressOver, Formatting, FormatOver, Runs
  <2>2. /\ Len(moved) = SectorSize /\ op.track = trackc /\ op.sector \in Nat
        /\ op.sector \in 0..(format.sectors - 1)
        /\ format.blocks = 1 /\ ~Astray
    <3>1. format.blocks = 1
      BY <2>1 DEF WriteOver
    <3>2. ~Astray
      BY <1>1, <3>1, FormatSizes DEF Astray, Misplaced
    <3> QED  BY <2>1, <3>1, <3>2 DEF WriteOver, OnTrack
  <2> SUFFICES ASSUME NEW t \in Tracks, NEW s \in OfSide(format),
                      NEW p \in Positions(format)
               PROVE  image[t][s][p] =
                        IF t = op.track /\ s = op.side
                           /\ p \div SectorSize = op.sector
                        THEN moved[(p % SectorSize) + 1] ELSE before[t][s][p]
    BY <2>2
  <2>3. CASE t # trackc
    BY <2>1, <2>2, <2>3 DEF WriteOver
  <2>4. CASE t = trackc
    <3>1. image[t][s][p] = IF s = op.side /\ At(0) <= p /\ p < At(SectorSize)
                           THEN moved[p - At(0) + 1] ELSE before[t][s][p]
      <4>1. buffer[s] = image[t][s]
        BY <2>1, <2>2, <2>4 DEF WriteOver, SameTrack
      <4>2. buffer[s][p] = IF s = op.side /\ At(0) <= p /\ p < At(SectorSize)
                           THEN moved[p - At(0) + 1]
                           ELSE IF Astray THEN buffer[s][p]
                           ELSE before[trackc][s][p]
        BY <2>1, Zenon DEF WriteOver, WrittenSoFar
      <4> QED  BY <2>2, <2>4, <4>1, <4>2, Zenon
    <3> DEFINE base == op.sector * SectorSize
               d == p \div SectorSize
               r == p % SectorSize
               first == At(0)
               after == At(SectorSize)
    <3>2. base \in Nat
      <4>1. 0 \in 0..(SectorSize - 1)
        BY <1>1
      <4> QED  BY <1>1, <2>2, <4>1, InTrack
    <3>3. p \in Nat
      BY <1>1
    <3>4. /\ d = op.sector <=> base <= p /\ p < base + SectorSize
          /\ d = op.sector => r = p - base
      BY <1>1, <2>2, <3>3, SectorOf
    <3>5. first = base + 0 /\ after = base + SectorSize
      BY DEF At
    <3>6. image[t][s][p] = IF s = op.side /\ first <= p /\ p < after
                           THEN moved[p - first + 1] ELSE before[t][s][p]
      BY <3>1
    <3> HIDE DEF base, d, r, first, after
    <3>7. image[t][s][p] = IF s = op.side /\ d = op.sector
                           THEN moved[r + 1] ELSE before[t][s][p]
      BY <3>2, <3>3, <3>4, <3>5, <3>6
    <3> QED  BY <2>2, <2>4, <3>7 DEF d, r
  <2> QED  BY <2>3, <2>4
<1>4. ASSUME Finished("format")
      PROVE  FormatInStep
  <2>1. FormatOver
    BY <1>4 DEF AdfInv, Phase, Finished, Idle, Moving, Missing, Reading, Writing,
                ReadOver, WriteOver, Addressing, AddressOver, Formatting, Runs
  <2> SUFFICES ASSUME NEW t \in Tracks, NEW s \in OfSide(format),
                      NEW p \in Positions(format)
               PROVE  image[t][s][p] =
                        IF t # Stepped(op.track) THEN before[t][s][p]
                        ELSE IF s = op.side THEN 0
                        ELSE IF Misplaced(before) THEN buffer[s][p]
                        ELSE before[op.track][s][p]
    BY DEF FormatInStep
  <2>2. CASE t # Stepped(trackc)
    BY <2>1, <2>2 DEF FormatOver
  <2>3. CASE t = Stepped(trackc)
    BY <2>1, <2>3 DEF FormatOver
  <2> QED  BY <2>2, <2>3
<1>5. ReadInStep /\ WriteInStep
  BY <1>2, <1>3 DEF ReadInStep, WriteInStep
<1>6. FormatInStep
  BY <1>4 DEF FormatInStep
<1> QED  BY <1>5, <1>6 DEF AdfInStep

(* A read that ends has moved the bytes of its sector in order; a write     *)
(* that ends, of a sector of one block, has put the CPU's there and changed *)
(* nothing else on the disc; a format has blanked its side of its track     *)
(* only, or of the track half as far in on a double stepped disc, whose     *)
(* reads are not spoken of from then on.  For every format and size, of     *)
(* sectors the track has.  (adf_poll, adf_writeback)                        *)
THEOREM AdfTransfersInStep == AdfSpec => []AdfInStep
<1> QED  BY OverInStep, AdfInvHolds, PTL

=============================================================================
