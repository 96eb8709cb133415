--------------------------- MODULE SsdDiscProofs ---------------------------
(***************************************************************************)
(* Proofs about SsdDisc for every value of its constants: the types, what  *)
(* the status register of the controller tells the CPU, that protected     *)
(* discs keep their bytes; and, for a driver that waits for its commands,  *)
(* that bytes go where they belong: none to another track, none skipped or *)
(* doubled, none outside the track buffer.                                 *)
(*                                                                         *)
(* Each operator of the controller is shown to keep a record Sound and     *)
(* each stage of a poll to keep a poll state typed and Sound, so the whole *)
(* poll does; the actions then follow one by one.  For the driver that     *)
(* waits, Orderly says which operation runs for which command, the lemmas  *)
(* Poll... say what one poll of it may leave, and OwnTracks and Steps are  *)
(* the invariants of what the bytes are.                                   *)
(***************************************************************************)
EXTENDS SsdDisc, Wd1770Proofs

USE RegisterAssumption, DiscAssumption

-----------------------------------------------------------------------------
(* ssd_poll: what the stages of a poll pass on to each other.  *)
PollState ==
  [ w : Good, op : Operation, buffer : [Drives -> [Positions -> Bytes]],
    image : [Discs -> Files], returned : BOOLEAN ]

(* Stopping a stage keeps the operation's type. *)
LEMMA StopType ==
  \A o \in Operation : /\ [o EXCEPT !.write = FALSE] \in Operation
                       /\ [o EXCEPT !.format = FALSE] \in Operation
<1> TAKE o \in Operation
<1>1. [o EXCEPT !.write = FALSE] \in Operation
  BY Zenon DEF Operation
<1>2. [o EXCEPT !.format = FALSE] \in Operation
  BY Zenon DEF Operation
<1> QED  BY <1>1, <1>2

(* The countdown to "not found" stays in its range. *)
LEMMA CountdownType ==
  ASSUME NEW o \in Operation, o.notfound # 0
  PROVE  [o EXCEPT !.notfound = @ - 1] \in Operation
<1> DEFINE n == o.notfound - 1
<1>1. n \in 0..NotFoundPolls
  BY SMT DEF Operation
<1> HIDE DEF n
<1>2. [o EXCEPT !.notfound = n] \in Operation
  BY <1>1, Zenon DEF Operation
<1> QED  BY <1>2 DEF n

(* A position of a track buffer gets a byte. *)
LEMMA BufferType ==
  ASSUME NEW f \in [Drives -> [Positions -> Bytes]], NEW d \in Drives,
         NEW p, NEW b \in Bytes
  PROVE  [f EXCEPT ![d][p] = b] \in [Drives -> [Positions -> Bytes]]
<1>1. [f[d] EXCEPT ![p] = b] \in [Positions -> Bytes]
  OBVIOUS
<1> QED  BY <1>1

(* What a seek reads of a track fills a buffer.  (ssd_seek)                 *)
LEMMA ReadType ==
  ASSUME NEW file \in Files, NEW t \in Tracks,
         NEW before \in [Positions -> Bytes]
  PROVE  Read(file, t, before) \in [Positions -> Bytes]
<1>1. file[t] \in [Positions -> Bytes \cup {EndOfFile}]
  BY DEF Files
<1> DEFINE row == file[t]
<1> HIDE DEF row
<1>2. ASSUME NEW p \in Positions, row \in [Positions -> Bytes \cup {EndOfFile}]
      PROVE  (IF row[p] = EndOfFile THEN before[p] ELSE row[p]) \in Bytes
  <2>1. row[p] \in Bytes \cup {EndOfFile} /\ before[p] \in Bytes
    BY <1>2
  <2> QED  BY <2>1
<1> QED  BY <1>1, <1>2 DEF Read, row

(* What is written back, with the gap before it, is an image.               *)
LEMMA WrittenType ==
  ASSUME NEW file \in Files, NEW track, NEW bytes \in [Positions -> Bytes]
  PROVE  Written(file, track, bytes) \in Files
<1> DEFINE zeros == [p \in Positions |-> 0]
           row(t) == IF t = track THEN bytes
                     ELSE IF t < track THEN Read(file, t, zeros) ELSE file[t]
<1>1. zeros \in [Positions -> Bytes]
  OBVIOUS
<1>2. ASSUME NEW b \in [Positions -> Bytes]
      PROVE  b \in [Positions -> Bytes \cup {EndOfFile}]
  OBVIOUS
<1>3. ASSUME NEW t \in Tracks
      PROVE  row(t) \in [Positions -> Bytes \cup {EndOfFile}]
  <2>1. Read(file, t, zeros) \in [Positions -> Bytes]
    BY <1>1, ReadType
  <2>2. file[t] \in [Positions -> Bytes \cup {EndOfFile}]
    BY DEF Files
  <2> HIDE DEF zeros
  <2> QED  BY <1>2, <2>1, <2>2, Zenon
<1>4. Written(file, track, bytes) = [t \in Tracks |-> row(t)]
  BY Zenon DEF Written
<1>5. [t \in Tracks |-> row(t)] \in Files
  <2> HIDE DEF row
  <2> QED  BY <1>3, SMT DEF Files
<1> QED  BY <1>4, <1>5

(* An image is replaced. *)
LEMMA ImageType ==
  ASSUME NEW f \in [Discs -> Files], NEW d, NEW file \in Files
  PROVE  [f EXCEPT ![d] = file] \in [Discs -> Files]
  BY Zenon

(* The first stage: the countdown to "not found" *)
LEMMA NotFoundStageType ==
  ASSUME NEW s \in PollState
  PROVE  NotFoundStage(s) \in PollState
<1> DEFINE o == [s.op EXCEPT !.notfound = @ - 1]
           wd == IF s.op.notfound = 1 THEN FdcNotFound(s.w) ELSE s.w
<1>1. s.w \in Good /\ s.op \in Operation
  BY DEF PollState
<1>2. CASE s.op.notfound = 0
  BY <1>2 DEF NotFoundStage
<1>3. CASE s.op.notfound # 0
  <2>1. o \in Operation /\ wd \in Good
    BY <1>1, <1>3, CountdownType, DriveEndsGood
  <2>2. NotFoundStage(s) = [s EXCEPT !.w = wd, !.op = o]
    BY <1>3, Zenon DEF NotFoundStage
  <2> HIDE DEF o, wd
  <2>3. [s EXCEPT !.w = wd, !.op = o] \in PollState
    BY <2>1, Zenon DEF PollState
  <2> QED  BY <2>2, <2>3
<1> QED  BY <1>2, <1>3

(* Here(s) is in the track buffer while a sector is read: WithinBuffer.     *)
LEMMA ReadStageType ==
  ASSUME NEW s \in PollState, s.op.read => Here(s) \in Positions
  PROVE  ReadStage(s) \in PollState
<1>1. s.w \in Good /\ s.op \in Operation /\ s.op.drive \in Drives
  BY DEF PollState, Operation
<1>2. CASE ~s.op.read \/ ~Present(s)
  BY <1>2 DEF ReadStage
<1>3. CASE s.op.read /\ Present(s)
  <2> DEFINE b == s.buffer[s.op.drive][Here(s)]
             f == ~SectorDone(s)
             p == s.op.pos + 1
             o == [s.op EXCEPT !.read = f, !.pos = p]
             sent == FdcData(s.w, b)
             wd == IF SectorDone(s) THEN FdcFinishRead(sent) ELSE sent
  <2>1. b \in Bytes /\ p \in Nat /\ f \in BOOLEAN
    BY <1>1, <1>3 DEF PollState, Operation
  <2>2. ReadStage(s) = [s EXCEPT !.w = wd, !.op = o]
    BY <1>3, Zenon DEF ReadStage
  <2> HIDE DEF b, f, p
  <2>3. o \in Operation
    BY <1>1, <2>1, Zenon DEF Operation
  <2>4. sent \in Good
    BY <1>1, <2>1, DriveCallsGood
  <2> HIDE DEF sent
  <2>5. wd \in Good
    BY <2>4, DriveEndsGood
  <2> HIDE DEF o, wd
  <2>6. [s EXCEPT !.w = wd, !.op = o] \in PollState
    BY <2>3, <2>5, Zenon DEF PollState
  <2> QED  BY <2>2, <2>6
<1> QED  BY <1>2, <1>3

(* The pieces the writing stages are made of *)
LEMMA PiecesType ==
  ASSUME NEW s \in PollState
  PROVE  /\ \A b \in Bytes : Store(s, b) \in PollState
         /\ StopWrite(s) \in PollState
         /\ StopFormat(s) \in PollState
         /\ Finish(s) \in PollState
         /\ Refused(s) \in PollState
         /\ NextSector(s) \in PollState
         /\ [s EXCEPT !.returned = TRUE] \in PollState
         /\ \A f \in BOOLEAN : [s EXCEPT !.w = FdcGetData(s.w, f)] \in PollState
<1>1. /\ s.w \in Good /\ s.op \in Operation /\ s.op.drive \in Drives
      /\ s.op.pos \in Nat /\ s.op.sector \in Nat
      /\ s.buffer \in [Drives -> [Positions -> Bytes]]
  BY DEF PollState, Operation
<1>2. ASSUME NEW b \in Bytes  PROVE Store(s, b) \in PollState
  <2> DEFINE f == [s.buffer EXCEPT ![s.op.drive][Here(s)] = b]
             o == [s.op EXCEPT !.pos = s.op.pos + 1]
  <2>1. f \in [Drives -> [Positions -> Bytes]]
    BY <1>1, BufferType
  <2>2. o \in Operation
    <3> DEFINE p == s.op.pos + 1
    <3>1. p \in Nat
      BY <1>1
    <3> HIDE DEF p
    <3>2. [s.op EXCEPT !.pos = p] \in Operation
      BY <1>1, <3>1, Zenon DEF Operation
    <3> QED  BY <3>2 DEF p
  <2>3. Store(s, b) = [s EXCEPT !.buffer = f, !.op = o]
    BY Zenon DEF Store
  <2> HIDE DEF f, o
  <2>4. [s EXCEPT !.buffer = f, !.op = o] \in PollState
    BY <2>1, <2>2, Zenon DEF PollState
  <2> QED  BY <2>3, <2>4
<1>3. StopWrite(s) \in PollState /\ StopFormat(s) \in PollState
  <2>1. /\ [s.op EXCEPT !.write = FALSE] \in Operation
        /\ [s.op EXCEPT !.format = FALSE] \in Operation
    BY <1>1, StopType, Zenon
  <2>2. \A o \in Operation : [s EXCEPT !.op = o] \in PollState
    BY Zenon DEF PollState
  <2> QED  BY <2>1, <2>2, Zenon DEF StopWrite, StopFormat
<1>4. \A wd \in Good : [s EXCEPT !.w = wd] \in PollState
  BY Zenon DEF PollState
<1>5. Finish(s) \in PollState
  BY <1>1, <1>4, DriveEndsGood, Zenon DEF Finish
<1>6. Refused(s) \in PollState
  <2>1. \A wd \in Good : [s EXCEPT !.w = wd, !.returned = TRUE] \in PollState
    BY Zenon DEF PollState
  <2> QED  BY <1>1, <2>1, DriveEndsGood, Zenon DEF Refused
<1>7. NextSector(s) \in PollState
  <2> DEFINE k == s.op.sector + 1
             o == [s.op EXCEPT !.pos = 0, !.sector = k]
  <2>1. k \in Nat
    BY <1>1
  <2> HIDE DEF k
  <2>2. o \in Operation
    BY <1>1, <2>1, Zenon DEF Operation
  <2>3. NextSector(s) = [s EXCEPT !.op = o]
    BY Zenon DEF NextSector, k
  <2> HIDE DEF o
  <2>4. [s EXCEPT !.op = o] \in PollState
    BY <2>2, Zenon DEF PollState
  <2> QED  BY <2>3, <2>4
<1>8. [s EXCEPT !.returned = TRUE] \in PollState
  BY Zenon DEF PollState
<1>9. ASSUME NEW f \in BOOLEAN
      PROVE  [s EXCEPT !.w = FdcGetData(s.w, f)] \in PollState
  <2>1. FdcGetData(s.w, f) \in Good
    BY <1>1, DriveCallsGood
  <2> QED  BY <1>4, <2>1, Zenon
<1> QED  BY <1>2, <1>3, <1>5, <1>6, <1>7, <1>8, <1>9

(* ssd_writeback *)
LEMMA WriteBackType ==
  ASSUME NEW s \in PollState
  PROVE  WriteBack(s) \in PollState
<1> DEFINE d == mounted[s.op.drive]
           file == Written(s.image[d], s.op.track, s.buffer[s.op.drive])
           i == [s.image EXCEPT ![d] = file]
<1>1. /\ s.image \in [Discs -> Files]
      /\ s.buffer[s.op.drive] \in [Positions -> Bytes]
  BY DEF PollState, Operation
<1>2. i \in [Discs -> Files]
  <2>1. CASE d \in Discs
    <3>1. s.image[d] \in Files
      BY <1>1, <2>1
    <3>2. file \in Files
      BY <1>1, <3>1, WrittenType
    <3> QED  BY <1>1, <3>2, ImageType
  <2>2. CASE d \notin Discs
    <3> HIDE DEF file, d
    <3>1. i = s.image
      BY <1>1, <2>2
    <3> QED  BY <1>1, <3>1
  <2> QED  BY <2>1, <2>2
<1>3. WriteBack(s) = [s EXCEPT !.image = i]
  BY Zenon DEF WriteBack
<1> HIDE DEF i
<1>4. [s EXCEPT !.image = i] \in PollState
  BY <1>2, Zenon DEF PollState
<1> QED  BY <1>3, <1>4

(* The third stage: a sector is written *)
LEMMA WriteStageType ==
  ASSUME NEW s \in PollState
  PROVE  WriteStage(s) \in PollState
<1> DEFINE got == [s EXCEPT !.w = FdcGetData(@, SectorDone(s))]
           stored == Store(got, DataFor(s.w))
<1>1. CASE ~s.op.write \/ ~Present(s)
  BY <1>1 DEF WriteStage
<1>2. CASE s.op.write /\ Present(s) /\ Protected(s)
  BY <1>2, PiecesType, Zenon DEF WriteStage
<1>3. CASE s.op.write /\ Present(s) /\ ~Protected(s) /\ DataFor(s.w) = NoByte
  BY <1>3, PiecesType, Zenon DEF WriteStage
<1>4. CASE s.op.write /\ Present(s) /\ ~Protected(s) /\ DataFor(s.w) # NoByte
  <2>1. DataFor(s.w) \in Bytes
    BY <1>4 DEF DataFor, PollState, Good, Controller
  <2>2. got \in PollState
    <3>1. SectorDone(s) \in BOOLEAN
      BY DEF SectorDone
    <3> QED  BY <3>1, PiecesType, Zenon
  <2> HIDE DEF got
  <2>3. stored \in PollState
    BY <2>1, <2>2, PiecesType, Zenon
  <2>4. WriteStage(s) = IF SectorDone(s)
                        THEN WriteBack(Finish(StopWrite(stored))) ELSE stored
    BY <1>4, Zenon DEF WriteStage, got
  <2> HIDE DEF stored
  <2>5. WriteBack(Finish(StopWrite(stored))) \in PollState
    BY <2>3, PiecesType, WriteBackType, Zenon
  <2> QED  BY <2>3, <2>4, <2>5
<1> QED  BY <1>1, <1>2, <1>3, <1>4

(* The fourth stage: an address is read *)
LEMMA AddressStageType ==
  ASSUME NEW s \in PollState
  PROVE  AddressStage(s) \in PollState
<1>1. s.w \in Good /\ s.op \in Operation /\ s.op.pos \in Nat
  BY DEF PollState, Operation
<1>2. CASE ~s.op.address \/ ~Present(s) \/ s.returned
  BY <1>2 DEF AddressStage
<1>3. CASE s.op.address /\ Present(s) /\ ~s.returned
  <2> DEFINE f == s.op.pos # AddressBytes
             p == s.op.pos + 1
             o == [s.op EXCEPT !.address = f, !.pos = p]
             wd == IF s.op.pos < AddressBytes
                   THEN FdcData(s.w, AddressByte(s.op))
                   ELSE IF s.op.pos = AddressBytes THEN FdcFinishRead(s.w)
                   ELSE s.w
  <2>1. AddressStage(s) = [s EXCEPT !.w = wd, !.op = o]
    BY <1>3, Zenon DEF AddressStage
  <2>2. AddressByte(s.op) \in Bytes
    BY <1>1 DEF AddressByte, Operation
  <2>3. FdcData(s.w, AddressByte(s.op)) \in Good
    BY <1>1, <2>2, DriveCallsGood
  <2>4. wd \in Good
    BY <1>1, <2>3, DriveEndsGood
  <2>5. p \in Nat /\ f \in BOOLEAN
    BY <1>1
  <2> HIDE DEF p, f
  <2>6. o \in Operation
    BY <1>1, <2>5, Zenon DEF Operation
  <2> HIDE DEF o, wd
  <2>7. [s EXCEPT !.w = wd, !.op = o] \in PollState
    BY <2>4, <2>6, Zenon DEF PollState
  <2> QED  BY <2>1, <2>7
<1> QED  BY <1>2, <1>3

(* The last stage: a track is formatted *)
LEMMA FormatStageType ==
  ASSUME NEW s \in PollState
  PROVE  FormatStage(s) \in PollState
<1> DEFINE stored == Store(s, 0)
           next == NextSector(stored)
<1>1. 0 \in Bytes
  OBVIOUS
<1>2. stored \in PollState /\ next \in PollState
  BY <1>1, PiecesType, Zenon
<1>3. FormatStage(s) \in {s, StopFormat(Refused(s)), stored, next,
                          WriteBack(Finish(StopFormat(next)))}
  BY Zenon DEF FormatStage
<1> HIDE DEF next
<1>4. WriteBack(Finish(StopFormat(next))) \in PollState
  BY <1>2, PiecesType, WriteBackType, Zenon
<1>5. StopFormat(Refused(s)) \in PollState
  BY PiecesType, Zenon
<1> QED  BY <1>2, <1>3, <1>4, <1>5

(* A whole poll.  Reading needs the position to be in the buffer. *)
LEMMA SsdPollType ==
  ASSUME NEW s \in PollState, s.op.read => Here(s) \in Positions
  PROVE  SsdPoll(s) \in PollState
<1>1. NotFoundStage(s) \in PollState
  BY NotFoundStageType
<1>2. NotFoundStage(s).op.read => Here(NotFoundStage(s)) \in Positions
  BY DEF NotFoundStage, Here, PollState, Operation
<1>3. ReadStage(NotFoundStage(s)) \in PollState
  BY <1>1, <1>2, ReadStageType
<1> QED  BY <1>3, WriteStageType, AddressStageType, FormatStageType, Zenon
         DEF SsdPoll

-----------------------------------------------------------------------------
(* The invariant: the types, and a sound controller *)
Inv == TypeOK /\ Sound(w)

(* The invariant holds when the emulator starts.  (reset1770, ssd_reset)    *)
LEMMA InitInv == Init => Inv
<1> SUFFICES ASSUME Init PROVE Inv
  OBVIOUS
<1>1. w \in Controller /\ Sound(w)
  BY FreshGood DEF Init, Good
<1>2. op \in Operation
  BY SMT DEF Init, NoOperation, Operation, Tracks
<1>3. image \in [Discs -> Files] /\ 0 \in Tracks
  BY DEF Init, Tracks
<1>4. /\ buffer \in [Drives -> [Positions -> Bytes]]
      /\ handler \in [Drives -> BOOLEAN] /\ trackc \in [Drives -> Tracks]
      /\ mounted \in [Drives -> Discs \cup {NoDisc}]
      /\ oldtrack \in [Drives -> Nat] /\ writeprot \in [Drives -> BOOLEAN]
  BY <1>3 DEF Init
<1>5. moved \in Seq(Bytes)
  BY DEF Init
<1> QED  BY <1>1, <1>2, <1>3, <1>4, <1>5 DEF Init, Inv, TypeOK

(* disc_seek, called with the controller a command has set going *)
LEMMA DiscSeekInv ==
  ASSUME Inv, NEW d \in Drives, NEW t \in Tracks, NEW wd \in Good,
         DiscSeek(d, t, wd)
  PROVE  /\ w' \in Good /\ trackc' \in [Drives -> Tracks]
         /\ buffer' \in [Drives -> [Positions -> Bytes]]
         /\ sstat' \in {-1, 0, 1} /\ oldtrack' \in [Drives -> Nat]
<1>1. w' \in Good
  BY TimerGood DEF DiscSeek, SeekTime
<1>2. Sought(d, t) \in [Drives -> [Positions -> Bytes]]
  <2>1. /\ buffer \in [Drives -> [Positions -> Bytes]]
        /\ image \in [Discs -> Files]
        /\ mounted \in [Drives -> Discs \cup {NoDisc}]
    BY DEF Inv, TypeOK
  <2>2. CASE mounted[d] # NoDisc
    <3> DEFINE disc == mounted[d]
               row == Read(image[disc], t, buffer[d])
    <3>1. disc \in Discs
      BY <2>1, <2>2, Zenon
    <3>2. row \in [Positions -> Bytes]
      BY <2>1, <3>1, ReadType
    <3>3. Sought(d, t) = [buffer EXCEPT ![d] = row]
      BY <2>2, Zenon DEF Sought
    <3> HIDE DEF row
    <3> QED  BY <2>1, <3>2, <3>3
  <2>3. CASE mounted[d] = NoDisc
    BY <2>1, <2>3 DEF Sought
  <2> QED  BY <2>2, <2>3
<1>3. buffer' \in [Drives -> [Positions -> Bytes]]
  BY <1>2 DEF DiscSeek, Inv, TypeOK
<1>4. trackc' \in [Drives -> Tracks] /\ oldtrack' \in [Drives -> Nat]
  BY DEF DiscSeek, Inv, TypeOK, Tracks
<1>5. sstat' \in {-1, 0, 1}
  BY DEF DiscSeek, SampleFor
<1> QED  BY <1>1, <1>3, <1>4, <1>5

(* A head movement within the model's tracks: the head's place is a byte.   *)
LEMMA SeekInBound ==
  ASSUME Inv, NEW cmd \in SeekCommands, SeekCommand(cmd)
  PROVE  SeekTarget(w, cmd) \in Tracks /\ StepHead(w, cmd).curtrack \in Bytes
<1>1. w \in Controller
  BY DEF Inv, TypeOK
<1>2. SeekTarget(w, cmd) \in Tracks
  BY DEF SeekCommand, InBound
<1>3. CASE cmd \in {"restore", "seek"}
  <2>1. StepHead(w, cmd) = w
    BY <1>3 DEF StepHead
  <2> QED  BY <1>1, <1>2, <2>1 DEF Controller
<1>4. CASE cmd \notin {"restore", "seek"}
  BY <1>2, <1>4 DEF SeekTarget
<1> QED  BY <1>2, <1>3, <1>4

(* Head movement commands keep it.  (write1770, disc_seek)                  *)
LEMMA SeekInv ==
  ASSUME Inv, NEW cmd \in SeekCommands, SeekCommand(cmd)
  PROVE  Inv'
<1>1. w \in Controller /\ curdrive \in Drives
  BY DEF Inv, TypeOK
<1>2. StepHead(w, cmd).curtrack \in Bytes
  BY SeekInBound
<1>3. StartSeek(w, cmd) \in Good
  BY <1>1, <1>2, StartSeekGood
<1>4. SeekTarget(w, cmd) \in Tracks
  BY SeekInBound
<1>5. DiscSeek(curdrive, SeekTarget(w, cmd), StartSeek(w, cmd))
  BY DEF SeekCommand
<1>6. /\ w' \in Good /\ trackc' \in [Drives -> Tracks]
      /\ buffer' \in [Drives -> [Positions -> Bytes]]
      /\ sstat' \in {-1, 0, 1} /\ oldtrack' \in [Drives -> Nat]
  BY <1>1, <1>3, <1>4, <1>5, DiscSeekInv
<1> QED  BY <1>6 DEF Inv, TypeOK, SeekCommand, MediaUnchanged,
                     SelectionUnchanged, Good

(* ssd_readsector and its like leave an operation of the right type. *)
LEMMA RequestedType ==
  ASSUME Inv, NEW cmd \in TransferCommands, w.track \in Tracks
  PROVE  Requested(cmd) \in Operation
<1>1. /\ op \in Operation /\ curdrive \in Drives /\ w.track \in Tracks
      /\ w.sector \in Nat
  <2>1. w \in Controller /\ op \in Operation /\ curdrive \in Drives
    BY DEF Inv, TypeOK
  <2>2. w.sector \in Bytes
    BY <2>1 DEF Controller
  <2>3. \A b \in Bytes : b \in Nat
    OBVIOUS
  <2> QED  BY <2>1, <2>2, <2>3
<1> DEFINE s == w.sector
           t == w.track
           at == [op EXCEPT !.track = t, !.drive = curdrive]
<1> HIDE DEF s, t
<1>2. at \in Operation /\ [at EXCEPT !.sector = s] \in Operation
  <2>1. at \in Operation
    BY <1>1, Zenon DEF Operation, t
  <2> HIDE DEF at
  <2>2. [at EXCEPT !.sector = s] \in Operation
    BY <1>1, <2>1, Zenon DEF Operation, s
  <2> QED  BY <2>1, <2>2
<1>3. Addressed(cmd) \in Operation
  BY <1>2, Zenon DEF Addressed, s, t
<1>4. \A o \in Operation : Begin(o, cmd) \in Operation
  <2> TAKE o \in Operation
  <2>1. 0 \in Nat /\ TRUE \in BOOLEAN
    OBVIOUS
  <2>2. [o EXCEPT !.read = TRUE, !.pos = 0] \in Operation
    BY <2>1, ZenonT(30) DEF Operation
  <2>3. [o EXCEPT !.write = TRUE, !.pos = 0] \in Operation
    BY <2>1, ZenonT(30) DEF Operation
  <2>4. [o EXCEPT !.address = TRUE, !.pos = 0] \in Operation
    BY <2>1, ZenonT(30) DEF Operation
  <2>5. [o EXCEPT !.format = TRUE, !.pos = 0, !.sector = 0] \in Operation
    BY <2>1, ZenonT(30) DEF Operation
  <2> QED  BY <2>2, <2>3, <2>4, <2>5 DEF Begin, TransferCommands
<1>5. \A o \in Operation : [o EXCEPT !.notfound = NotFoundPolls] \in Operation
  <2>1. NotFoundPolls \in 0..NotFoundPolls
    OBVIOUS
  <2> QED  BY <2>1, Zenon DEF Operation
<1> QED  BY <1>3, <1>4, <1>5, Zenon DEF Requested

(* So do the commands that transfer data.  (write1770, disc_readsector)     *)
LEMMA TransferInv ==
  ASSUME Inv, NEW cmd \in TransferCommands, TransferCommand(cmd)
  PROVE  Inv'
<1>1. w' \in Good
  BY StartTransferGood DEF Inv, TypeOK, TransferCommand
<1>4. w.track \in Tracks
  <2>1. cmd \notin SeekCommands
    BY DEF SeekCommands, TransferCommands
  <2> QED  BY <2>1 DEF TransferCommand, InBound
<1>2. op' \in Operation /\ noHandler' \in 0..NotFoundPolls
  BY <1>4, RequestedType DEF Inv, TypeOK, TransferCommand
<1>3. moved' \in Seq(Bytes)
  BY DEF TransferCommand
<1> QED  BY <1>1, <1>2, <1>3 DEF Inv, TypeOK, TransferCommand,
             MediaUnchanged, SelectionUnchanged, Good

(* So does Force Interrupt, which stops the motor at once.  (write1770)     *)
LEMMA ForceInv == ASSUME Inv, ForceCommand PROVE Inv'
<1>1. w' \in Good
  BY ForceGood DEF Inv, TypeOK, ForceCommand
<1> QED  BY <1>1 DEF Inv, TypeOK, ForceCommand, MediaUnchanged,
             SelectionUnchanged, Good

(* So does the drive select latch, which only changes the selection.        *)
LEMMA WriteControlInv == ASSUME Inv, WriteControl PROVE Inv'
  BY DEF Inv, TypeOK, WriteControl, RestUnchanged, MediaUnchanged

(* So do writes of the track register.  (write1770)                         *)
LEMMA WriteTrackInv == ASSUME Inv, WriteTrack PROVE Inv'
<1> PICK t \in Tracks : w' = [w EXCEPT !.track = t]
  BY DEF WriteTrack
<1>1. w \in Controller /\ t \in Bytes
  BY DEF Inv, TypeOK
<1>2. w' \in Controller
  BY <1>1, Zenon DEF Controller
<1>3. Sound(w)'
  BY <1>1, SMT DEF Inv, Sound, Busy, Requesting, Controller
<1> QED  BY <1>2, <1>3 DEF Inv, TypeOK, WriteTrack, RestUnchanged,
             MediaUnchanged, SelectionUnchanged

(* So do writes of the sector register.  (write1770)                        *)
LEMMA WriteSectorInv == ASSUME Inv, WriteSector PROVE Inv'
<1> PICK s \in SectorNumbers : w' = [w EXCEPT !.sector = s]
  BY DEF WriteSector
<1>1. w \in Controller /\ s \in Bytes
  BY DEF Inv, TypeOK
<1>2. w' \in Controller
  BY <1>1, Zenon DEF Controller
<1>3. Sound(w)'
  BY <1>1, SMT DEF Inv, Sound, Busy, Requesting, Controller
<1> QED  BY <1>2, <1>3 DEF Inv, TypeOK, WriteSector, RestUnchanged,
             MediaUnchanged, SelectionUnchanged

(* The history of moved bytes stays a sequence of bytes.                    *)
LEMMA RememberType ==
  ASSUME moved \in Seq(Bytes), NEW b \in Bytes, Remember(b)
  PROVE  moved' \in Seq(Bytes)
  BY DEF Remember

(* Writes of the data register only clear the request.  (write1770)         *)
LEMMA WriteDataInv == ASSUME Inv, WriteData PROVE Inv'
<1> PICK b \in CpuBytes :
      /\ w' = WriteDataRegister(w, b)
      /\ IF Busy(w) THEN Remember(b) ELSE UNCHANGED moved
  BY DEF WriteData
<1>1. w \in Good /\ b \in Bytes /\ moved \in Seq(Bytes)
  BY DEF Inv, TypeOK, Good
<1>2. w' \in Good
  BY <1>1, DataGood DEF WriteDataRegister
<1>3. moved' \in Seq(Bytes)
  BY <1>1, RememberType
<1> QED  BY <1>2, <1>3 DEF Inv, TypeOK, WriteData, RestUnchanged,
             MediaUnchanged, SelectionUnchanged, Good

(* So do reads of it.  (read1770)                                           *)
LEMMA ReadDataInv == ASSUME Inv, ReadData PROVE Inv'
<1>1. w \in Good /\ w.data \in Bytes /\ moved \in Seq(Bytes)
  <2>1. w \in Controller
    BY DEF Inv, TypeOK
  <2> QED  BY <2>1 DEF Inv, TypeOK, Good, Controller
<1>2. w' \in Good
  BY <1>1, ReadRegisterGood DEF ReadData
<1>3. moved' \in Seq(Bytes)
  BY <1>1, RememberType DEF ReadData
<1> QED  BY <1>2, <1>3 DEF Inv, TypeOK, ReadData, RestUnchanged,
             MediaUnchanged, SelectionUnchanged, Good

(* WithinBuffer puts the byte a poll reads in the track buffer. *)
LEMMA ReadsWithinBuffer ==
  ASSUME Inv, DiscPoll
  PROVE  op.read => op.sector * SectorSize + op.pos \in Positions
<1>1. /\ op.read \in BOOLEAN /\ op.write \in BOOLEAN
      /\ op.address \in BOOLEAN /\ op.format \in BOOLEAN
      /\ op.pos \in Nat /\ op.sector \in Nat
  BY DEF Inv, TypeOK, Operation
<1> DEFINE at == op.sector * SectorSize + op.pos
           last == (MaxSector + 1) * SectorSize - 1
<1>2. at \in Nat /\ last \in Int
  BY <1>1
<1>3. op.read => Active \in Nat \ {0} /\ ~(Active = 1 /\ op.address)
  BY <1>1 DEF Active, One
<1>4. op.read => at + Active - 1 \in 0..last
  BY <1>3 DEF DiscPoll, WithinBuffer, Positions
<1> HIDE DEF at, last
<1>5. op.read => at \in 0..last
  BY <1>2, <1>3, <1>4
<1> QED  BY <1>5 DEF Positions, at, last

(* disc_poll keeps the invariant. *)
LEMMA DiscPollInv == ASSUME Inv, DiscPoll PROVE Inv'
<1> DEFINE now == [w |-> w, op |-> op, buffer |-> buffer, image |-> image,
                   returned |-> FALSE]
           polled == IF handler[curdrive] THEN SsdPoll(now) ELSE now
           result == IF noHandler = 1
                     THEN [polled EXCEPT !.w = FdcNotFound(polled.w)]
                     ELSE polled
<1>1. now \in PollState
  BY DEF Inv, TypeOK, PollState, Good
<1>2. op.read => Here(now) \in Positions
  BY ReadsWithinBuffer DEF Here
<1>3. now.op.read => Here(now) \in Positions
  BY <1>2
<1> HIDE DEF now
<1>4. polled \in PollState
  BY <1>1, <1>3, SsdPollType
<1>5. DiscPollResult = result
  BY Zenon DEF DiscPollResult, now
<1> HIDE DEF polled
<1>6. result \in PollState
  <2>1. FdcNotFound(polled.w) \in Good
    BY <1>4, DriveEndsGood DEF PollState
  <2>2. [polled EXCEPT !.w = FdcNotFound(polled.w)] \in PollState
    BY <1>4, <2>1, Zenon DEF PollState
  <2> QED  BY <1>4, <2>2
<1> HIDE DEF result
<1>7. /\ w' \in Good /\ op' \in Operation
      /\ buffer' \in [Drives -> [Positions -> Bytes]]
      /\ image' \in [Discs -> Files]
  BY <1>5, <1>6 DEF DiscPoll, PollState
<1>8. noHandler' \in 0..NotFoundPolls
  <2>1. noHandler \in 0..NotFoundPolls
    BY DEF Inv, TypeOK
  <2> QED  BY <2>1 DEF DiscPoll
<1> QED  BY <1>7, <1>8 DEF Inv, TypeOK, DiscPoll, SelectionUnchanged, Good

(* The callback ends the command and starts the spin-down. (callback1770)   *)
LEMMA FdcTimerInv == ASSUME Inv, FdcTimer PROVE Inv'
<1>1. w' \in Good
  BY CallbackGood DEF FdcTimer, Inv, TypeOK, Good
<1> QED  BY <1>1 DEF Inv, TypeOK, FdcTimer, RestUnchanged,
             MediaUnchanged, SelectionUnchanged, Good

(* The countdown that runs out is one no command was busy under. *)
LEMMA SpinTimerInv == ASSUME Inv, SpinTimer PROVE Inv'
<1> DEFINE down == SpinDown(w)
<1>1. w \in Controller /\ ~Busy(w) /\ ~Requesting(w)
  BY DEF Inv, TypeOK, Sound, SpinTimer
<1>2. down \in Good
  BY <1>1, StoppedGood
<1>3. w' = [down EXCEPT !.motorspin = FALSE]
  BY DEF SpinTimer
<1> HIDE DEF down
<1>4. down \in Controller
  BY <1>2 DEF Good
<1>5. w' \in Controller
  BY <1>3, <1>4, Zenon DEF Controller
<1>6. Sound(w)'
  BY <1>2, <1>3, <1>4, SMT DEF Good, Sound, Busy, Requesting, Controller
<1> QED  BY <1>5, <1>6 DEF Inv, TypeOK, SpinTimer, RestUnchanged,
             MediaUnchanged, SelectionUnchanged

(* The end of a seek sample only arms fdctime.  (mixddnoise)                *)
LEMMA MixNoiseInv == ASSUME Inv, MixNoise PROVE Inv'
<1>1. w' \in Good
  BY TimerGood DEF MixNoise, Inv, TypeOK, Good
<1> QED  BY <1>1 DEF Inv, TypeOK, MixNoise, MediaUnchanged,
             SelectionUnchanged, Good

(* The user touches neither the controller nor a buffer. *)
LEMMA UserInv == ASSUME Inv, User PROVE Inv'
<1> USE DEF Inv, TypeOK, UserUnchanged, SelectionUnchanged
<1>1. ASSUME NEW d \in Drives, Eject(d) PROVE Inv'
  BY <1>1 DEF Eject
<1>2. ASSUME NEW d \in Drives, ToggleWriteProtect(d) PROVE Inv'
  BY <1>2 DEF ToggleWriteProtect
<1>3. ASSUME NEW d \in Drives, NEW disc \in Discs, Load(d, disc) PROVE Inv'
  BY <1>3 DEF Load
<1>4. ASSUME ToggleNoise PROVE Inv'
  BY <1>4 DEF ToggleNoise
<1> QED  BY <1>1, <1>2, <1>3, <1>4 DEF User

(* Every step keeps the invariant.                                          *)
LEMMA NextInv == Inv /\ [Next]_vars => Inv'
<1> SUFFICES ASSUME Inv, [Next]_vars PROVE Inv'
  OBVIOUS
<1>1. CASE UNCHANGED vars
  BY <1>1 DEF vars, Inv, TypeOK, Sound, Busy, Requesting
<1>2. CASE WriteCommand
  BY <1>2, SeekInv, TransferInv, ForceInv DEF WriteCommand
<1>3. CASE Cpu
  BY <1>2, <1>3, WriteControlInv, WriteTrackInv, WriteSectorInv, WriteDataInv,
     ReadDataInv DEF Cpu
<1>4. CASE Timers
  BY <1>4, DiscPollInv, FdcTimerInv, SpinTimerInv, MixNoiseInv DEF Timers
<1> QED  BY <1>1, <1>3, <1>4, UserInv DEF Next

-----------------------------------------------------------------------------
(* Inv holds in every state the program can reach, whatever the discs, the  *)
(* driver and the user do.                                                  *)
THEOREM InvHolds == Spec => []Inv
  BY InitInv, NextInv, PTL DEF Spec

(* Every variable has its type: no register of the controller leaves its    *)
(* range, no countdown of an operation goes below 0, and buffers and images *)
(* hold bytes, as long as polls stay WithinBuffer.                          *)
THEOREM TypeCorrect == Spec => []TypeOK
<1>1. Inv => TypeOK
  BY DEF Inv
<1> QED  BY <1>1, InvHolds, PTL

(* The motor bit of the status register tells whether the motor runs.       *)
(* (spinup1770, spindown1770 and every assignment of wd1770.status)         *)
THEOREM MotorBitTrue == Spec => []MotorBit
<1>1. Inv => MotorBit
  BY DEF Inv, Sound, MotorBit
<1> QED  BY <1>1, InvHolds, PTL

(* The motor never spins down under a command, so the polls and timers that *)
(* end it go on.  (spinup1770, callback1770, the error returns)             *)
THEOREM MotorHeld == Spec => []MotorOnWhileBusy
<1>1. Inv => MotorOnWhileBusy
  BY DEF Inv, Sound, MotorOnWhileBusy
<1> QED  BY <1>1, InvHolds, PTL

(* Data is only requested for a command that runs, whatever operation flags *)
(* an interrupted command left behind in ssd.c.  (data1770, getdata1770)    *)
THEOREM RequestsAreForCommands == Spec => []RequestOnlyWhileBusy
<1>1. Inv => RequestOnlyWhileBusy
  BY DEF Inv, Sound, RequestOnlyWhileBusy
<1> QED  BY <1>1, InvHolds, PTL

-----------------------------------------------------------------------------
(* What a stage may do to the images: change the one in the operation's     *)
(* drive when that is not write protected, and stay with that drive.        *)
Safe(s, t) ==
  /\ t.op.drive = s.op.drive
  /\ \A disc \in Discs : t.image[disc] # s.image[disc] =>
       mounted[s.op.drive] = disc /\ ~writeprot[s.op.drive]

(* Stages that are safe one after another are safe together.                *)
LEMMA SafeTransitive ==
  ASSUME NEW s, NEW t, NEW u, Safe(s, t), Safe(t, u)
  PROVE  Safe(s, u)
  BY DEF Safe

(* The pieces that do not touch the images *)
LEMMA PiecesKeepImages ==
  ASSUME NEW s \in PollState
  PROVE  /\ \A b \in Bytes : Safe(s, Store(s, b))
         /\ Safe(s, StopWrite(s)) /\ Safe(s, StopFormat(s))
         /\ Safe(s, Finish(s)) /\ Safe(s, Refused(s)) /\ Safe(s, NextSector(s))
         /\ \A wd : Safe(s, [s EXCEPT !.w = wd])
         /\ Safe(s, [s EXCEPT !.returned = TRUE])
<1> USE DEF Safe, PollState, Operation
<1>1. \A b \in Bytes : Safe(s, Store(s, b))
  BY SMT DEF Store
<1>2. /\ Safe(s, StopWrite(s)) /\ Safe(s, StopFormat(s))
      /\ Safe(s, Finish(s))
  BY SMT DEF StopWrite, StopFormat, Finish
<1>3. Safe(s, Refused(s))
  <2> DEFINE wd == FdcWriteProtect(s.w)
  <2>1. Refused(s) = [s EXCEPT !.w = wd, !.returned = TRUE]
    BY Zenon DEF Refused
  <2> HIDE DEF wd
  <2> QED  BY <2>1, SMT
<1>6. Safe(s, NextSector(s))
  <2> DEFINE o == [s.op EXCEPT !.pos = 0, !.sector = s.op.sector + 1]
  <2>1. o.drive = s.op.drive
    BY Zenon
  <2>2. NextSector(s) = [s EXCEPT !.op = o]
    BY Zenon DEF NextSector
  <2> HIDE DEF o
  <2> QED  BY <2>1, <2>2, SMT
<1>4. \A wd : Safe(s, [s EXCEPT !.w = wd])
  BY SMT
<1>5. Safe(s, [s EXCEPT !.returned = TRUE])
  BY SMT
<1> QED  BY <1>1, <1>2, <1>3, <1>4, <1>5, <1>6

(* The stages that do not touch the images *)
LEMMA StagesKeepImages ==
  ASSUME NEW s \in PollState
  PROVE  /\ Safe(s, NotFoundStage(s))
         /\ Safe(s, ReadStage(s))
         /\ Safe(s, AddressStage(s))
<1> USE DEF Safe, PollState, Operation
<1>1. Safe(s, NotFoundStage(s))
  BY SMT DEF NotFoundStage
<1>2. Safe(s, ReadStage(s))
  BY SMT DEF ReadStage
<1>3. Safe(s, AddressStage(s))
  BY SMT DEF AddressStage
<1> QED  BY <1>1, <1>2, <1>3

(* ssd_writeback changes the image in the operation's drive. *)
LEMMA WriteBackSafe ==
  ASSUME NEW s \in PollState, ~writeprot[s.op.drive]
  PROVE  Safe(s, WriteBack(s))
<1> DEFINE at == mounted[s.op.drive]
           file == Written(s.image[at], s.op.track, s.buffer[s.op.drive])
           i == [s.image EXCEPT ![at] = file]
<1>1. s.image \in [Discs -> Files]
  BY DEF PollState
<1>2. WriteBack(s) = [s EXCEPT !.image = i]
  BY Zenon DEF WriteBack
<1> HIDE DEF file
<1>3. \A disc \in Discs : i[disc] # s.image[disc] => at = disc
  BY <1>1
<1> HIDE DEF i
<1>4. [s EXCEPT !.image = i].image = i /\ [s EXCEPT !.image = i].op = s.op
  BY SMT DEF PollState
<1> QED  BY <1>2, <1>3, <1>4 DEF Safe

(* What stores the last byte of a sector or a track *)
LEMMA LastSafe ==
  ASSUME NEW s \in PollState, ~writeprot[s.op.drive]
  PROVE  /\ Safe(s, WriteBack(Finish(StopWrite(s))))
         /\ Safe(s, WriteBack(Finish(StopFormat(s))))
<1>1. ASSUME NEW t \in PollState, t.op.drive = s.op.drive
      PROVE  Safe(t, WriteBack(Finish(t)))
  <2>1. Finish(t) \in PollState /\ Safe(t, Finish(t))
    BY PiecesType, PiecesKeepImages, Zenon
  <2>2. ~writeprot[Finish(t).op.drive]
    BY <1>1, <2>1 DEF Safe
  <2> QED  BY <2>1, <2>2, WriteBackSafe, SafeTransitive, Zenon
<1>2. /\ StopWrite(s) \in PollState /\ Safe(s, StopWrite(s))
      /\ StopFormat(s) \in PollState /\ Safe(s, StopFormat(s))
  BY PiecesType, PiecesKeepImages, Zenon
<1>3. /\ Safe(StopWrite(s), WriteBack(Finish(StopWrite(s))))
      /\ Safe(StopFormat(s), WriteBack(Finish(StopFormat(s))))
  BY <1>1, <1>2, Zenon DEF Safe
<1> QED  BY <1>2, <1>3, SafeTransitive, Zenon

(* The write stage tests the protection of its own drive.  (ssd_poll)       *)
LEMMA WriteStageSafe ==
  ASSUME NEW s \in PollState
  PROVE  Safe(s, WriteStage(s))
<1> DEFINE got == [s EXCEPT !.w = FdcGetData(@, SectorDone(s))]
           stored == Store(got, DataFor(s.w))
<1>1. Safe(s, s)
  BY DEF Safe
<1>2. CASE ~s.op.write \/ ~Present(s)
  BY <1>1, <1>2 DEF WriteStage
<1>3. CASE s.op.write /\ Present(s) /\ Protected(s)
  <2>1. Refused(s) \in PollState /\ Safe(s, Refused(s))
    BY PiecesType, PiecesKeepImages, Zenon
  <2>2. Safe(Refused(s), StopWrite(Refused(s)))
    BY <2>1, PiecesKeepImages, Zenon
  <2> QED  BY <1>3, <2>1, <2>2, SafeTransitive, Zenon DEF WriteStage
<1>4. CASE s.op.write /\ Present(s) /\ ~Protected(s) /\ DataFor(s.w) = NoByte
  BY <1>4, PiecesKeepImages, Zenon DEF WriteStage
<1>5. CASE s.op.write /\ Present(s) /\ ~Protected(s) /\ DataFor(s.w) # NoByte
  <2>1. DataFor(s.w) \in Bytes
    BY <1>5 DEF DataFor, PollState, Good, Controller
  <2>2. got \in PollState /\ Safe(s, got)
    <3>1. SectorDone(s) \in BOOLEAN
      BY DEF SectorDone
    <3> QED  BY <3>1, PiecesType, PiecesKeepImages, Zenon
  <2> HIDE DEF got
  <2>3. stored \in PollState /\ Safe(got, stored)
    BY <2>1, <2>2, PiecesType, PiecesKeepImages, Zenon
  <2>4. WriteStage(s) = IF SectorDone(s)
                        THEN WriteBack(Finish(StopWrite(stored))) ELSE stored
    BY <1>5, Zenon DEF WriteStage, got
  <2> HIDE DEF stored
  <2>5. Safe(s, stored)
    BY <2>2, <2>3, SafeTransitive, Zenon
  <2>6. ~writeprot[stored.op.drive]
    BY <1>5, <2>5 DEF Safe, Protected
  <2>7. Safe(stored, WriteBack(Finish(StopWrite(stored))))
    BY <2>3, <2>6, LastSafe, Zenon
  <2>8. Safe(s, WriteBack(Finish(StopWrite(stored))))
    BY <2>5, <2>7, SafeTransitive, Zenon
  <2> QED  BY <2>4, <2>5, <2>8
<1> QED  BY <1>2, <1>3, <1>4, <1>5

(* So does the format stage.  (ssd_poll)                                    *)
LEMMA FormatStageSafe ==
  ASSUME NEW s \in PollState
  PROVE  Safe(s, FormatStage(s))
<1> DEFINE stored == Store(s, 0)
           next == NextSector(stored)
<1>1. Safe(s, s)
  BY DEF Safe
<1>2. Safe(s, StopFormat(Refused(s)))
  <2>1. Refused(s) \in PollState /\ Safe(s, Refused(s))
    BY PiecesType, PiecesKeepImages, Zenon
  <2>2. Safe(Refused(s), StopFormat(Refused(s)))
    BY <2>1, PiecesKeepImages, Zenon
  <2> QED  BY <2>1, <2>2, SafeTransitive, Zenon
<1>3. stored \in PollState /\ Safe(s, stored)
  <2>1. 0 \in Bytes
    OBVIOUS
  <2> QED  BY <2>1, PiecesType, PiecesKeepImages, Zenon
<1>4. next \in PollState /\ Safe(stored, next)
  BY <1>3, PiecesType, PiecesKeepImages, Zenon
<1>5. Safe(s, next)
  BY <1>3, <1>4, SafeTransitive, Zenon
<1>6. /\ FormatStage(s) \in {s, StopFormat(Refused(s)), stored, next,
                             WriteBack(Finish(StopFormat(next)))}
      /\ Protected(s) =>
           FormatStage(s) \in {s, StopFormat(Refused(s))}
  BY Zenon DEF FormatStage
<1> HIDE DEF stored, next
<1>7. CASE Protected(s)
  BY <1>1, <1>2, <1>6, <1>7
<1>8. CASE ~Protected(s)
  <2>1. ~writeprot[next.op.drive]
    BY <1>5, <1>8 DEF Safe, Protected
  <2>2. Safe(next, WriteBack(Finish(StopFormat(next))))
    BY <1>4, <2>1, LastSafe, Zenon
  <2>3. Safe(s, WriteBack(Finish(StopFormat(next))))
    BY <1>5, <2>2, SafeTransitive, Zenon
  <2> QED  BY <1>1, <1>2, <1>3, <1>5, <1>6, <2>3
<1> QED  BY <1>7, <1>8

(* The whole poll *)
LEMMA SsdPollSafe ==
  ASSUME NEW s \in PollState, s.op.read => Here(s) \in Positions
  PROVE  Safe(s, SsdPoll(s))
<1> DEFINE s1 == NotFoundStage(s)
           s2 == ReadStage(s1)
           s3 == WriteStage(s2)
           s4 == AddressStage(s3)
<1>1. s1 \in PollState /\ Safe(s, s1)
  BY NotFoundStageType, StagesKeepImages
<1>2. s1.op.read => Here(s1) \in Positions
  BY DEF NotFoundStage, Here, PollState, Operation
<1> HIDE DEF s1
<1>3. s2 \in PollState /\ Safe(s1, s2)
  BY <1>1, <1>2, ReadStageType, StagesKeepImages
<1> HIDE DEF s2
<1>4. s3 \in PollState /\ Safe(s2, s3)
  BY <1>3, WriteStageType, WriteStageSafe
<1> HIDE DEF s3
<1>5. s4 \in PollState /\ Safe(s3, s4)
  BY <1>4, AddressStageType, StagesKeepImages
<1> HIDE DEF s4
<1>6. Safe(s4, FormatStage(s4))
  BY <1>5, FormatStageSafe
<1>7. SsdPoll(s) = FormatStage(s4)
  BY DEF SsdPoll, s1, s2, s3, s4
<1> QED  BY <1>1, <1>3, <1>4, <1>5, <1>6, <1>7, SafeTransitive, Zenon

(* A step that leaves every image alone *)
LEMMA OthersKeepImages ==
  ASSUME [Next]_vars, ~DiscPoll
  PROVE  UNCHANGED image
<1>1. CASE UNCHANGED vars
  BY <1>1 DEF vars
<1>2. CASE Cpu
  BY <1>2 DEF Cpu, WriteCommand, SeekCommand, TransferCommand, ForceCommand,
     WriteControl, WriteTrack, WriteSector, WriteData, ReadData,
     MediaUnchanged, RestUnchanged
<1>3. CASE Timers
  BY <1>3 DEF Timers, FdcTimer, SpinTimer, MixNoise, MediaUnchanged,
     RestUnchanged
<1>4. CASE User
  BY <1>4 DEF User, Eject, ToggleWriteProtect, Load, ToggleNoise,
     UserUnchanged
<1> QED  BY <1>1, <1>2, <1>3, <1>4 DEF Next

(* A poll writes to no protected disc, whatever it finds in progress.       *)
LEMMA PollProtects ==
  ASSUME Inv, DiscPoll, NEW disc \in Discs, image'[disc] # image[disc]
  PROVE  \E d \in Drives : mounted[d] = disc /\ ~writeprot[d]
<1> DEFINE now == [w |-> w, op |-> op, buffer |-> buffer, image |-> image,
                   returned |-> FALSE]
           polled == IF handler[curdrive] THEN SsdPoll(now) ELSE now
<1>1. now \in PollState /\ now.op = op /\ now.image = image
  BY DEF Inv, TypeOK, PollState, Good
<1>2. now.op.read => Here(now) \in Positions
  BY <1>1, ReadsWithinBuffer DEF Here
<1> HIDE DEF now
<1>4. Safe(now, polled)
  BY <1>1, <1>2, SsdPollSafe DEF Safe
<1>7. DiscPollResult \in {polled, [polled EXCEPT !.w = FdcNotFound(polled.w)]}
  BY Zenon DEF DiscPollResult, now
<1>8. handler[curdrive] => SsdPoll(now) \in PollState
  BY <1>1, <1>2, SsdPollType
<1>9. polled \in PollState
  BY <1>1, <1>8
<1> HIDE DEF polled
<1>3. DiscPollResult.image = polled.image
  <2> DEFINE wd == FdcNotFound(polled.w)
  <2> HIDE DEF wd
  <2>1. [polled EXCEPT !.w = wd].image = polled.image
    BY <1>9 DEF PollState
  <2> QED  BY <1>7, <2>1 DEF wd
<1>5. image'[disc] # image[disc] =>
        mounted[op.drive] = disc /\ ~writeprot[op.drive]
  BY <1>1, <1>3, <1>4 DEF DiscPoll, Safe
<1>6. op.drive \in Drives
  BY DEF Inv, TypeOK, Operation
<1> QED  BY <1>5, <1>6

(* Nothing is ever written to a disc in a write protected drive, whenever   *)
(* the protection was switched on and whatever disc was there when the      *)
(* operation began.  (ssd_poll)                                             *)
THEOREM ProtectedKept == Spec => ProtectedDiscUnchanged
<1> DEFINE Kept == \A disc \in Discs : image'[disc] # image[disc] =>
                     \E d \in Drives : mounted[d] = disc /\ ~writeprot[d]
<1>1. Inv /\ [Next]_vars => [Kept]_vars
  <2> SUFFICES ASSUME Inv, [Next]_vars PROVE Kept
    OBVIOUS
  <2>1. CASE DiscPoll
    BY <2>1, PollProtects
  <2>2. CASE ~DiscPoll
    BY <2>2, OthersKeepImages
  <2> QED  BY <2>1, <2>2
<1> QED  BY <1>1, InvHolds, PTL DEF Spec, ProtectedDiscUnchanged

-----------------------------------------------------------------------------
(* A sector within a track and a byte within a sector are within the track  *)
(* buffer.                                                                  *)
LEMMA InTrack ==
  ASSUME NEW s \in Sectors, NEW p \in 0..(SectorSize - 1)
  PROVE  s * SectorSize + p \in Positions
<1> DEFINE z == SectorSize
           m == MaxSector
<1>1. z \in Nat \ {0} /\ m \in Nat /\ s \in 0..m /\ p \in 0..(z - 1)
  BY DEF Sectors
<1>2. Positions = 0..((m + 1) * z - 1)
  BY DEF Positions
<1> HIDE DEF z, m
<1>3. (m - s) * z >= 0 /\ s * z >= 0
  BY <1>1
<1>4. (m - s) * z = m * z - s * z /\ (m + 1) * z = m * z + z
  BY <1>1
<1>5. s * z \in Int /\ m * z \in Int
  BY <1>1
<1>6. s * z + p <= (m + 1) * z - 1 /\ s * z + p >= 0
  BY <1>1, <1>3, <1>4, <1>5
<1> QED  BY <1>1, <1>2, <1>5, <1>6 DEF z

(* Only a sector of the track has its bytes within the track buffer.        *)
LEMMA OnTrack ==
  ASSUME NEW s \in Nat, NEW p \in 0..(SectorSize - 1),
         s * SectorSize + p \in Positions
  PROVE  s \in Sectors
<1> DEFINE z == SectorSize
           m == MaxSector
<1>1. z \in Nat \ {0} /\ m \in Nat /\ p \in 0..(z - 1)
  OBVIOUS
<1>2. s * z + p \in 0..((m + 1) * z - 1)
  BY DEF Positions
<1>3. Sectors = 0..m
  BY DEF Sectors
<1> HIDE DEF z, m
<1>4. ASSUME s >= m + 1  PROVE FALSE
  <2> DEFINE k == s - (m + 1)
  <2>1. k \in Nat /\ s = (m + 1) + k
    BY <1>1, <1>4
  <2> HIDE DEF k
  <2>2. k * z \in Nat /\ (m + 1) * z \in Int /\ s * z \in Int
    BY <1>1, <2>1
  <2>3. s * z = (m + 1) * z + k * z
    BY <1>1, <2>1
  <2> QED  BY <1>1, <1>2, <2>2, <2>3
<1> QED  BY <1>1, <1>3, <1>4

(* A poll that stores a byte stores it in the track buffer: its bound.      *)
LEMMA WritesWithinBuffer ==
  ASSUME Inv, DiscPoll
  PROVE  op.write \/ op.format =>
           op.sector * SectorSize + op.pos \in Positions
<1>1. /\ op.read \in BOOLEAN /\ op.write \in BOOLEAN
      /\ op.address \in BOOLEAN /\ op.format \in BOOLEAN
      /\ op.pos \in Nat /\ op.sector \in Nat
  BY DEF Inv, TypeOK, Operation
<1> DEFINE at == op.sector * SectorSize + op.pos
           last == (MaxSector + 1) * SectorSize - 1
<1>2. at \in Nat /\ last \in Int
  BY <1>1
<1>3. op.write \/ op.format =>
        Active \in Nat \ {0} /\ ~(Active = 1 /\ op.address)
  BY <1>1 DEF Active, One
<1>4. op.write \/ op.format => at + Active - 1 \in 0..last
  BY <1>3 DEF DiscPoll, WithinBuffer, Positions
<1> HIDE DEF at, last
<1>5. op.write \/ op.format => at \in 0..last
  BY <1>2, <1>3, <1>4
<1> QED  BY <1>5 DEF Positions, at, last

-----------------------------------------------------------------------------
(* A driver that waits: it gives commands only when none runs and serves    *)
(* each request before the next poll, discs stay where they are and the     *)
(* noise is not switched.                                                   *)
Served == Polite /\ ~Swaps /\ ~Toggles

(* The operation cmd of ssd.c is in progress for the command of that name.  *)
Underway(cmd) ==
  /\ Busy(w) /\ w.command = cmd /\ w.fdctime = "none"
  /\ op.drive = curdrive /\ op.track = trackc[curdrive]
  /\ mounted[curdrive] # NoDisc
  /\ op.notfound = 0 /\ noHandler = 0

(* The controller waits for one of the countdowns to "not found".           *)
Searching ==
  Busy(w) /\ w.command \in TransferCommands /\ w.fdctime = "none"

(* Whatever is in progress belongs to the command that runs, and is the     *)
(* only thing in progress: the controller and ssd.c keep no record of each  *)
(* other, and with another driver they disagree.                            *)
Orderly ==
  /\ \A d \in Drives : handler[d] <=> mounted[d] # NoDisc
  /\ op.read => Underway("read")
  /\ op.write => Underway("write") /\ (Requesting(w) \/ w.written)
  /\ op.address => Underway("address")
  /\ op.format => Underway("format")
  /\ op.notfound > 0 => Searching /\ noHandler = 0
  /\ noHandler > 0 => Searching
  /\ w.fdctime = "seek" => Busy(w) /\ w.command \in SeekCommands
  /\ w.fdctime = "finish" => Busy(w) /\ w.command \in TransferCommands
  /\ sndddnoise /\ sstat > 0 =>
       Busy(w) /\ w.command \in SeekCommands /\ w.fdctime = "none"

(* What a poll works on *)
Now == [w |-> w, op |-> op, buffer |-> buffer, image |-> image,
        returned |-> FALSE]

(* What a poll leaves, in the variables *)
Leaves(wd, o, b, i) == w' = wd /\ op' = o /\ buffer' = b /\ image' = i

(* A poll's state, field by field *)
LEMMA PollFields ==
  ASSUME Inv
  PROVE  /\ Now \in PollState
         /\ Now.w = w /\ Now.op = op /\ Now.buffer = buffer
         /\ Now.image = image /\ Now.returned = FALSE
  BY DEF Now, Inv, TypeOK, PollState, Good

(* The result of a poll of an SSD image in which no other countdown ends    *)
LEMMA PollLeaves ==
  ASSUME Inv, Orderly, DiscPoll, noHandler = 0, handler[curdrive],
         NEW s \in PollState, SsdPoll(Now) = s
  PROVE  Leaves(s.w, s.op, s.buffer, s.image)
<1>1. noHandler # 1
  OBVIOUS
<1>2. DiscPollResult = s
  BY <1>1, Zenon DEF DiscPollResult, Now
<1> QED  BY <1>2, Zenon DEF DiscPoll, Leaves

(* Stages of operations that are not in progress do nothing.                *)
LEMMA OtherStages ==
  ASSUME NEW s
  PROVE  /\ s.op.notfound = 0 => NotFoundStage(s) = s
         /\ ~s.op.read => ReadStage(s) = s
         /\ ~s.op.write => WriteStage(s) = s
         /\ ~s.op.address => AddressStage(s) = s
         /\ ~s.op.format => FormatStage(s) = s
  BY Zenon DEF NotFoundStage, ReadStage, WriteStage, AddressStage, FormatStage

(* At most one operation is in progress.                                    *)
LEMMA OneOperation ==
  ASSUME Inv, Orderly
  PROVE  /\ op.read => ~op.write /\ ~op.address /\ ~op.format
         /\ op.write => ~op.read /\ ~op.address /\ ~op.format
         /\ op.address => ~op.read /\ ~op.write /\ ~op.format
         /\ op.format => ~op.read /\ ~op.write /\ ~op.address
         /\ op.notfound > 0 => ~op.read /\ ~op.write /\ ~op.address
                               /\ ~op.format
         /\ noHandler > 0 => ~op.read /\ ~op.write /\ ~op.address
                             /\ ~op.format /\ op.notfound = 0
         /\ op.notfound \in Nat /\ noHandler \in Nat
         /\ op.drive \in Drives /\ curdrive \in Drives
         /\ op.pos \in Nat /\ op.sector \in Nat
  BY DEF Inv, TypeOK, Orderly, Underway, Operation

(* The drive of an operation in progress is the selected one, with a disc.  *)
LEMMA AtSelected ==
  ASSUME Inv, Orderly, op.read \/ op.write \/ op.address \/ op.format
  PROVE  /\ handler[curdrive] /\ mounted[op.drive] # NoDisc
         /\ op.notfound = 0 /\ noHandler = 0 /\ Busy(w)
         /\ op.drive = curdrive /\ op.track = trackc[op.drive]
         /\ w.fdctime = "none"
  BY OneOperation DEF Orderly, Underway

(* A poll with nothing in progress only counts down to "not found", and     *)
(* ends the command there.  (ssd_poll, disc_poll)                           *)
LEMMA PollIdle ==
  ASSUME Inv, Orderly, DiscPoll,
         ~op.read, ~op.write, ~op.address, ~op.format
  PROVE  \/ Leaves(w, op, buffer, image) /\ noHandler # 1
         \/ /\ noHandler = 1
            /\ Leaves(FdcNotFound(w), op, buffer, image)
         \/ /\ op.notfound > 0
            /\ Leaves(IF op.notfound = 1 THEN FdcNotFound(w) ELSE w,
                      [op EXCEPT !.notfound = @ - 1], buffer, image)
<1>1. /\ Now.w = w /\ Now.op = op /\ Now.buffer = buffer
      /\ Now.image = image /\ Now \in PollState
  BY PollFields
<1> DEFINE s == NotFoundStage(Now)
<1> DEFINE wd == IF op.notfound = 1 THEN FdcNotFound(w) ELSE w
           o == [op EXCEPT !.notfound = @ - 1]
<1>2. s \in PollState
  BY <1>1, NotFoundStageType
<1>3. /\ op.notfound = 0 => s = Now
      /\ op.notfound # 0 => s = [Now EXCEPT !.w = wd, !.op = o]
  BY <1>1, Zenon DEF NotFoundStage
<1>10. ~o.read /\ ~o.write /\ ~o.address /\ ~o.format
  BY SMT DEF Inv, TypeOK, Operation
<1> HIDE DEF wd, o, s
<1>11. ASSUME op.notfound # 0
       PROVE  s.w = wd /\ s.op = o /\ s.buffer = buffer /\ s.image = image
  <2>1. s = [Now EXCEPT !.w = wd, !.op = o]
    BY <1>3, <1>11
  <2> QED  BY <1>1, <2>1, SMT DEF PollState
<1>12. ~s.op.read /\ ~s.op.write /\ ~s.op.address /\ ~s.op.format
  BY <1>1, <1>3, <1>10, <1>11
<1>4. SsdPoll(Now) = s
  BY <1>12, OtherStages, Zenon DEF SsdPoll, s
<1>5. CASE noHandler = 0 /\ handler[curdrive]
  <2>1. Leaves(s.w, s.op, s.buffer, s.image)
    BY <1>2, <1>4, <1>5, PollLeaves
  <2> QED  BY <1>1, <1>3, <1>5, <1>11, <2>1, OneOperation DEF wd, o
<1>6. CASE noHandler = 0 /\ ~handler[curdrive]
  <2>1. noHandler # 1
    BY <1>6
  <2>2. DiscPollResult = Now
    BY <1>6, <2>1, Zenon DEF DiscPollResult, Now
  <2> QED  BY <1>1, <2>1, <2>2, Zenon DEF Leaves, DiscPoll
<1>7. CASE noHandler > 0
  <2>1. op.notfound = 0
    BY <1>7, OneOperation
  <2>2. s = Now
    BY <1>3, <2>1
  <2>3. DiscPollResult
          = IF noHandler = 1 THEN [Now EXCEPT !.w = FdcNotFound(@)] ELSE Now
    BY <1>4, <2>2, Zenon DEF DiscPollResult, Now
  <2> DEFINE v == FdcNotFound(w)
  <2>4. noHandler = 1 => DiscPollResult = [Now EXCEPT !.w = v]
    BY <1>1, <2>3, Zenon
  <2> HIDE DEF v
  <2>5. noHandler = 1 =>
          /\ DiscPollResult.w = v /\ DiscPollResult.op = op
          /\ DiscPollResult.buffer = buffer /\ DiscPollResult.image = image
    BY <1>1, <2>4, SMT DEF PollState
  <2>6. noHandler # 1 => DiscPollResult = Now
    BY <2>3
  <2> QED  BY <1>1, <2>5, <2>6, Zenon DEF Leaves, DiscPoll, v
<1>8. noHandler \in Nat
  BY OneOperation
<1> QED  BY <1>5, <1>6, <1>7, <1>8

(* A poll while a sector is read sends one byte, and after the last one     *)
(* the read is over.  (ssd_poll)                                            *)
LEMMA PollReads ==
  ASSUME Inv, Orderly, DiscPoll, op.read
  PROVE  LET sent == FdcData(w, buffer[op.drive][SectorBase + op.pos])
             last == op.pos + 1 = SectorSize
         IN  Leaves(IF last THEN FdcFinishRead(sent) ELSE sent,
                    [op EXCEPT !.read = ~last, !.pos = op.pos + 1],
                    buffer, image)
<1> DEFINE sent == FdcData(w, buffer[op.drive][SectorBase + op.pos])
           last == op.pos + 1 = SectorSize
           wd == IF last THEN FdcFinishRead(sent) ELSE sent
           o == [op EXCEPT !.read = ~last, !.pos = op.pos + 1]
           s == ReadStage(Now)
<1>1. /\ Now.w = w /\ Now.op = op /\ Now.buffer = buffer
      /\ Now.image = image /\ Now \in PollState
  BY PollFields
<1>2. s = [Now EXCEPT !.w = wd, !.op = o]
  BY <1>1, AtSelected, Zenon
     DEF ReadStage, Present, Here, SectorDone, SectorBase
<1>3. s \in PollState
  BY <1>1, ReadsWithinBuffer, ReadStageType DEF Here
<1>4. o.write = op.write /\ o.address = op.address /\ o.format = op.format
  BY SMT DEF Inv, TypeOK, Operation
<1> HIDE DEF wd, o
<1>5. s.w = wd /\ s.op = o /\ s.buffer = buffer /\ s.image = image
  BY <1>1, <1>2, SMT DEF PollState
<1> HIDE DEF s
<1>6. SsdPoll(Now) = s
  <2>1. op.notfound = 0 /\ ~o.write /\ ~o.address /\ ~o.format
    BY <1>4, AtSelected, OneOperation, Zenon
  <2>2. NotFoundStage(Now) = Now
    BY <1>1, <2>1, OtherStages, Zenon
  <2>3. WriteStage(s) = s /\ AddressStage(s) = s /\ FormatStage(s) = s
    BY <1>5, <2>1, OtherStages, Zenon
  <2> QED  BY <2>2, <2>3, Zenon DEF SsdPoll, s
<1>7. Leaves(s.w, s.op, s.buffer, s.image)
  BY <1>3, <1>6, AtSelected, PollLeaves
<1> QED  BY <1>5, <1>7 DEF wd, o

(* A poll while a sector is written refuses a protected disc, or takes the  *)
(* byte the CPU supplied, and with the last one writes the track back.      *)
(* (ssd_poll, ssd_writeback)                                                *)
LEMMA PollWrites ==
  ASSUME Inv, Orderly, DiscPoll, op.write, w.written
  PROVE  LET last == op.pos + 1 = SectorSize
             got == FdcGetData(w, last)
             stored == [buffer EXCEPT ![op.drive][SectorBase + op.pos]
                                        = w.data]
         IN  \/ Leaves(FdcWriteProtect(w), [op EXCEPT !.write = FALSE],
                       buffer, image)
             \/ ~last /\ Leaves(got, [op EXCEPT !.pos = op.pos + 1],
                                stored, image)
             \/ /\ last
                /\ Leaves(FdcFinishRead(got),
                     [op EXCEPT !.pos = op.pos + 1, !.write = FALSE], stored,
                     [image EXCEPT ![mounted[op.drive]] =
                        Written(image[mounted[op.drive]], op.track,
                                stored[op.drive])])
<1> DEFINE last == op.pos + 1 = SectorSize
           got == FdcGetData(w, last)
           stored == [buffer EXCEPT ![op.drive][SectorBase + op.pos] = w.data]
           next == [op EXCEPT !.pos = op.pos + 1]
           done == [op EXCEPT !.pos = op.pos + 1, !.write = FALSE]
           i == [image EXCEPT ![mounted[op.drive]] =
                   Written(image[mounted[op.drive]], op.track,
                           stored[op.drive])]
           off == [op EXCEPT !.write = FALSE]
           s == WriteStage(Now)
<1>1. /\ Now.w = w /\ Now.op = op /\ Now.buffer = buffer
      /\ Now.image = image /\ Now \in PollState /\ ~Now.returned
  BY PollFields
<1>2. /\ s \in PollState
      /\ ~op.read /\ ~op.address /\ ~op.format /\ op.notfound = 0
      /\ mounted[op.drive] # NoDisc /\ Busy(w)
  BY <1>1, WriteStageType, OneOperation, AtSelected
<1>3. s.op.address = op.address /\ s.op.format = op.format => SsdPoll(Now) = s
  <2>1. NotFoundStage(Now) = Now /\ ReadStage(Now) = Now
    BY <1>1, <1>2, OtherStages, Zenon
  <2> HIDE DEF s
  <2>2. s.op.address = op.address /\ s.op.format = op.format
          => AddressStage(s) = s /\ FormatStage(s) = s
    BY <1>2, OtherStages, Zenon
  <2> QED  BY <2>1, <2>2, Zenon DEF SsdPoll, s
<1>4. /\ op.address = next.address /\ op.format = next.format
      /\ op.address = done.address /\ op.format = done.format
      /\ op.address = off.address /\ op.format = off.format
      /\ done = [next EXCEPT !.write = FALSE]
      /\ next.drive = op.drive /\ next.track = op.track
      /\ done.drive = op.drive /\ done.track = op.track
  BY SMT DEF Inv, TypeOK, Operation
<1>5. SsdPoll(Now) = s => Leaves(s.w, s.op, s.buffer, s.image)
  BY <1>2, AtSelected, PollLeaves
<1>6. DataFor(w) = w.data /\ w.data # NoByte
  BY <1>2 DEF DataFor, NoByte, Inv, TypeOK, Controller
<1>7. CASE Protected(Now)
  <2> DEFINE wd == FdcWriteProtect(w)
  <2>1. s = [[Now EXCEPT !.w = wd, !.returned = TRUE] EXCEPT !.op = off]
    <3>1. s = StopWrite(Refused(Now))
      BY <1>1, <1>2, <1>7, Zenon DEF WriteStage, Present
    <3>2. Refused(Now) = [Now EXCEPT !.w = wd, !.returned = TRUE]
      BY <1>1, Zenon DEF Refused
    <3> HIDE DEF wd
    <3>3. [Now EXCEPT !.w = wd, !.returned = TRUE].op = op
      BY <1>1, SMT DEF PollState
    <3> QED  BY <3>1, <3>2, <3>3, Zenon DEF StopWrite
  <2> HIDE DEF wd, off, s
  <2>2. s.w = wd /\ s.op = off /\ s.buffer = buffer /\ s.image = image
    BY <1>1, <2>1, SMT DEF PollState
  <2> QED  BY <1>3, <1>4, <1>5, <2>2 DEF wd, off
<1>8. CASE ~Protected(Now)
  <2> DEFINE taken == [Now EXCEPT !.w = got]
             b == w.data
             put == [[Now EXCEPT !.w = got] EXCEPT !.buffer = stored,
                                                   !.op = next]
  <2>1. /\ ~last => s = Store(taken, b)
        /\ last => s = WriteBack(Finish(StopWrite(Store(taken, b))))
    BY <1>1, <1>2, <1>6, <1>8, Zenon DEF WriteStage, Present, SectorDone
  <2>2. Store(taken, b) = put
    <3> HIDE DEF got
    <3>1. taken.op = op /\ taken.buffer = buffer
      BY <1>1, SMT DEF PollState
    <3> HIDE DEF taken
    <3>2. Store(taken, b) = [taken EXCEPT !.buffer = stored, !.op = next]
      BY <3>1, Zenon DEF Store, Here, SectorBase
    <3> QED  BY <3>2 DEF taken
  <2> HIDE DEF got, stored, next, done
  <2>3. /\ put.w = got /\ put.op = next /\ put.buffer = stored
        /\ put.image = image
    BY <1>1, SMT DEF PollState
  <2>4. CASE ~last
    <3>1. s = put
      BY <2>1, <2>2, <2>4
    <3> HIDE DEF s, put
    <3>2. s.w = got /\ s.op = next /\ s.buffer = stored /\ s.image = image
      BY <2>3, <3>1
    <3> QED  BY <1>3, <1>4, <1>5, <2>4, <3>2 DEF got, next, stored
  <2>5. CASE last
    <3> DEFINE v == FdcFinishRead(got)
               fin == [[put EXCEPT !.op = done] EXCEPT !.w = v]
    <3>1. s = WriteBack(Finish([put EXCEPT !.op = done]))
      BY <1>4, <2>1, <2>2, <2>3, <2>5, Zenon DEF StopWrite
    <3>2. [put EXCEPT !.op = done].w = got
      BY <1>1, <2>3, SMT DEF PollState
    <3>3. s = WriteBack(fin)
      BY <3>1, <3>2, Zenon DEF Finish
    <3> HIDE DEF v
    <3>4. /\ fin.w = v /\ fin.op = done /\ fin.buffer = stored
          /\ fin.image = image
      BY <1>1, SMT DEF PollState
    <3>5. s = [fin EXCEPT !.image = i]
      BY <1>4, <3>3, <3>4, Zenon DEF WriteBack
    <3> HIDE DEF i
    <3>6. LET f == [fin EXCEPT !.image = i]
          IN  f.w = v /\ f.op = done /\ f.buffer = stored /\ f.image = i
      BY <1>1, SMT DEF PollState
    <3> HIDE DEF fin, s
    <3>7. /\ s.w = v /\ s.op = done /\ s.buffer = stored
          /\ s.image = i
      BY <3>4, <3>5, <3>6 DEF i
    <3> QED  BY <1>3, <1>4, <1>5, <2>5, <3>7 DEF v, got, done, stored, i
  <2> QED  BY <2>4, <2>5
<1> QED  BY <1>7, <1>8

(* A poll while an address is read sends one of its bytes, or ends it.      *)
(* (ssd_poll)                                                               *)
LEMMA PollAddresses ==
  ASSUME Inv, Orderly, DiscPoll, op.address
  PROVE  LET o == [op EXCEPT !.address = op.pos # AddressBytes,
                             !.pos = op.pos + 1]
         IN  \/ \E b \in Bytes : Leaves(FdcData(w, b), o, buffer, image)
                /\ op.pos < AddressBytes
             \/ /\ op.pos = AddressBytes
                /\ Leaves(FdcFinishRead(w), o, buffer, image)
             \/ op.pos > AddressBytes /\ Leaves(w, o, buffer, image)
<1> DEFINE o == [op EXCEPT !.address = op.pos # AddressBytes,
                           !.pos = op.pos + 1]
           b == AddressByte(op)
           wd == IF op.pos < AddressBytes THEN FdcData(w, b)
                 ELSE IF op.pos = AddressBytes THEN FdcFinishRead(w) ELSE w
           s == AddressStage(Now)
<1>1. /\ Now.w = w /\ Now.op = op /\ Now.buffer = buffer
      /\ Now.image = image /\ Now \in PollState /\ ~Now.returned
  BY PollFields
<1>2. /\ s \in PollState
      /\ ~op.read /\ ~op.write /\ ~op.format /\ op.notfound = 0
      /\ mounted[op.drive] # NoDisc /\ op.pos \in Nat
  BY <1>1, AddressStageType, OneOperation, AtSelected
<1>3. s = [Now EXCEPT !.w = wd, !.op = o]
  BY <1>1, <1>2, Zenon DEF AddressStage, Present
<1>4. o.format = op.format
  BY SMT DEF Inv, TypeOK, Operation
<1>5. b \in Bytes
  BY DEF AddressByte, Inv, TypeOK, Operation
<1> HIDE DEF wd, o, b
<1>6. s.w = wd /\ s.op = o /\ s.buffer = buffer /\ s.image = image
  BY <1>1, <1>3, SMT DEF PollState
<1> HIDE DEF s
<1>7. SsdPoll(Now) = s
  BY <1>1, <1>2, <1>4, <1>6, OtherStages, Zenon DEF SsdPoll, s
<1>8. Leaves(s.w, s.op, s.buffer, s.image)
  BY <1>2, <1>7, AtSelected, PollLeaves
<1>9. Leaves(wd, o, buffer, image)
  BY <1>6, <1>8
<1> QED  BY <1>2, <1>5, <1>9 DEF wd, o

(* A poll while a track is formatted refuses a protected disc, or blanks a  *)
(* byte, and with the last one writes the track back.  (ssd_poll)           *)
LEMMA PollFormats ==
  ASSUME Inv, Orderly, DiscPoll, op.format
  PROVE  LET last == op.pos + 1 = SectorSize
             stored == [buffer EXCEPT ![op.drive][SectorBase + op.pos] = 0]
         IN  \/ Leaves(FdcWriteProtect(w), [op EXCEPT !.format = FALSE],
                       buffer, image)
             \/ ~last /\ Leaves(w, [op EXCEPT !.pos = op.pos + 1],
                                stored, image)
             \/ /\ last /\ op.sector # MaxSector
                /\ Leaves(w, [op EXCEPT !.pos = 0, !.sector = op.sector + 1],
                          stored, image)
             \/ /\ last /\ op.sector = MaxSector
                /\ Leaves(FdcFinishRead(w),
                     [op EXCEPT !.pos = 0, !.sector = op.sector + 1,
                                !.format = FALSE], stored,
                     [image EXCEPT ![mounted[op.drive]] =
                        Written(image[mounted[op.drive]], op.track,
                                stored[op.drive])])
<1> DEFINE last == op.pos + 1 = SectorSize
           stored == [buffer EXCEPT ![op.drive][SectorBase + op.pos] = 0]
           step == [op EXCEPT !.pos = op.pos + 1]
           next == [op EXCEPT !.pos = 0, !.sector = op.sector + 1]
           done == [op EXCEPT !.pos = 0, !.sector = op.sector + 1,
                              !.format = FALSE]
           i == [image EXCEPT ![mounted[op.drive]] =
                   Written(image[mounted[op.drive]], op.track,
                           stored[op.drive])]
           off == [op EXCEPT !.format = FALSE]
           s == FormatStage(Now)
<1>1. /\ Now.w = w /\ Now.op = op /\ Now.buffer = buffer
      /\ Now.image = image /\ Now \in PollState /\ ~Now.returned
  BY PollFields
<1>2. /\ s \in PollState
      /\ ~op.read /\ ~op.address /\ ~op.write /\ op.notfound = 0
      /\ mounted[op.drive] # NoDisc
  BY <1>1, FormatStageType, OneOperation, AtSelected
<1>3. SsdPoll(Now) = s
  BY <1>1, <1>2, OtherStages, Zenon DEF SsdPoll, s
<1>4. /\ next = [step EXCEPT !.pos = 0, !.sector = op.sector + 1]
      /\ step.sector = op.sector /\ next.sector = op.sector + 1
      /\ done = [next EXCEPT !.format = FALSE]
      /\ done.drive = op.drive /\ done.track = op.track
      /\ op.sector + 1 = MaxSector + 1 <=> op.sector = MaxSector
  <2> DEFINE k == op.sector + 1
  <2>1. op \in Operation
    BY DEF Inv, TypeOK
  <2>2. op.sector \in Nat
    BY <2>1 DEF Operation
  <2>3. k = MaxSector + 1 <=> op.sector = MaxSector
    BY <2>2
  <2> DEFINE q == op.pos + 1
  <2> HIDE DEF k, q
  <2>4. [op EXCEPT !.pos = 0, !.sector = k]
          = [[op EXCEPT !.pos = q] EXCEPT !.pos = 0, !.sector = k]
    <3>1. [[op EXCEPT !.pos = q] EXCEPT !.pos = 0] = [op EXCEPT !.pos = 0]
      BY Zenon
    <3>2. \A o : [o EXCEPT !.pos = 0, !.sector = k]
                   = [[o EXCEPT !.pos = 0] EXCEPT !.sector = k]
      OBVIOUS
    <3> QED  BY <3>1, <3>2
  <2>6. /\ [op EXCEPT !.pos = q].sector = op.sector
        /\ [op EXCEPT !.pos = 0, !.sector = k].sector = k
    BY <2>1, SMT DEF Operation
  <2>5. /\ [op EXCEPT !.pos = 0, !.sector = k, !.format = FALSE]
             = [[op EXCEPT !.pos = 0, !.sector = k] EXCEPT !.format = FALSE]
        /\ [op EXCEPT !.pos = 0, !.sector = k, !.format = FALSE].drive
             = op.drive
        /\ [op EXCEPT !.pos = 0, !.sector = k, !.format = FALSE].track
             = op.track
    BY <2>1, SMT DEF Operation
  <2> QED  BY <2>3, <2>4, <2>5, <2>6 DEF k, q
<1>5. Leaves(s.w, s.op, s.buffer, s.image)
  BY <1>2, <1>3, AtSelected, PollLeaves
<1>7. CASE Protected(Now)
  <2> DEFINE wd == FdcWriteProtect(w)
  <2>1. s = [[Now EXCEPT !.w = wd, !.returned = TRUE] EXCEPT !.op = off]
    <3>1. s = StopFormat(Refused(Now))
      BY <1>1, <1>2, <1>7, Zenon DEF FormatStage, Present
    <3>2. Refused(Now) = [Now EXCEPT !.w = wd, !.returned = TRUE]
      BY <1>1, Zenon DEF Refused
    <3> HIDE DEF wd
    <3>3. [Now EXCEPT !.w = wd, !.returned = TRUE].op = op
      BY <1>1, SMT DEF PollState
    <3> QED  BY <3>1, <3>2, <3>3, Zenon DEF StopFormat
  <2> HIDE DEF wd, off, s
  <2>2. s.w = wd /\ s.op = off /\ s.buffer = buffer /\ s.image = image
    BY <1>1, <2>1, SMT DEF PollState
  <2> QED  BY <1>5, <2>2 DEF wd, off
<1>8. CASE ~Protected(Now)
  <2> DEFINE put == [Now EXCEPT !.buffer = stored, !.op = step]
             turned == [put EXCEPT !.op = next]
  <2>1. /\ ~last => s = Store(Now, 0)
        /\ last =>
             s = IF NextSector(Store(Now, 0)).op.sector = MaxSector + 1
                 THEN WriteBack(Finish(StopFormat(NextSector(Store(Now, 0)))))
                 ELSE NextSector(Store(Now, 0))
    BY <1>1, <1>2, <1>8, Zenon DEF FormatStage, Present, SectorDone
  <2>2. Store(Now, 0) = put
    BY <1>1, Zenon DEF Store, Here, SectorBase
  <2> HIDE DEF stored, step, next, done
  <2>3. put.w = w /\ put.op = step /\ put.buffer = stored /\ put.image = image
    BY <1>1, SMT DEF PollState
  <2>4. NextSector(Store(Now, 0)) = turned
    BY <1>4, <2>2, <2>3, Zenon DEF NextSector
  <2>5. /\ turned.w = w /\ turned.op = next /\ turned.buffer = stored
        /\ turned.image = image
    BY <1>1, SMT DEF PollState
  <2>6. CASE ~last
    <3>1. s = put
      BY <2>1, <2>2, <2>6
    <3> HIDE DEF s, put
    <3> QED  BY <1>5, <2>3, <2>6, <3>1 DEF step, stored
  <2>7. CASE last /\ op.sector # MaxSector
    <3>1. NextSector(Store(Now, 0)).op.sector # MaxSector + 1
      BY <1>4, <2>4, <2>5, <2>7
    <3>2. s = turned
      BY <2>1, <2>4, <2>7, <3>1, Zenon
    <3> HIDE DEF s, turned
    <3> QED  BY <1>5, <2>5, <2>7, <3>2 DEF next, stored
  <2>8. CASE last /\ op.sector = MaxSector
    <3> DEFINE v == FdcFinishRead(w)
               fin == [[turned EXCEPT !.op = done] EXCEPT !.w = v]
    <3>1. s = WriteBack(Finish([turned EXCEPT !.op = done]))
      BY <1>4, <2>1, <2>4, <2>5, <2>8, Zenon DEF StopFormat
    <3>2. [turned EXCEPT !.op = done].w = w
      BY <1>1, <2>3, SMT DEF PollState
    <3>3. s = WriteBack(fin)
      BY <3>1, <3>2, Zenon DEF Finish
    <3> HIDE DEF v
    <3>4. /\ fin.w = v /\ fin.op = done /\ fin.buffer = stored
          /\ fin.image = image
      BY <1>1, SMT DEF PollState
    <3>5. s = [fin EXCEPT !.image = i]
      BY <1>4, <3>3, <3>4, Zenon DEF WriteBack
    <3> HIDE DEF i
    <3>6. LET f == [fin EXCEPT !.image = i]
          IN  f.w = v /\ f.op = done /\ f.buffer = stored /\ f.image = i
      BY <1>1, SMT DEF PollState
    <3> HIDE DEF fin, s
    <3>7. s.w = v /\ s.op = done /\ s.buffer = stored /\ s.image = i
      BY <3>4, <3>5, <3>6 DEF i
    <3> QED  BY <1>5, <2>8, <3>7 DEF v, done, stored, i
  <2> QED  BY <2>6, <2>7, <2>8
<1> QED  BY <1>7, <1>8

-----------------------------------------------------------------------------
(* What a transfer command makes of the operation: the one it asks for, of  *)
(* the track in the buffer, or a countdown to "not found".                  *)
LEMMA RequestedFields ==
  ASSUME Inv, NEW cmd \in TransferCommands,
         ~op.read, ~op.write, ~op.address, ~op.format, op.notfound = 0
  PROVE  LET o == Requested(cmd)
         IN  /\ Found(curdrive, w.track) =>
                  /\ o.read <=> cmd = "read"
                  /\ o.write <=> cmd = "write"
                  /\ o.address <=> cmd = "address"
                  /\ o.format <=> cmd = "format"
                  /\ o.notfound = 0 /\ o.pos = 0
                  /\ o.drive = curdrive /\ o.track = w.track
                  /\ o.sector = IF cmd \in {"read", "write"} THEN w.sector
                                ELSE IF cmd = "format" THEN 0 ELSE op.sector
             /\ ~Found(curdrive, w.track) =>
                  ~o.read /\ ~o.write /\ ~o.address /\ ~o.format
<1> DEFINE at == Addressed(cmd)
<1>1. op \in Operation
  BY DEF Inv, TypeOK
<1>2. /\ at.read = op.read /\ at.write = op.write /\ at.address = op.address
      /\ at.format = op.format /\ at.notfound = op.notfound
      /\ at.drive = curdrive /\ at.track = w.track
      /\ at.sector = IF cmd \in {"read", "write"} THEN w.sector ELSE op.sector
      /\ DOMAIN at = DOMAIN op
  <2> DEFINE base == [op EXCEPT !.track = w.track, !.drive = curdrive]
             s == w.sector
             t == w.track
  <2>1. at = IF cmd \in {"read", "write"} THEN [base EXCEPT !.sector = s]
             ELSE base
    BY DEF Addressed
  <2> HIDE DEF at, s
  <2>2. /\ base.read = op.read /\ base.write = op.write
        /\ base.address = op.address /\ base.format = op.format
        /\ base.notfound = op.notfound /\ base.drive = curdrive
        /\ base.track = w.track /\ base.sector = op.sector
        /\ DOMAIN base = DOMAIN op
    <3> HIDE DEF t
    <3>1. base = [op EXCEPT !.track = t, !.drive = curdrive]
      BY DEF t
    <3> HIDE DEF base
    <3>2. /\ base.read = op.read /\ base.write = op.write
          /\ base.address = op.address /\ base.format = op.format
          /\ base.notfound = op.notfound /\ base.drive = curdrive
          /\ base.track = t /\ base.sector = op.sector
          /\ DOMAIN base = DOMAIN op
      BY <1>1, <3>1, SMT DEF Operation
    <3> QED  BY <3>2 DEF t
  <2>3. DOMAIN op = {"read", "write", "address", "format", "notfound", "pos",
                     "sector", "track", "drive"}
    BY <1>1, SMT DEF Operation
  <2> HIDE DEF base, t
  <2>4. LET v == [base EXCEPT !.sector = s]
        IN  /\ v.read = op.read /\ v.write = op.write
            /\ v.address = op.address /\ v.format = op.format
            /\ v.notfound = op.notfound /\ v.drive = curdrive
            /\ v.track = w.track /\ v.sector = s
            /\ DOMAIN v = DOMAIN op
    BY <2>2, <2>3, SMT
  <2> QED  BY <2>1, <2>2, <2>4 DEF s
<1>3. DOMAIN at = {"read", "write", "address", "format", "notfound", "pos",
                   "sector", "track", "drive"}
  BY <1>1, <1>2, SMT DEF Operation
<1>4. /\ Found(curdrive, w.track) => Requested(cmd) = Begin(at, cmd)
      /\ ~Found(curdrive, w.track) =>
           Requested(cmd) = [at EXCEPT !.notfound = NotFoundPolls]
  BY DEF Requested
<1> DEFINE o == Requested(cmd)
<1> HIDE DEF at, o
<1>5. CASE ~Found(curdrive, w.track)
  <2>1. o = [at EXCEPT !.notfound = NotFoundPolls]
    BY <1>4, <1>5 DEF o
  <2>2. /\ o.read = at.read /\ o.write = at.write /\ o.address = at.address
        /\ o.format = at.format
    BY <1>3, <2>1, SMT
  <2> QED  BY <1>2, <1>5, <2>2 DEF o
<1>6. CASE Found(curdrive, w.track)
  <2>1. /\ cmd = "read" => o = [at EXCEPT !.read = TRUE, !.pos = 0]
        /\ cmd = "write" => o = [at EXCEPT !.write = TRUE, !.pos = 0]
        /\ cmd = "address" => o = [at EXCEPT !.address = TRUE, !.pos = 0]
        /\ cmd = "format" =>
             o = [at EXCEPT !.format = TRUE, !.pos = 0, !.sector = 0]
    BY <1>4, <1>6 DEF o, Begin
  <2>2. CASE cmd = "read"
    <3>1. o = [at EXCEPT !.read = TRUE, !.pos = 0]
      BY <2>1, <2>2
    <3>2. /\ o.read = TRUE /\ o.write = at.write /\ o.address = at.address
          /\ o.format = at.format /\ o.notfound = at.notfound /\ o.pos = 0
          /\ o.drive = at.drive /\ o.track = at.track /\ o.sector = at.sector
      BY <1>3, <3>1, SMT
    <3> QED  BY <1>2, <1>6, <2>2, <3>2 DEF o
  <2>3. CASE cmd = "write"
    <3>1. o = [at EXCEPT !.write = TRUE, !.pos = 0]
      BY <2>1, <2>3
    <3>2. /\ o.write = TRUE /\ o.read = at.read /\ o.address = at.address
          /\ o.format = at.format /\ o.notfound = at.notfound /\ o.pos = 0
          /\ o.drive = at.drive /\ o.track = at.track /\ o.sector = at.sector
      BY <1>3, <3>1, SMT
    <3> QED  BY <1>2, <1>6, <2>3, <3>2 DEF o
  <2>4. CASE cmd = "address"
    <3>1. o = [at EXCEPT !.address = TRUE, !.pos = 0]
      BY <2>1, <2>4
    <3>2. /\ o.address = TRUE /\ o.read = at.read /\ o.write = at.write
          /\ o.format = at.format /\ o.notfound = at.notfound /\ o.pos = 0
          /\ o.drive = at.drive /\ o.track = at.track /\ o.sector = at.sector
      BY <1>3, <3>1, SMT
    <3> QED  BY <1>2, <1>6, <2>4, <3>2 DEF o
  <2>5. CASE cmd = "format"
    <3>1. o = [at EXCEPT !.format = TRUE, !.pos = 0, !.sector = 0]
      BY <2>1, <2>5
    <3>2. /\ o.format = TRUE /\ o.read = at.read /\ o.write = at.write
          /\ o.address = at.address /\ o.notfound = at.notfound /\ o.pos = 0
          /\ o.drive = at.drive /\ o.track = at.track /\ o.sector = 0
      BY <1>3, <3>1, SMT
    <3> QED  BY <1>2, <1>6, <2>5, <3>2 DEF o
  <2> QED  BY <2>2, <2>3, <2>4, <2>5 DEF TransferCommands
<1> QED  BY <1>5, <1>6

(* Between commands nothing is in progress and no timer event is due.       *)
LEMMA NothingUnderway ==
  ASSUME Inv, Orderly, ~Busy(w)
  PROVE  /\ ~op.read /\ ~op.write /\ ~op.address /\ ~op.format
         /\ op.notfound = 0 /\ noHandler = 0 /\ w.fdctime = "none"
         /\ ~(sndddnoise /\ sstat > 0)
<1>1. op.notfound \in Nat /\ noHandler \in Nat
  BY OneOperation
<1>2. w.fdctime \in {"none", "seek", "finish"}
  BY DEF Inv, TypeOK, Controller
<1> QED  BY <1>1, <1>2 DEF Orderly, Underway, Searching

(* A command for the head starts with nothing in progress.  (write1770)     *)
LEMMA SeekOrderly ==
  ASSUME Inv, Orderly, NEW cmd \in SeekCommands, SeekCommand(cmd)
  PROVE  Orderly'
<1>1. ~Busy(w)
  BY CommandsDiffer DEF SeekCommand, Accepts
<1> DEFINE len == SeekTarget(w, cmd) - oldtrack[curdrive]
           started == StartSeek(w, cmd)
<1>2. w \in Controller /\ SeekTarget(w, cmd) \in Nat
  BY SeekInBound DEF Inv, TypeOK, Tracks
<1>3. started \in Controller /\ started.command = cmd /\ Busy(started)
      /\ started.fdctime = "none"
  <2>1. StepHead(w, cmd).curtrack \in Bytes
    BY SeekInBound
  <2> QED  BY <1>1, <1>2, <2>1, StartFields, StartSeekGood, NothingUnderway
           DEF Good
<1>4. /\ w' = SeekTime(len, started) /\ sstat' = SampleFor(len)
      /\ UNCHANGED <<op, noHandler, sndddnoise, mounted, handler>>
  BY DEF SeekCommand, DiscSeek, MediaUnchanged
<1>5. len \in Int
  BY <1>2 DEF Inv, TypeOK
<1> HIDE DEF started, len
<1>6. /\ w'.command = cmd /\ Busy(w') /\ w'.fdctime \in {"none", "seek"}
      /\ sndddnoise' /\ sstat' > 0 => w'.fdctime = "none"
  <2>1. CASE Abs(len) <= 1 \/ ~sndddnoise
    <3>1. w' = [started EXCEPT !.fdctime = "seek"]
      BY <1>4, <2>1 DEF SeekTime
    <3>2. w'.command = cmd /\ Busy(w') /\ w'.fdctime = "seek"
      BY <1>3, <3>1, SMT DEF Controller, Busy
    <3>3. ~(sndddnoise' /\ sstat' > 0)
      BY <1>4, <1>5, <2>1 DEF SampleFor, Abs
    <3> QED  BY <3>2, <3>3
  <2>2. CASE ~(Abs(len) <= 1 \/ ~sndddnoise)
    <3>1. w' = started
      BY <1>4, <2>2 DEF SeekTime
    <3> QED  BY <1>3, <3>1
  <2> QED  BY <2>1, <2>2
<1>7. ~op'.read /\ ~op'.write /\ ~op'.address /\ ~op'.format
      /\ op'.notfound = 0 /\ noHandler' = 0
  BY <1>1, <1>4, NothingUnderway
<1>8. \A d \in Drives : handler'[d] <=> mounted'[d] # NoDisc
  BY <1>4 DEF Orderly
<1> QED  BY <1>6, <1>7, <1>8 DEF Orderly

(* A transfer begins what it asks for.  (write1770, ssd_readsector, ...)    *)
LEMMA TransferOrderly ==
  ASSUME Inv, Orderly, NEW cmd \in TransferCommands, TransferCommand(cmd)
  PROVE  Orderly'
<1>1. ~Busy(w)
  BY CommandsDiffer DEF TransferCommand, Accepts
<1>2. /\ w' = StartTransfer(w, cmd) /\ w \in Controller
      /\ UNCHANGED <<trackc, curdrive, mounted, handler, sndddnoise, sstat>>
  BY DEF TransferCommand, MediaUnchanged, SelectionUnchanged, Inv, TypeOK
<1>3. /\ w'.command = cmd /\ Busy(w') /\ w'.fdctime = "none"
      /\ Requesting(w') <=> cmd = "write"
  BY <1>1, <1>2, StartFields, NothingUnderway
<1>4. /\ ~op.read /\ ~op.write /\ ~op.address /\ ~op.format
      /\ op.notfound = 0 /\ noHandler = 0 /\ ~(sndddnoise' /\ sstat' > 0)
  BY <1>1, <1>2, NothingUnderway
<1>5. \A d \in Drives : handler'[d] <=> mounted'[d] # NoDisc
  BY <1>2 DEF Orderly
<1>6. CASE ~handler[curdrive]
  <2>1. op' = op
    BY <1>6 DEF TransferCommand
  <2> QED  BY <1>3, <1>4, <1>5, <2>1 DEF Orderly, Searching
<1>7. CASE handler[curdrive]
  <2>1. op' = Requested(cmd) /\ noHandler' = 0
    BY <1>4, <1>7 DEF TransferCommand
  <2>2. CASE ~Found(curdrive, w.track)
    <3>1. ~op'.read /\ ~op'.write /\ ~op'.address /\ ~op'.format
      BY <1>4, <2>1, <2>2, RequestedFields
    <3> QED  BY <1>3, <1>4, <1>5, <2>1, <3>1 DEF Orderly, Searching
  <2>3. CASE Found(curdrive, w.track)
    <3>1. /\ op'.read <=> cmd = "read"
          /\ op'.write <=> cmd = "write"
          /\ op'.address <=> cmd = "address"
          /\ op'.format <=> cmd = "format"
          /\ op'.notfound = 0 /\ op'.drive = curdrive /\ op'.track = w.track
      BY <1>4, <2>1, <2>3, RequestedFields
    <3>2. w.track = trackc[curdrive] /\ mounted[curdrive] # NoDisc
      BY <2>3 DEF Found
    <3> QED  BY <1>2, <1>3, <1>4, <1>5, <2>1, <3>1, <3>2
             DEF Orderly, Underway
  <2> QED  BY <2>2, <2>3
<1> QED  BY <1>6, <1>7

(* What is left in order by a step that leaves a controller with nothing to *)
(* do, when nothing was in progress                                         *)
LEMMA IdleOrderly ==
  ASSUME Orderly, UNCHANGED <<handler, mounted>>,
         w'.fdctime = "none", ~(sndddnoise' /\ sstat' > 0),
         ~op'.read, ~op'.write, ~op'.address, ~op'.format,
         op'.notfound = 0, noHandler' = 0
  PROVE  Orderly'
  BY DEF Orderly

(* Between commands a driver that waits may do the rest.  (write1770)       *)
LEMMA BetweenOrderly ==
  ASSUME Inv, Orderly, Served,
         ForceCommand \/ WriteControl \/ WriteTrack \/ WriteSector
  PROVE  Orderly'
<1>1. ~Busy(w) /\ w \in Controller
  BY DEF Served, ForceCommand, WriteControl, WriteTrack, WriteSector, Inv,
         TypeOK
<1>2. w'.fdctime = "none"
  <2>1. CASE ForceCommand
    BY <1>1, <2>1, EndFields DEF ForceCommand
  <2>2. CASE WriteControl
    BY <1>1, <2>2, NothingUnderway DEF WriteControl
  <2>3. CASE WriteTrack
    <3>1. PICK t \in Tracks : w' = [w EXCEPT !.track = t]
      BY <2>3 DEF WriteTrack
    <3> QED  BY <1>1, <3>1, RegisterFields, NothingUnderway
  <2>4. CASE WriteSector
    <3>1. PICK s \in SectorNumbers : w' = [w EXCEPT !.sector = s]
      BY <2>4 DEF WriteSector
    <3> QED  BY <1>1, <3>1, RegisterFields, NothingUnderway
  <2> QED  BY <2>1, <2>2, <2>3, <2>4
<1>3. UNCHANGED <<handler, mounted, sndddnoise, sstat, op, noHandler>>
  BY DEF ForceCommand, WriteControl, WriteTrack, WriteSector, RestUnchanged,
         MediaUnchanged
<1> QED  BY <1>1, <1>2, <1>3, NothingUnderway, IdleOrderly

(* The data register is served in step with the command.  (write1770,       *)
(* read1770)                                                                *)
LEMMA DataOrderly ==
  ASSUME Inv, Orderly, Served, WriteData \/ ReadData
  PROVE  Orderly'
<1>1. w \in Controller
  BY DEF Inv, TypeOK
<1>2. /\ w'.command = w.command /\ Busy(w') <=> Busy(w)
      /\ w'.fdctime = w.fdctime
      /\ op.write => w'.written
  <2>1. CASE WriteData
    <3>1. PICK b \in CpuBytes : w' = WriteDataRegister(w, b)
      BY <2>1 DEF WriteData
    <3> QED  BY <1>1, <3>1, RegisterFields
  <2>2. CASE ReadData
    <3>1. w' = ReadDataRegister(w) /\ w.command # "write"
      BY <2>2 DEF ReadData, Served
    <3>2. ~op.write
      BY <3>1 DEF Orderly, Underway
    <3> QED  BY <1>1, <3>1, <3>2, RegisterFields
  <2> QED  BY <2>1, <2>2
<1>3. UNCHANGED <<handler, mounted, sndddnoise, sstat, op, noHandler, trackc,
                  curdrive>>
  BY DEF WriteData, ReadData, RestUnchanged, MediaUnchanged,
         SelectionUnchanged
<1> QED  BY <1>2, <1>3 DEF Orderly, Underway, Searching

(* The timers end commands with nothing in progress.  (exec6502,            *)
(* callback1770, mixddnoise)                                                *)
LEMMA TimersOrderly ==
  ASSUME Inv, Orderly, FdcTimer \/ SpinTimer \/ MixNoise
  PROVE  Orderly'
<1>0. w \in Controller /\ w.fdctime \in {"none", "seek", "finish"}
      /\ op.notfound \in Nat /\ noHandler \in Nat
  BY OneOperation DEF Inv, TypeOK, Controller
<1>1. CASE FdcTimer
  <2>1. /\ w.fdctime # "none" /\ w' = Callback(w)
        /\ UNCHANGED <<op, noHandler, sndddnoise, sstat, handler, mounted>>
    BY <1>1 DEF FdcTimer, RestUnchanged, MediaUnchanged
  <2>2. /\ ~op.read /\ ~op.write /\ ~op.address /\ ~op.format
        /\ op.notfound = 0 /\ noHandler = 0 /\ ~(sndddnoise /\ sstat > 0)
    BY <1>0, <2>1 DEF Orderly, Underway, Searching
  <2> QED  BY <1>0, <2>1, <2>2, CallbackFields, IdleOrderly
<1>2. CASE SpinTimer
  <2>1. ~Busy(w) /\ w' = [SpinDown(w) EXCEPT !.motorspin = FALSE]
        /\ UNCHANGED <<op, noHandler, sndddnoise, sstat, handler, mounted>>
    BY <1>2 DEF SpinTimer, RestUnchanged, MediaUnchanged, Inv, Sound
  <2>2. w'.fdctime = w.fdctime
    BY <1>0, <2>1, RegisterFields
  <2> QED  BY <2>1, <2>2, NothingUnderway, IdleOrderly
<1>3. CASE MixNoise
  <2>1. /\ sndddnoise /\ sstat' = -1
        /\ w' = IF sstat > 0 THEN [w EXCEPT !.fdctime = "seek"] ELSE w
        /\ UNCHANGED <<op, noHandler, handler, mounted, trackc, curdrive>>
    BY <1>3 DEF MixNoise, MediaUnchanged, SelectionUnchanged
  <2>2. CASE sstat > 0
    <3>1. w' = [w EXCEPT !.fdctime = "seek"]
      BY <2>1, <2>2
    <3>2. w'.fdctime = "seek" /\ (Busy(w') <=> Busy(w)) /\ w'.command = w.command
      BY <1>0, <3>1, SMT DEF Controller, Busy
    <3>3. Busy(w) /\ w.command \in SeekCommands
      BY <2>1, <2>2 DEF Orderly
    <3>4. /\ ~op.read /\ ~op.write /\ ~op.address /\ ~op.format
          /\ op.notfound = 0 /\ noHandler = 0
      BY <1>0, <3>3, CommandsDiffer DEF Orderly, Underway, Searching
    <3>5. ~(sndddnoise' /\ sstat' > 0)
      BY <2>1
    <3>6. \A d \in Drives : handler'[d] <=> mounted'[d] # NoDisc
      BY <2>1 DEF Orderly
    <3>7. /\ ~op'.read /\ ~op'.write /\ ~op'.address /\ ~op'.format
          /\ op'.notfound = 0 /\ noHandler' = 0
      BY <2>1, <3>4
    <3> QED  BY <3>2, <3>3, <3>5, <3>6, <3>7 DEF Orderly
  <2>3. CASE ~(sstat > 0)
    <3>1. w' = w /\ ~(sndddnoise' /\ sstat' > 0)
      BY <2>1, <2>3
    <3> QED  BY <2>1, <3>1 DEF Orderly, Underway, Searching
  <2> QED  BY <2>2, <2>3
<1> QED  BY <1>1, <1>2, <1>3

(* A poll leaves its operation in order or ended.  (ssd_poll, disc_poll)    *)
LEMMA PollOrderly ==
  ASSUME Inv, Orderly, Served, DiscPoll
  PROVE  Orderly'
<1>1. /\ w \in Controller /\ op \in Operation /\ ~Requesting(w)
      /\ noHandler' = (IF noHandler = 0 THEN 0 ELSE noHandler - 1)
      /\ op.notfound \in Nat /\ noHandler \in Nat
      /\ UNCHANGED <<handler, mounted, sndddnoise, sstat, trackc, curdrive>>
  BY OneOperation
     DEF Inv, TypeOK, DiscPoll, Served, MediaUnchanged, SelectionUnchanged
<1> DEFINE Quiet(o) == /\ ~o.read /\ ~o.write /\ ~o.address /\ ~o.format
                       /\ o.notfound = 0
<1>2. ASSUME op.read \/ op.write \/ op.address \/ op.format
      PROVE  /\ noHandler' = 0 /\ op.notfound = 0 /\ Busy(w)
             /\ w.command \in TransferCommands /\ w.fdctime = "none"
             /\ ~(sndddnoise' /\ sstat' > 0)
  BY <1>1, <1>2, CommandsDiffer DEF Orderly, Underway
<1>3. ASSUME op.read \/ op.write \/ op.address \/ op.format,
             Quiet(op'), w'.fdctime = "none"
      PROVE  Orderly'
  BY <1>1, <1>2, <1>3, IdleOrderly
<1>4. ASSUME op.read \/ op.write \/ op.address \/ op.format,
             Quiet(op'), Busy(w'), w'.command = w.command,
             w'.fdctime = "finish"
      PROVE  Orderly'
  BY <1>1, <1>2, <1>4 DEF Orderly
<1>5. ASSUME op.read \/ op.write \/ op.address \/ op.format,
             op'.read = op.read, op'.write = op.write,
             op'.address = op.address, op'.format = op.format,
             op'.drive = op.drive, op'.track = op.track,
             op'.notfound = op.notfound,
             Busy(w'), w'.command = w.command, w'.fdctime = "none",
             op.write => Requesting(w')
      PROVE  Orderly'
  BY <1>1, <1>2, <1>5 DEF Orderly, Underway
<1> HIDE DEF Quiet
<1>6. CASE op.read
  <2> DEFINE sent == FdcData(w, buffer[op.drive][SectorBase + op.pos])
             last == op.pos + 1 = SectorSize
             o == [op EXCEPT !.read = ~last, !.pos = op.pos + 1]
  <2>1. Leaves(IF last THEN FdcFinishRead(sent) ELSE sent, o, buffer, image)
    BY <1>6, PollReads
  <2>2. /\ sent \in Controller /\ Busy(sent) /\ sent.command = w.command
        /\ sent.fdctime = w.fdctime
    <3>1. buffer[op.drive][SectorBase + op.pos] \in Bytes
      <4>1. SectorBase + op.pos \in Positions
        BY <1>6, ReadsWithinBuffer DEF SectorBase
      <4>2. buffer \in [Drives -> [Positions -> Bytes]] /\ op.drive \in Drives
        BY OneOperation DEF Inv, TypeOK
      <4> QED  BY <4>1, <4>2
    <3>2. w \in Good
      BY DEF Inv, TypeOK, Good
    <3>3. sent \in Good
      BY <3>1, <3>2, DriveCallsGood
    <3> QED  BY <1>1, <1>2, <1>6, <3>3, FdcDataFields DEF Good
  <2> HIDE DEF last
  <2>3. /\ o.read = ~last /\ o.write = op.write /\ o.address = op.address
        /\ o.format = op.format /\ o.notfound = op.notfound
        /\ o.drive = op.drive /\ o.track = op.track
    BY <1>1, SMT DEF Operation
  <2> HIDE DEF o, sent
  <2>4. CASE last
    <3>1. w' = FdcFinishRead(sent) /\ op' = o
      BY <2>1, <2>4 DEF Leaves
    <3>2. Quiet(op')
      BY <1>2, <1>6, <2>3, <2>4, <3>1, OneOperation DEF Quiet
    <3> QED  BY <1>4, <1>6, <2>2, <3>1, <3>2, FinishFields
  <2>5. CASE ~last
    <3>1. w' = sent /\ op' = o /\ o.read = op.read
      BY <1>6, <2>1, <2>3, <2>5 DEF Leaves, Operation
    <3> QED  BY <1>2, <1>5, <1>6, <2>2, <2>3, <3>1, OneOperation
  <2> QED  BY <2>4, <2>5
<1>7. CASE op.write
  <2> DEFINE last == op.pos + 1 = SectorSize
             got == FdcGetData(w, last)
             next == [op EXCEPT !.pos = op.pos + 1]
             done == [op EXCEPT !.pos = op.pos + 1, !.write = FALSE]
             off == [op EXCEPT !.write = FALSE]
  <2>1. w.written
    BY <1>1, <1>7 DEF Orderly
  <2>2. \/ w' = FdcWriteProtect(w) /\ op' = off
        \/ ~last /\ w' = got /\ op' = next
        \/ last /\ w' = FdcFinishRead(got) /\ op' = done
    BY <1>7, <2>1, PollWrites DEF Leaves
  <2>3. /\ got \in Controller /\ Busy(got) /\ got.command = w.command
        /\ got.fdctime = w.fdctime /\ (~last => Requesting(got))
    <3> HIDE DEF last
    <3>1. last \in BOOLEAN
      BY DEF last
    <3>2. w \in Good
      BY DEF Inv, TypeOK, Good
    <3>3. got \in Good
      BY <1>1, <3>1, <3>2, DriveCallsGood DEF Inv, TypeOK
    <3> QED  BY <1>1, <1>2, <1>7, <2>1, <3>1, <3>3, FdcGetDataFields DEF Good
  <2>4. /\ done.read = op.read /\ done.write = FALSE
        /\ done.address = op.address /\ done.format = op.format
        /\ done.notfound = op.notfound
    BY <1>1, SMT DEF Operation
  <2>5. /\ off.read = op.read /\ off.write = FALSE
        /\ off.address = op.address /\ off.format = op.format
        /\ off.notfound = op.notfound
    BY <1>1, SMT DEF Operation
  <2>6. /\ next.read = op.read /\ next.write = op.write
        /\ next.address = op.address /\ next.format = op.format
        /\ next.notfound = op.notfound
        /\ next.drive = op.drive /\ next.track = op.track
    BY <1>1, SMT DEF Operation
  <2> HIDE DEF last, got, next, done, off
  <2>7. Quiet(done) /\ Quiet(off)
    BY <1>2, <1>7, <2>4, <2>5, OneOperation DEF Quiet
  <2>8. CASE w' = FdcWriteProtect(w) /\ op' = off
    BY <1>1, <1>3, <1>7, <2>7, <2>8, EndFields
  <2>9. CASE ~last /\ w' = got /\ op' = next
    BY <1>2, <1>5, <1>7, <2>3, <2>6, <2>9
  <2>10. CASE last /\ w' = FdcFinishRead(got) /\ op' = done
    BY <1>4, <1>7, <2>3, <2>7, <2>10, FinishFields
  <2> QED  BY <2>2, <2>8, <2>9, <2>10
<1>8. CASE op.address
  <2> DEFINE o == [op EXCEPT !.address = op.pos # AddressBytes,
                             !.pos = op.pos + 1]
             sends == op.pos < AddressBytes
             ends == op.pos = AddressBytes
  <2>1. /\ op' = o
        /\ \/ sends /\ \E b \in Bytes : w' = FdcData(w, b)
           \/ ends /\ w' = FdcFinishRead(w)
           \/ ~ends /\ w' = w
    BY <1>8, PollAddresses, OneOperation DEF Leaves
  <2>2. /\ o.read = op.read /\ o.write = op.write
        /\ (o.address <=> ~ends) /\ o.format = op.format
        /\ o.notfound = op.notfound /\ o.drive = op.drive
        /\ o.track = op.track
    <3> DEFINE f == op.pos # AddressBytes
    <3> HIDE DEF f
    <3>1. LET v == [op EXCEPT !.address = f, !.pos = op.pos + 1]
          IN  /\ v.read = op.read /\ v.write = op.write /\ v.address = f
              /\ v.format = op.format /\ v.notfound = op.notfound
              /\ v.drive = op.drive /\ v.track = op.track
      BY <1>1, SMT DEF Operation
    <3> QED  BY <3>1, Zenon DEF f
  <2>3. sends => ~ends
    BY OneOperation
  <2> HIDE DEF o, sends, ends
  <2>4. CASE ends
    <3>1. Quiet(op')
      BY <1>2, <1>8, <2>1, <2>2, <2>4, OneOperation DEF Quiet
    <3> QED  BY <1>1, <1>2, <1>4, <1>8, <2>1, <2>3, <2>4, <3>1, FinishFields
  <2>5. CASE ~ends
    <3>1. /\ Busy(w') /\ w'.command = w.command /\ w'.fdctime = "none"
      BY <1>1, <1>2, <1>8, <2>1, <2>5, FdcDataFields
    <3>2. ~op.write /\ op'.address = op.address
      BY <1>1, <1>8, <2>1, <2>2, <2>5, OneOperation DEF Operation
    <3> QED  BY <1>5, <1>8, <2>1, <2>2, <3>1, <3>2
  <2> QED  BY <2>4, <2>5
<1>9. CASE op.format
  <2> DEFINE next == [op EXCEPT !.pos = op.pos + 1]
             turned == [op EXCEPT !.pos = 0, !.sector = op.sector + 1]
             done == [op EXCEPT !.pos = 0, !.sector = op.sector + 1,
                                !.format = FALSE]
             off == [op EXCEPT !.format = FALSE]
  <2>1. \/ w' = FdcWriteProtect(w) /\ op' = off
        \/ w' = w /\ op' \in {next, turned}
        \/ w' = FdcFinishRead(w) /\ op' = done
    BY <1>9, PollFormats DEF Leaves
  <2>2. /\ done.read = op.read /\ done.write = op.write
        /\ done.address = op.address /\ done.format = FALSE
        /\ done.notfound = op.notfound
    BY <1>1, SMT DEF Operation
  <2>3. /\ off.read = op.read /\ off.write = op.write
        /\ off.address = op.address /\ off.format = FALSE
        /\ off.notfound = op.notfound
    BY <1>1, SMT DEF Operation
  <2>4. \A o \in {next, turned} :
          /\ o.read = op.read /\ o.write = op.write
          /\ o.address = op.address /\ o.format = op.format
          /\ o.notfound = op.notfound
          /\ o.drive = op.drive /\ o.track = op.track
    <3> DEFINE Kept(o) ==
                 /\ o.read = op.read /\ o.write = op.write
                 /\ o.address = op.address /\ o.format = op.format
                 /\ o.notfound = op.notfound
                 /\ o.drive = op.drive /\ o.track = op.track
    <3>1. Kept([op EXCEPT !.pos = op.pos + 1])
      BY <1>1, SMT DEF Operation
    <3>2. Kept([op EXCEPT !.pos = 0, !.sector = op.sector + 1])
      BY <1>1, SMT DEF Operation
    <3> QED  BY <3>1, <3>2
  <2> HIDE DEF next, turned, done, off
  <2>5. Quiet(done) /\ Quiet(off)
    BY <1>2, <1>9, <2>2, <2>3, OneOperation DEF Quiet
  <2>6. CASE w' = FdcWriteProtect(w) /\ op' = off
    BY <1>1, <1>3, <1>9, <2>5, <2>6, EndFields
  <2>7. CASE w' = w /\ op' \in {next, turned}
    BY <1>2, <1>5, <1>9, <2>4, <2>7, OneOperation
  <2>8. CASE w' = FdcFinishRead(w) /\ op' = done
    BY <1>1, <1>2, <1>4, <1>9, <2>5, <2>8, FinishFields
  <2> QED  BY <2>1, <2>6, <2>7, <2>8
<1>10. CASE ~op.read /\ ~op.write /\ ~op.address /\ ~op.format
  <2> DEFINE fewer == [op EXCEPT !.notfound = @ - 1]
  <2>1. \/ w' = w /\ op' = op /\ noHandler # 1
        \/ noHandler = 1 /\ w' = FdcNotFound(w) /\ op' = op
        \/ /\ op.notfound > 0 /\ op' = fewer
           /\ w' = IF op.notfound = 1 THEN FdcNotFound(w) ELSE w
    BY <1>10, PollIdle DEF Leaves
  <2>2. /\ fewer.read = op.read /\ fewer.write = op.write
        /\ fewer.address = op.address /\ fewer.format = op.format
        /\ fewer.notfound = op.notfound - 1
    BY <1>1, SMT DEF Operation
  <2> HIDE DEF fewer
  <2>3. CASE w' = w /\ op' = op /\ noHandler # 1
    <3>1. /\ ~op'.read /\ ~op'.write /\ ~op'.address /\ ~op'.format
          /\ noHandler' > 0 => noHandler > 0
      BY <1>1, <1>10, <2>3
    <3> QED  BY <1>1, <2>3, <3>1 DEF Orderly, Searching
  <2>4. CASE noHandler = 1 /\ w' = FdcNotFound(w) /\ op' = op
    <3>1. noHandler' = 0 /\ op'.notfound = 0 /\ ~(sndddnoise' /\ sstat' > 0)
      BY <1>1, <2>4, CommandsDiffer, OneOperation DEF Orderly, Searching
    <3> QED  BY <1>1, <1>10, <2>4, <3>1, EndFields, IdleOrderly
  <2>5. CASE /\ op.notfound > 0 /\ op' = fewer
             /\ w' = IF op.notfound = 1 THEN FdcNotFound(w) ELSE w
    <3>1. /\ noHandler' = 0 /\ ~(sndddnoise' /\ sstat' > 0) /\ Searching
      BY <1>1, <2>5, CommandsDiffer DEF Orderly, Searching
    <3>2. ~op'.read /\ ~op'.write /\ ~op'.address /\ ~op'.format
      BY <1>10, <2>2, <2>5
    <3>3. CASE op.notfound = 1
      BY <1>1, <2>2, <2>5, <3>1, <3>2, <3>3, EndFields, IdleOrderly
    <3>4. CASE op.notfound # 1
      BY <1>1, <2>5, <3>1, <3>2, <3>4 DEF Orderly, Searching
    <3> QED  BY <3>3, <3>4
  <2> QED  BY <2>1, <2>3, <2>4, <2>5
<1> QED  BY <1>6, <1>7, <1>8, <1>9, <1>10

(* The steps there are with a driver that waits and a user who stays away   *)
LEMMA ServedSteps ==
  ASSUME Served, [Next]_vars
  PROVE  \/ UNCHANGED vars
         \/ \E cmd \in SeekCommands : SeekCommand(cmd)
         \/ \E cmd \in TransferCommands : TransferCommand(cmd)
         \/ ForceCommand \/ WriteControl \/ WriteTrack \/ WriteSector
         \/ WriteData \/ ReadData
         \/ DiscPoll
         \/ FdcTimer \/ SpinTimer \/ MixNoise
<1>1. ~User
  BY DEF Served, User, Eject, ToggleWriteProtect, Load, ToggleNoise
<1> QED  BY <1>1 DEF Next, Cpu, Timers, WriteCommand

(* The controller and ssd.c stay in step: for a driver that waits, an       *)
(* operation is in progress only for the command that runs, and no timer    *)
(* ends a command before its operation is over.                             *)
LEMMA OrderlyHolds == ASSUME Served PROVE Spec => []Orderly
<1>1. Init => Orderly
  <2> SUFFICES ASSUME Init PROVE Orderly
    OBVIOUS
  <2>1. /\ ~op.read /\ ~op.write /\ ~op.address /\ ~op.format
        /\ op.notfound = 0 /\ noHandler = 0 /\ w.fdctime = "none"
        /\ sstat = -1
    BY SMT DEF Init, NoOperation, FreshController
  <2>2. \A d \in Drives : handler[d] <=> mounted[d] # NoDisc
    BY DEF Init
  <2> QED  BY <2>1, <2>2 DEF Orderly
<1>2. Inv /\ Orderly /\ [Next]_vars => Orderly'
  <2> SUFFICES ASSUME Inv, Orderly, [Next]_vars PROVE Orderly'
    OBVIOUS
  <2>1. CASE UNCHANGED vars
    BY <2>1 DEF vars, Orderly, Underway, Searching
  <2> QED  BY <2>1, ServedSteps, SeekOrderly, TransferOrderly,
              BetweenOrderly, DataOrderly, PollOrderly, TimersOrderly
<1> QED  BY <1>1, <1>2, InvHolds, PTL DEF Spec

-----------------------------------------------------------------------------
(* An operation in progress leaves nothing to the timers but the noise.     *)
LEMMA TimersWait ==
  ASSUME Inv, Orderly, FdcTimer \/ SpinTimer \/ MixNoise,
         op.read \/ op.write \/ op.address \/ op.format
  PROVE  w' = w
<1>1. /\ w.fdctime = "none" /\ Busy(w)
      /\ ~(sndddnoise /\ sstat > 0)
  BY CommandsDiffer DEF Orderly, Underway
<1> QED  BY <1>1 DEF FdcTimer, SpinTimer, MixNoise, Inv, Sound

(* What the steps but the polls and the head movements leave alone          *)
LEMMA Untouched ==
  ASSUME \/ UNCHANGED vars
         \/ \E cmd \in TransferCommands : TransferCommand(cmd)
         \/ ForceCommand \/ WriteControl \/ WriteTrack \/ WriteSector
         \/ WriteData \/ ReadData \/ FdcTimer \/ SpinTimer \/ MixNoise
  PROVE  /\ UNCHANGED <<buffer, image, trackc, mounted>>
         /\ ~(\E cmd \in TransferCommands : TransferCommand(cmd)) =>
              UNCHANGED op
  BY DEF vars, TransferCommand, ForceCommand, WriteControl, WriteTrack,
         WriteSector, WriteData, ReadData, FdcTimer, SpinTimer, MixNoise,
         RestUnchanged, MediaUnchanged

(* What waits to be written is a byte the CPU supplied for this write.      *)
Supplied == op.write /\ ~Requesting(w) => w.data \in CpuBytes

(* The inductive invariant behind TracksNotMixed                            *)
OwnTracks == TracksNotMixed /\ Supplied

(* What a seek reads into a buffer at a place where an image began with a   *)
(* byte is the image's: the file still has one there.  (ssd_seek)           *)
LEMMA ReadOwn ==
  ASSUME NEW disc \in Discs, NEW t \in Tracks, NEW p \in Positions,
         NEW file, NEW before, Own(disc, t, p, file[t][p])
  PROVE  Own(disc, t, p, Read(file, t, before)[p])
<1> SUFFICES ASSUME Original[disc][t][p] # EndOfFile
             PROVE  Read(file, t, before)[p]
                      \in CpuBytes \cup {0, Original[disc][t][p]}
  BY DEF Own
<1>1. file[t][p] \in CpuBytes \cup {0, Original[disc][t][p]}
  BY DEF Own
<1>2. EndOfFile \notin CpuBytes \cup {0, Original[disc][t][p]}
  <2>1. EndOfFile \notin CpuBytes /\ EndOfFile # 0
    BY DEF EndOfFile
  <2> QED  BY <2>1
<1>3. file[t][p] # EndOfFile
  BY <1>1, <1>2
<1>4. Read(file, t, before)[p] = file[t][p]
  BY <1>3 DEF Read
<1> QED  BY <1>1, <1>4

(* Before the first command buffers are blank and discs as they came.       *)
LEMMA InitOwn == ASSUME Init PROVE OwnTracks
<1>1. ~op.write
  BY SMT DEF Init, NoOperation
<1>2. BuffersOwn
  BY DEF Init, BuffersOwn, Own
<1>3. TracksNotMixed
  BY <1>2, Zenon DEF Init, TracksNotMixed, Own
<1> QED  BY <1>1, <1>3 DEF OwnTracks, Supplied

(* A head movement fills the buffer from the track it names.  (ssd_seek)    *)
LEMMA SeekOwn ==
  ASSUME Inv, Orderly, OwnTracks, NEW cmd \in SeekCommands, SeekCommand(cmd)
  PROVE  OwnTracks'
<1> DEFINE t == SeekTarget(w, cmd)
           disc == mounted[curdrive]
<1>1. /\ UNCHANGED <<op, mounted, image>>
      /\ trackc' = IF handler[curdrive] /\ disc # NoDisc
                   THEN [trackc EXCEPT ![curdrive] = t] ELSE trackc
      /\ buffer' = IF handler[curdrive] THEN Sought(curdrive, t) ELSE buffer
  BY DEF SeekCommand, DiscSeek, MediaUnchanged
<1>2. ~op.write
  BY CommandsDiffer, NothingUnderway DEF SeekCommand, Accepts
<1>3. Supplied'
  BY <1>1, <1>2 DEF Supplied
<1>4. /\ curdrive \in Drives /\ (handler[curdrive] <=> disc # NoDisc)
      /\ trackc \in [Drives -> Tracks]
      /\ buffer \in [Drives -> [Positions -> Bytes]]
      /\ disc \in Discs \cup {NoDisc} /\ t \in Tracks
  BY SeekInBound DEF Inv, TypeOK, Orderly
<1> HIDE DEF t
<1>5. BuffersOwn'
  <2> SUFFICES ASSUME NEW d \in Drives, NEW p \in Positions,
                      mounted'[d] # NoDisc
               PROVE  Own(mounted'[d], trackc'[d], p, buffer'[d][p])
    BY Zenon DEF BuffersOwn, Own
  <2>1. CASE d # curdrive \/ disc = NoDisc
    <3>1. buffer'[d] = buffer[d] /\ trackc'[d] = trackc[d]
      BY <1>1, <1>4, <2>1 DEF Sought
    <3>2. Own(mounted[d], trackc[d], p, buffer[d][p])
      BY <1>1 DEF OwnTracks, TracksNotMixed, BuffersOwn
    <3> QED  BY <1>1, <3>1, <3>2
  <2>2. CASE d = curdrive /\ disc # NoDisc
    <3> DEFINE row == Read(image[disc], t, buffer[d])
    <3>1. trackc'[d] = t
      BY <1>1, <1>4, <2>2
    <3>2. buffer' = [buffer EXCEPT ![d] = row]
      BY <1>1, <1>4, <2>2, Zenon DEF Sought
    <3>3. buffer'[d] = row
      <4> HIDE DEF row
      <4> QED  BY <1>4, <3>2
    <3>4. Own(disc, t, p, image[disc][t][p])
      BY <1>4, <2>2 DEF OwnTracks, TracksNotMixed
    <3>5. Own(disc, t, p, row[p])
      BY <1>4, <2>2, <3>4, ReadOwn
    <3> QED  BY <1>1, <2>2, <3>1, <3>3, <3>5
  <2> QED  BY <2>1, <2>2
<1>6. TracksNotMixed'
  BY <1>1, <1>5 DEF OwnTracks, TracksNotMixed
<1> QED  BY <1>3, <1>6 DEF OwnTracks

(* A track that is written back, and the gap before it, hold what is theirs. *)
LEMMA WrittenOwn ==
  ASSUME NEW disc \in Discs, NEW track \in Tracks, NEW file, NEW bytes,
         \A t \in Tracks, p \in Positions : Own(disc, t, p, file[t][p]),
         \A p \in Positions : Own(disc, track, p, bytes[p]),
         NEW t \in Tracks, NEW p \in Positions
  PROVE  Own(disc, t, p, Written(file, track, bytes)[t][p])
<1> DEFINE zeros == [q \in Positions |-> 0]
           row == Read(file, t, zeros)
<1>1. Written(file, track, bytes)[t]
        = IF t = track THEN bytes ELSE IF t < track THEN row ELSE file[t]
  BY Zenon DEF Written
<1>2. Own(disc, t, p, row[p])
  BY ReadOwn
<1> HIDE DEF row
<1> QED  BY <1>1, <1>2, Zenon

(* A byte of the CPU's or a blank goes into a buffer, and then perhaps the  *)
(* buffer to the track it came from.  (ssd_writeback)                       *)
LEMMA StoreOwn ==
  ASSUME Inv, OwnTracks, UNCHANGED <<trackc, mounted>>,
         NEW d \in Drives, mounted[d] # NoDisc,
         NEW x \in Positions, NEW b \in CpuBytes \cup {0},
         buffer' = [buffer EXCEPT ![d][x] = b],
         \/ image' = image
         \/ image' = [image EXCEPT ![mounted[d]] =
                        Written(image[mounted[d]], trackc[d], buffer'[d])]
  PROVE  TracksNotMixed'
<1>1. /\ buffer \in [Drives -> [Positions -> Bytes]]
      /\ image \in [Discs -> Files] /\ trackc \in [Drives -> Tracks]
      /\ mounted[d] \in Discs
  BY DEF Inv, TypeOK
<1>2. BuffersOwn'
  <2> SUFFICES ASSUME NEW e \in Drives, NEW p \in Positions,
                      mounted[e] # NoDisc
               PROVE  Own(mounted[e], trackc[e], p, buffer'[e][p])
    BY Zenon DEF BuffersOwn, Own
  <2>1. buffer'[e][p] \in {b, buffer[e][p]}
    BY <1>1
  <2>2. Own(mounted[e], trackc[e], p, buffer[e][p])
    BY DEF OwnTracks, TracksNotMixed, BuffersOwn
  <2> QED  BY <2>1, <2>2 DEF Own
<1>3. ASSUME NEW disc \in Discs, NEW t \in Tracks, NEW p \in Positions
      PROVE  Own(disc, t, p, image'[disc][t][p])
  <2>1. Own(disc, t, p, image[disc][t][p])
    BY DEF OwnTracks, TracksNotMixed
  <2>2. CASE image'[disc] = image[disc]
    BY <2>1, <2>2
  <2>3. CASE image'[disc] # image[disc]
    <3> DEFINE bytes == buffer'[d]
               file == Written(image[mounted[d]], trackc[d], bytes)
    <3>1. image' = [image EXCEPT ![mounted[d]] = file]
      BY <2>3
    <3>2. mounted[d] = disc /\ image'[disc] = file
      <4> HIDE DEF file
      <4> QED  BY <1>1, <2>3, <3>1
    <3>3. \A q \in Positions : Own(disc, trackc[d], q, bytes[q])
      BY <1>2, <3>2 DEF BuffersOwn
    <3>4. \A u \in Tracks, q \in Positions :
            Own(disc, u, q, image[disc][u][q])
      BY DEF OwnTracks, TracksNotMixed
    <3>5. trackc[d] \in Tracks
      BY <1>1
    <3> HIDE DEF bytes
    <3>6. Own(disc, t, p, Written(image[disc], trackc[d], bytes)[t][p])
      BY <3>3, <3>4, <3>5, WrittenOwn
    <3> QED  BY <3>2, <3>6
  <2> QED  BY <2>2, <2>3
<1>4. \A disc \in Discs, t \in Tracks, p \in Positions :
        Own(disc, t, p, image'[disc][t][p])
  BY <1>3
<1> QED  BY <1>2, <1>4, Zenon DEF TracksNotMixed, Own

(* A poll moves bytes of the track in the buffer only.  (ssd_poll)          *)
LEMMA PollOwn ==
  ASSUME Inv, Orderly, Served, OwnTracks, DiscPoll, Orderly'
  PROVE  OwnTracks'
<1>1. /\ ~Requesting(w) /\ w \in Controller /\ op \in Operation
      /\ UNCHANGED <<trackc, mounted, curdrive>>
  BY DEF DiscPoll, Served, MediaUnchanged, SelectionUnchanged, Inv, TypeOK
<1>2. ASSUME ~op'.write, UNCHANGED <<buffer, image>>
      PROVE  OwnTracks'
  BY <1>1, <1>2 DEF OwnTracks, TracksNotMixed, BuffersOwn, Own, Supplied
<1>3. CASE op.read
  <2>1. op' = [op EXCEPT !.read = ~(op.pos + 1 = SectorSize),
                         !.pos = op.pos + 1]
        /\ UNCHANGED <<buffer, image>>
    BY <1>3, PollReads DEF Leaves
  <2>2. op'.write = op.write
    BY <1>1, <2>1, SMT DEF Operation
  <2> QED  BY <1>2, <1>3, <2>1, <2>2, OneOperation
<1>4. CASE op.address
  <2>1. op' = [op EXCEPT !.address = op.pos # AddressBytes,
                         !.pos = op.pos + 1]
        /\ UNCHANGED <<buffer, image>>
    BY <1>4, PollAddresses DEF Leaves
  <2>2. op'.write = op.write
    BY <1>1, <2>1, SMT DEF Operation
  <2> QED  BY <1>2, <1>4, <2>1, <2>2, OneOperation
<1>5. CASE ~op.read /\ ~op.write /\ ~op.address /\ ~op.format
  <2>1. op' \in {op, [op EXCEPT !.notfound = @ - 1]}
        /\ UNCHANGED <<buffer, image>>
    BY <1>5, PollIdle DEF Leaves
  <2>2. op'.write = op.write
    BY <1>1, <2>1, SMT DEF Operation
  <2> QED  BY <1>2, <1>5, <2>1, <2>2
<1>6. CASE op.write
  <2> DEFINE last == op.pos + 1 = SectorSize
             x == SectorBase + op.pos
  <2>1. w.written /\ Busy(w) /\ w.data \in CpuBytes
    BY <1>1, <1>6 DEF Orderly, Underway, OwnTracks, Supplied
  <2>2. op.drive \in Drives /\ mounted[op.drive] # NoDisc
        /\ op.track = trackc[op.drive]
    BY <1>6, AtSelected, OneOperation
  <2>3. \/ op' = [op EXCEPT !.write = FALSE] /\ UNCHANGED <<buffer, image>>
        \/ /\ ~last /\ w' = FdcGetData(w, last)
           /\ op' = [op EXCEPT !.pos = op.pos + 1]
           /\ buffer' = [buffer EXCEPT ![op.drive][x] = w.data]
           /\ image' = image
        \/ /\ op' = [op EXCEPT !.pos = op.pos + 1, !.write = FALSE]
           /\ buffer' = [buffer EXCEPT ![op.drive][x] = w.data]
           /\ image' = [image EXCEPT ![mounted[op.drive]] =
                         Written(image[mounted[op.drive]], op.track,
                                 buffer'[op.drive])]
    BY <1>6, <2>1, PollWrites DEF Leaves
  <2>4. x \in Positions
    BY <1>6, WritesWithinBuffer DEF SectorBase
  <2>5. /\ [op EXCEPT !.write = FALSE].write = FALSE
        /\ [op EXCEPT !.pos = op.pos + 1, !.write = FALSE].write = FALSE
    BY <1>1, SMT DEF Operation
  <2>6. ~last /\ w' = FdcGetData(w, last) => Requesting(w')
    <3> HIDE DEF last
    <3>1. last \in BOOLEAN
      BY DEF last
    <3> QED  BY <1>1, <2>1, <3>1, FdcGetDataFields
  <2> HIDE DEF x, last
  <2>7. CASE op' = [op EXCEPT !.write = FALSE] /\ UNCHANGED <<buffer, image>>
    BY <1>2, <2>5, <2>7
  <2>8. CASE /\ ~last /\ w' = FdcGetData(w, last)
             /\ buffer' = [buffer EXCEPT ![op.drive][x] = w.data]
             /\ image' = image
    <3>1. TracksNotMixed'
      BY <1>1, <2>1, <2>2, <2>4, <2>8, StoreOwn
    <3> QED  BY <2>6, <2>8, <3>1 DEF OwnTracks, Supplied
  <2>9. CASE /\ op' = [op EXCEPT !.pos = op.pos + 1, !.write = FALSE]
             /\ buffer' = [buffer EXCEPT ![op.drive][x] = w.data]
             /\ image' = [image EXCEPT ![mounted[op.drive]] =
                           Written(image[mounted[op.drive]], op.track,
                                   buffer'[op.drive])]
    <3>1. image' = [image EXCEPT ![mounted[op.drive]] =
                      Written(image[mounted[op.drive]], trackc[op.drive],
                              buffer'[op.drive])]
      BY <2>2, <2>9
    <3>2. w.data \in CpuBytes \cup {0}
      BY <2>1
    <3>3. TracksNotMixed'
      BY <1>1, <2>2, <2>4, <2>9, <3>1, <3>2, StoreOwn
    <3> QED  BY <2>5, <2>9, <3>3 DEF OwnTracks, Supplied
  <2> QED  BY <2>3, <2>7, <2>8, <2>9
<1>7. CASE op.format
  <2> DEFINE x == SectorBase + op.pos
             i == [image EXCEPT ![mounted[op.drive]] =
                     Written(image[mounted[op.drive]], op.track,
                             buffer'[op.drive])]
  <2>1. op.drive \in Drives /\ mounted[op.drive] # NoDisc
        /\ op.track = trackc[op.drive]
    BY <1>7, AtSelected, OneOperation
  <2>2. /\ op' \in {[op EXCEPT !.format = FALSE],
                    [op EXCEPT !.pos = op.pos + 1],
                    [op EXCEPT !.pos = 0, !.sector = op.sector + 1],
                    [op EXCEPT !.pos = 0, !.sector = op.sector + 1,
                               !.format = FALSE]}
        /\ \/ UNCHANGED <<buffer, image>>
           \/ /\ buffer' = [buffer EXCEPT ![op.drive][x] = 0]
              /\ image' = image \/ image' = i
    BY <1>7, PollFormats DEF Leaves
  <2>3. x \in Positions
    BY <1>7, WritesWithinBuffer DEF SectorBase
  <2>4. ~op'.write
    <3>1. ~op.write
      BY <1>7, OneOperation
    <3>2. [op EXCEPT !.format = FALSE].write = op.write
      BY <1>1, SMT DEF Operation
    <3>3. [op EXCEPT !.pos = op.pos + 1].write = op.write
      BY <1>1, SMT DEF Operation
    <3>4. [op EXCEPT !.pos = 0, !.sector = op.sector + 1].write = op.write
      BY <1>1, SMT DEF Operation
    <3>5. [op EXCEPT !.pos = 0, !.sector = op.sector + 1,
                     !.format = FALSE].write = op.write
      BY <1>1, SMT DEF Operation
    <3> QED  BY <2>2, <3>1, <3>2, <3>3, <3>4, <3>5
  <2> HIDE DEF x
  <2>5. CASE UNCHANGED <<buffer, image>>
    BY <1>2, <2>4, <2>5
  <2>6. CASE /\ buffer' = [buffer EXCEPT ![op.drive][x] = 0]
             /\ image' = image \/ image' = i
    <3>1. image' = image \/ image' = [image EXCEPT ![mounted[op.drive]] =
                      Written(image[mounted[op.drive]], trackc[op.drive],
                              buffer'[op.drive])]
      BY <2>1, <2>6
    <3>2. 0 \in CpuBytes \cup {0}
      OBVIOUS
    <3>3. TracksNotMixed'
      BY <1>1, <2>1, <2>3, <2>6, <3>1, <3>2, StoreOwn
    <3> QED  BY <2>4, <3>3 DEF OwnTracks, Supplied
  <2> QED  BY <2>2, <2>5, <2>6
<1> QED  BY <1>3, <1>4, <1>5, <1>6, <1>7

(* The other steps touch no buffer and no disc.                             *)
LEMMA OthersOwn ==
  ASSUME Inv, Orderly, Served, OwnTracks, Orderly',
         \/ UNCHANGED vars
         \/ \E cmd \in TransferCommands : TransferCommand(cmd)
         \/ ForceCommand \/ WriteControl \/ WriteTrack \/ WriteSector
         \/ WriteData \/ ReadData \/ FdcTimer \/ SpinTimer \/ MixNoise
  PROVE  OwnTracks'
<1>1. UNCHANGED <<buffer, image, trackc, mounted>> /\ w \in Controller
  BY Untouched DEF Inv, TypeOK
<1>2. TracksNotMixed'
  BY <1>1 DEF OwnTracks, TracksNotMixed, BuffersOwn, Own
<1>3. Supplied'
  <2> SUFFICES ASSUME op'.write, ~Requesting(w') PROVE w'.data \in CpuBytes
    BY DEF Supplied
  <2>1. CASE UNCHANGED vars
    BY <2>1 DEF vars, OwnTracks, Supplied
  <2>2. CASE \E cmd \in TransferCommands : TransferCommand(cmd)
    <3>1. PICK cmd \in TransferCommands : TransferCommand(cmd)
      BY <2>2
    <3>2. w'.command = cmd /\ (Requesting(w') <=> cmd = "write")
      BY <1>1, <3>1, StartFields DEF TransferCommand
    <3>3. w'.command = "write"
      BY DEF Orderly, Underway
    <3> QED  BY <3>2, <3>3
  <2>3. CASE ForceCommand \/ WriteControl \/ WriteTrack \/ WriteSector
    <3>1. ~Busy(w) /\ op' = op
      BY <2>3 DEF Served, ForceCommand, WriteControl, WriteTrack,
                  WriteSector, RestUnchanged
    <3> QED  BY <3>1, NothingUnderway
  <2>4. CASE WriteData
    <3>1. PICK b \in CpuBytes : w' = WriteDataRegister(w, b)
      BY <2>4 DEF WriteData
    <3> QED  BY <1>1, <3>1, RegisterFields
  <2>5. CASE ReadData
    <3>1. op' = op /\ w.command # "write"
      BY <2>5 DEF ReadData, RestUnchanged, Served
    <3> QED  BY <3>1 DEF Orderly, Underway
  <2>6. CASE FdcTimer \/ SpinTimer \/ MixNoise
    <3>1. op' = op
      BY <2>6 DEF FdcTimer, SpinTimer, MixNoise, RestUnchanged
    <3>2. w' = w
      BY <2>6, <3>1, TimersWait
    <3> QED  BY <3>1, <3>2 DEF OwnTracks, Supplied
  <2> QED  BY <2>1, <2>2, <2>3, <2>4, <2>5, <2>6
<1> QED  BY <1>2, <1>3 DEF OwnTracks

(* Whatever commands a driver that waits gives, and however it uses the     *)
(* other registers between them, no byte an image came with gives way to    *)
(* one of another track or place, on the disc or in a buffer that holds its *)
(* track: for every number of drives, tracks and sectors and images of any  *)
(* content and length.  Beyond the end of a short image nothing is said.    *)
(* (ssd_seek, the track test, ssd_writeback)                                *)
THEOREM TracksKeptApart ==
  ASSUME Served
  PROVE  Spec => []TracksNotMixed
<1>1. /\ Inv /\ Inv' /\ Orderly /\ Orderly' /\ OwnTracks /\ [Next]_vars
      => OwnTracks'
  <2> SUFFICES ASSUME Inv, Orderly, Orderly', OwnTracks, [Next]_vars
               PROVE  OwnTracks'
    OBVIOUS
  <2> QED  BY ServedSteps, SeekOwn, PollOwn, OthersOwn
<1>2. OwnTracks => TracksNotMixed
  BY DEF OwnTracks
<1> QED  BY <1>1, <1>2, InitOwn, InvHolds, OrderlyHolds, PTL DEF Spec

-----------------------------------------------------------------------------
(* The model remembers as many bytes as a sector has.                       *)
Remembers == SectorSize <= MaxMoved

(* An operation that moves bytes is inside a sector, a format inside one of *)
(* the track; a read or write may name a sector the track does not have.    *)
InPlace == /\ op.read \/ op.write \/ op.format =>
                op.pos \in 0..(SectorSize - 1)
           /\ op.format => op.sector \in Sectors

(* While a sector is written the buffer holds what the CPU supplied, and    *)
(* exactly one more byte waits unless one is requested.                     *)
WriteSteps == op.write =>
  /\ Len(moved) = IF Requesting(w) THEN op.pos ELSE op.pos + 1
  /\ \A p \in 0..(op.pos - 1) :
       buffer[op.drive][SectorBase + p] = moved[p + 1]
  /\ ~Requesting(w) => w.data = moved[op.pos + 1]

(* While a sector is read the CPU has got what the buffer holds, and the    *)
(* next byte is in the data register when it is requested.                  *)
ReadSteps == op.read =>
  /\ Len(moved) = IF Requesting(w) THEN op.pos - 1 ELSE op.pos
  /\ Requesting(w) => op.pos > 0
  /\ \A p \in 0..(Len(moved) - 1) :
       moved[p + 1] = buffer[op.drive][SectorBase + p]
  /\ Requesting(w) => w.data = buffer[op.drive][SectorBase + op.pos - 1]

(* While a track is formatted what has been passed is blank.                *)
FormatSteps == op.format =>
  \A p \in 0..(SectorBase + op.pos - 1) : buffer[op.drive][p] = 0

(* The inductive invariant behind TransferInStep and FormatBlanks; the      *)
(* bytes moved only matter if the model remembers them.                     *)
Steps == InPlace /\ FormatSteps /\ (Remembers => WriteSteps /\ ReadSteps)

(* With no such operation in progress there is nothing to keep in step.     *)
LEMMA NoSteps ==
  ASSUME ~op'.read, ~op'.write, ~op'.format
  PROVE  Steps'
  BY DEF Steps, InPlace, FormatSteps, WriteSteps, ReadSteps

(* A transfer starts at the first byte of a sector of the track, with       *)
(* nothing moved.  (ssd_readsector, ssd_writesector, ssd_format)            *)
LEMMA TransferSteps ==
  ASSUME Inv, Orderly, Served, Orderly',
         NEW cmd \in TransferCommands, TransferCommand(cmd)
  PROVE  Steps'
<1>1. ~Busy(w) /\ w \in Controller
  BY CommandsDiffer DEF TransferCommand, Accepts, Inv, TypeOK
<1>2. /\ ~op.read /\ ~op.write /\ ~op.address /\ ~op.format
      /\ op.notfound = 0
  BY <1>1, NothingUnderway
<1>3. /\ w' = StartTransfer(w, cmd) /\ moved' = <<>>
      /\ op' = op \/ op' = Requested(cmd)
  BY DEF TransferCommand
<1>4. w'.command = cmd /\ (Requesting(w') <=> cmd = "write")
  BY <1>1, <1>3, StartFields
<1>5. CASE op' = op \/ ~Found(curdrive, w.track)
  BY <1>2, <1>3, <1>5, RequestedFields, NoSteps
<1>6. CASE op' = Requested(cmd) /\ Found(curdrive, w.track)
  <2>1. /\ op'.read <=> cmd = "read"
        /\ op'.write <=> cmd = "write"
        /\ op'.format <=> cmd = "format"
        /\ op'.pos = 0
        /\ op'.sector = IF cmd \in {"read", "write"} THEN w.sector
                        ELSE IF cmd = "format" THEN 0 ELSE op.sector
    BY <1>2, <1>6, RequestedFields
  <2>2. InPlace'
    BY <1>1, <2>1 DEF InPlace, Sectors
  <2>3. FormatSteps'
    BY <2>1 DEF FormatSteps, SectorBase
  <2>4. Len(moved') = 0
    BY <1>3
  <2>5. WriteSteps' /\ ReadSteps'
    BY <1>4, <2>1, <2>4 DEF WriteSteps, ReadSteps
  <2> QED  BY <2>2, <2>3, <2>5 DEF Steps
<1> QED  BY <1>3, <1>5, <1>6

(* What a poll moves a byte of is in the track: its bound.                  *)
LEMMA PolledInTrack ==
  ASSUME Inv, Steps, DiscPoll, op.read \/ op.write \/ op.format
  PROVE  op.sector \in Sectors /\ op.pos \in 0..(SectorSize - 1)
<1>1. op.pos \in 0..(SectorSize - 1)
  BY DEF Steps, InPlace
<1>2. op.sector * SectorSize + op.pos \in Positions
  BY ReadsWithinBuffer, WritesWithinBuffer
<1>3. op.sector \in Nat
  BY DEF Inv, TypeOK, Operation
<1> QED  BY <1>1, <1>2, <1>3, OnTrack

(* The bytes remembered grow by one, as long as there is room.              *)
LEMMA RememberSteps ==
  ASSUME Inv, NEW b \in Bytes, Remember(b), Len(moved) < MaxMoved
  PROVE  /\ Len(moved') = Len(moved) + 1 /\ moved'[Len(moved) + 1] = b
         /\ \A p \in 1..Len(moved) : moved'[p] = moved[p]
         /\ Len(moved) \in Nat
  BY DEF Remember, Inv, TypeOK

(* The CPU supplies the byte that is requested, to a write only.            *)
LEMMA WriteDataSteps ==
  ASSUME Inv, Orderly, Served, Steps, WriteData
  PROVE  Steps'
<1>1. w \in Controller
      /\ UNCHANGED <<op, buffer>>
  BY DEF WriteData, RestUnchanged, Inv, TypeOK
<1>2. PICK b \in CpuBytes :
        /\ w' = WriteDataRegister(w, b)
        /\ IF Busy(w) THEN Remember(b) ELSE UNCHANGED moved
  BY DEF WriteData
<1>3. w'.data = b /\ ~Requesting(w')
  BY <1>1, <1>2, RegisterFields
<1>4. CASE ~Busy(w)
  BY <1>1, <1>4, NothingUnderway, NoSteps
<1>5. CASE Busy(w)
  <2>1. w.command = "write" /\ Requesting(w) /\ Remember(b)
    BY <1>2, <1>5 DEF WriteData, Served
  <2>2. ~op.read /\ ~op.format
    BY <2>1 DEF Orderly, Underway
  <2>3. InPlace' /\ FormatSteps' /\ ReadSteps'
    BY <1>1, <2>2 DEF Steps, InPlace, FormatSteps, ReadSteps
  <2>4. ASSUME Remembers, op.write  PROVE WriteSteps'
    <3>1. /\ Len(moved) = op.pos /\ op.pos \in 0..(SectorSize - 1)
          /\ \A p \in 0..(op.pos - 1) :
               buffer[op.drive][SectorBase + p] = moved[p + 1]
      BY <2>1, <2>4 DEF Steps, InPlace, WriteSteps
    <3>2. Len(moved) < MaxMoved
      BY <2>4, <3>1 DEF Remembers
    <3>3. /\ Len(moved') = op.pos + 1 /\ moved'[op.pos + 1] = b
          /\ \A p \in 1..op.pos : moved'[p] = moved[p]
      BY <2>1, <3>1, <3>2, RememberSteps
    <3>4. \A p \in 0..(op.pos - 1) :
            buffer[op.drive][SectorBase + p] = moved'[p + 1]
      BY <3>1, <3>3
    <3> QED  BY <1>1, <1>3, <3>3, <3>4 DEF WriteSteps, SectorBase
  <2>5. ~op.write => WriteSteps'
    BY <1>1 DEF WriteSteps
  <2> QED  BY <2>3, <2>4, <2>5 DEF Steps, Remembers
<1> QED  BY <1>4, <1>5

(* The CPU takes the byte that was read, from a read only.                  *)
LEMMA ReadDataSteps ==
  ASSUME Inv, Orderly, Served, Steps, ReadData
  PROVE  Steps'
<1>1. /\ w \in Controller /\ w.data \in Bytes
      /\ UNCHANGED <<op, buffer>> /\ w' = ReadDataRegister(w)
      /\ Requesting(w) /\ w.command # "write" /\ Remember(w.data)
  BY DEF ReadData, RestUnchanged, Inv, TypeOK, Served, Controller
<1>2. w'.data = w.data /\ ~Requesting(w')
  BY <1>1, RegisterFields
<1>3. ~op.write
  BY <1>1 DEF Orderly, Underway
<1>4. InPlace' /\ FormatSteps' /\ WriteSteps'
  BY <1>1, <1>3 DEF Steps, InPlace, FormatSteps, WriteSteps, SectorBase
<1>5. ASSUME Remembers, op.read  PROVE ReadSteps'
  <2>1. /\ Len(moved) = op.pos - 1 /\ op.pos \in 1..(SectorSize - 1)
        /\ \A p \in 0..(Len(moved) - 1) :
             moved[p + 1] = buffer[op.drive][SectorBase + p]
        /\ w.data = buffer[op.drive][SectorBase + op.pos - 1]
    BY <1>1, <1>5 DEF Steps, InPlace, ReadSteps
  <2>2. Len(moved) < MaxMoved
    BY <1>5, <2>1 DEF Remembers
  <2>3. /\ Len(moved') = op.pos /\ moved'[op.pos] = w.data
        /\ \A p \in 1..(op.pos - 1) : moved'[p] = moved[p]
    <3>1. /\ Len(moved') = Len(moved) + 1
          /\ moved'[Len(moved) + 1] = w.data
          /\ \A p \in 1..Len(moved) : moved'[p] = moved[p]
      BY <1>1, <2>2, RememberSteps
    <3>2. Len(moved) + 1 = op.pos
      BY <2>1
    <3> QED  BY <2>1, <3>1, <3>2
  <2>4. SectorBase \in Int
    BY DEF SectorBase, Inv, TypeOK, Operation
  <2>5. \A p \in 0..(op.pos - 1) :
          moved'[p + 1] = buffer[op.drive][SectorBase + p]
    <3> SUFFICES ASSUME NEW p \in 0..(op.pos - 1)
                 PROVE  moved'[p + 1] = buffer[op.drive][SectorBase + p]
      OBVIOUS
    <3>1. CASE p = op.pos - 1
      <4>1. SectorBase + p = SectorBase + op.pos - 1 /\ p + 1 = op.pos
        BY <2>1, <2>4, <3>1
      <4> QED  BY <2>1, <2>3, <4>1
    <3>2. CASE p # op.pos - 1
      <4>1. p \in 0..(Len(moved) - 1) /\ p + 1 \in 1..(op.pos - 1)
        BY <2>1, <3>2
      <4> QED  BY <2>1, <2>3, <4>1
    <3> QED  BY <3>1, <3>2
  <2> QED  BY <1>1, <1>2, <2>1, <2>3, <2>5 DEF ReadSteps, SectorBase
<1>6. ~op.read => ReadSteps'
  BY <1>1 DEF ReadSteps
<1> QED  BY <1>4, <1>5, <1>6 DEF Steps, Remembers

(* Moving the position of an operation leaves its other fields alone. *)
LEMMA MovedFields ==
  ASSUME NEW o \in Operation, NEW q
  PROVE  LET v == [o EXCEPT !.pos = q]
         IN  /\ v.write = o.write /\ v.read = o.read /\ v.format = o.format
             /\ v.pos = q /\ v.sector = o.sector /\ v.drive = o.drive
BY SMT DEF Operation

(* A poll of a read puts the next byte of the buffer in the data register.  *)
(* (ssd_poll, data1770)                                                     *)
LEMMA PollReadSteps ==
  ASSUME Inv, Orderly, Served, Steps, DiscPoll, op.read
  PROVE  Steps'
<1> DEFINE b == buffer[op.drive][SectorBase + op.pos]
           last == op.pos + 1 = SectorSize
           o == [op EXCEPT !.read = ~last, !.pos = op.pos + 1]
<1>1. /\ w \in Controller /\ op \in Operation /\ ~Requesting(w) /\ Busy(w)
      /\ ~op.write /\ ~op.format /\ op.pos \in Nat
      /\ UNCHANGED moved
  BY OneOperation, AtSelected DEF Inv, TypeOK, DiscPoll, Served
<1>2. op' = o /\ buffer' = buffer
      /\ w' = IF last THEN FdcFinishRead(FdcData(w, b)) ELSE FdcData(w, b)
  BY PollReads DEF Leaves
<1>3. /\ (o.read <=> ~last) /\ o.pos = op.pos + 1 /\ o.write = op.write
      /\ o.format = op.format /\ o.sector = op.sector /\ o.drive = op.drive
  <2> HIDE DEF last
  <2> DEFINE q == op.pos + 1
             f == ~last
  <2> HIDE DEF q, f
  <2>1. LET v == [op EXCEPT !.read = f, !.pos = q]
        IN  /\ v.read = f /\ v.pos = q /\ v.write = op.write
            /\ v.format = op.format /\ v.sector = op.sector
            /\ v.drive = op.drive
    BY <1>1, SMT DEF Operation
  <2> QED  BY <2>1, Zenon DEF q, f
<1> HIDE DEF o, b
<1>4. CASE last
  BY <1>1, <1>2, <1>3, <1>4, NoSteps
<1>5. CASE ~last
  <2>1. Requesting(w') /\ w'.data = b
    BY <1>1, <1>2, <1>5, FdcDataFields
  <2>2. op.sector \in Sectors /\ op.pos \in 0..(SectorSize - 1)
    BY PolledInTrack
  <2>3. op.pos + 1 \in 0..(SectorSize - 1)
    BY <1>5, <2>2
  <2>4. InPlace' /\ FormatSteps' /\ WriteSteps'
    BY <1>1, <1>2, <1>3, <2>2, <2>3 DEF InPlace, FormatSteps, WriteSteps
  <2>5. ASSUME Remembers  PROVE ReadSteps'
    <3>1. /\ Len(moved) = op.pos
          /\ \A p \in 0..(Len(moved) - 1) :
               moved[p + 1] = buffer[op.drive][SectorBase + p]
      BY <1>1, <2>5 DEF Steps, ReadSteps
    <3>2. SectorBase' = SectorBase /\ SectorBase \in Int
      BY <1>1, <1>2, <1>3 DEF SectorBase, Operation
    <3>3. SectorBase + op'.pos - 1 = SectorBase + op.pos
      BY <1>1, <1>2, <1>3, <3>2
    <3>4. w'.data = buffer'[op'.drive][SectorBase' + op'.pos - 1]
      BY <1>2, <1>3, <2>1, <3>2, <3>3 DEF b
    <3>5. op'.pos - 1 = op.pos /\ op'.pos > 0
      BY <1>1, <1>2, <1>3
    <3>6. Len(moved') = op'.pos - 1
      BY <1>1, <3>1, <3>5
    <3>7. \A p \in 0..(Len(moved') - 1) :
            moved'[p + 1] = buffer'[op'.drive][SectorBase' + p]
      BY <1>1, <1>2, <1>3, <3>1, <3>2
    <3> QED  BY <2>1, <3>4, <3>5, <3>6, <3>7 DEF ReadSteps
  <2> QED  BY <2>4, <2>5 DEF Steps, Remembers
<1> QED  BY <1>4, <1>5

(* A poll of a write takes the byte that waits into the buffer.  (ssd_poll, *)
(* getdata1770)                                                             *)
LEMMA PollWriteSteps ==
  ASSUME Inv, Orderly, Served, Steps, DiscPoll, op.write
  PROVE  Steps'
<1> DEFINE x == SectorBase + op.pos
           last == op.pos + 1 = SectorSize
           o == [op EXCEPT !.pos = op.pos + 1]
           off == [op EXCEPT !.write = FALSE]
           done == [op EXCEPT !.pos = op.pos + 1, !.write = FALSE]
<1>1. /\ w \in Controller /\ op \in Operation /\ ~Requesting(w) /\ Busy(w)
      /\ ~op.read /\ ~op.format /\ op.pos \in Nat /\ w.written
      /\ op.drive \in Drives /\ UNCHANGED moved
      /\ buffer \in [Drives -> [Positions -> Bytes]]
  BY OneOperation, AtSelected DEF Inv, TypeOK, DiscPoll, Served, Orderly
<1>2. \/ op' \in {off, done}
      \/ /\ ~last /\ op' = o /\ w' = FdcGetData(w, last)
         /\ buffer' = [buffer EXCEPT ![op.drive][x] = w.data]
  BY <1>1, PollWrites DEF Leaves
<1>3. /\ o.write = op.write /\ o.read = op.read /\ o.format = op.format
      /\ o.pos = op.pos + 1 /\ o.sector = op.sector /\ o.drive = op.drive
  BY <1>1, MovedFields, Zenon
<1>4. \A v \in {off, done} : ~v.read /\ ~v.write /\ ~v.format
  <2>1. op \in Operation /\ ~op.read /\ ~op.format
    BY <1>1
  <2>2. ~off.read /\ ~off.write /\ ~off.format
    BY <2>1, SMT DEF Operation
  <2>3. ~done.read /\ ~done.write /\ ~done.format
    BY <2>1, SMT DEF Operation
  <2> QED  BY <2>2, <2>3
<1> HIDE DEF o, off, done
<1>5. CASE op' \in {off, done}
  BY <1>4, <1>5, NoSteps
<1>6. CASE /\ ~last /\ op' = o /\ w' = FdcGetData(w, last)
           /\ buffer' = [buffer EXCEPT ![op.drive][x] = w.data]
  <2>1. Requesting(w')
    <3> HIDE DEF last
    <3>1. last \in BOOLEAN
      BY DEF last
    <3> QED  BY <1>1, <1>6, <3>1, FdcGetDataFields
  <2>2. op.sector \in Sectors /\ op.pos \in 0..(SectorSize - 1)
    BY PolledInTrack
  <2>3. op.pos + 1 \in 0..(SectorSize - 1)
    BY <1>6, <2>2
  <2>4. InPlace' /\ FormatSteps' /\ ReadSteps'
    BY <1>1, <1>3, <1>6, <2>2, <2>3 DEF InPlace, FormatSteps, ReadSteps
  <2>5. ASSUME Remembers  PROVE WriteSteps'
    <3>1. /\ Len(moved) = op.pos + 1 /\ w.data = moved[op.pos + 1]
          /\ \A p \in 0..(op.pos - 1) :
               buffer[op.drive][SectorBase + p] = moved[p + 1]
      BY <1>1, <2>5 DEF Steps, WriteSteps
    <3>2. SectorBase' = SectorBase /\ SectorBase \in Int
          /\ op'.drive = op.drive /\ op'.pos = op.pos + 1
      BY <1>1, <1>3, <1>6 DEF SectorBase, Operation
    <3>3. ASSUME NEW p \in 0..op.pos
          PROVE  buffer'[op.drive][SectorBase + p] = moved[p + 1]
      <4>1. p \in 0..(SectorSize - 1)
        BY <2>2, <3>3
      <4>2. SectorBase + p \in Positions
        BY <2>2, <4>1, InTrack DEF SectorBase
      <4>3. CASE p = op.pos
        BY <1>1, <1>6, <3>1, <4>2, <4>3
      <4>4. CASE p # op.pos
        <5>1. SectorBase + p # x /\ p \in 0..(op.pos - 1)
          BY <1>1, <3>2, <3>3, <4>4
        <5> HIDE DEF x
        <5>2. buffer'[op.drive][SectorBase + p]
                = buffer[op.drive][SectorBase + p]
          BY <1>1, <1>6, <4>2, <5>1
        <5> QED  BY <3>1, <5>1, <5>2
      <4> QED  BY <4>3, <4>4
    <3>4. 0..(op'.pos - 1) = 0..op.pos
      BY <1>1, <3>2
    <3>5. \A p \in 0..(op'.pos - 1) :
            buffer'[op'.drive][SectorBase' + p] = moved'[p + 1]
      BY <1>1, <3>2, <3>3, <3>4
    <3> QED  BY <1>1, <2>1, <3>1, <3>2, <3>5 DEF WriteSteps
  <2> QED  BY <2>4, <2>5 DEF Steps, Remembers
<1> QED  BY <1>2, <1>5, <1>6

(* A poll of a format blanks the next byte.  (ssd_poll)                     *)
LEMMA PollFormatSteps ==
  ASSUME Inv, Orderly, Served, Steps, DiscPoll, op.format
  PROVE  Steps'
<1> DEFINE x == SectorBase + op.pos
           last == op.pos + 1 = SectorSize
           step == [op EXCEPT !.pos = op.pos + 1]
           next == [op EXCEPT !.pos = 0, !.sector = op.sector + 1]
           off == [op EXCEPT !.format = FALSE]
           done == [op EXCEPT !.pos = 0, !.sector = op.sector + 1,
                              !.format = FALSE]
           put == [buffer EXCEPT ![op.drive][x] = 0]
<1>1. /\ op \in Operation /\ op.drive \in Drives
      /\ ~op.read /\ ~op.write /\ op.pos \in Nat /\ op.sector \in Nat
      /\ buffer \in [Drives -> [Positions -> Bytes]]
  BY OneOperation DEF Inv, TypeOK
<1>2. \/ op' \in {off, done}
      \/ ~last /\ op' = step /\ buffer' = put
      \/ last /\ op.sector # MaxSector /\ op' = next /\ buffer' = put
  BY PollFormats DEF Leaves
<1>3. /\ step.write = op.write /\ step.read = op.read
      /\ step.pos = op.pos + 1 /\ step.sector = op.sector
      /\ step.drive = op.drive
  BY <1>1, SMT DEF Operation
<1>4. /\ next.write = op.write /\ next.read = op.read
      /\ next.pos = 0 /\ next.sector = op.sector + 1
      /\ next.drive = op.drive
  BY <1>1, SMT DEF Operation
<1>5. \A v \in {off, done} : ~v.read /\ ~v.write /\ ~v.format
  <2>1. ~off.read /\ ~off.write /\ ~off.format
    BY <1>1, SMT DEF Operation
  <2>2. ~done.read /\ ~done.write /\ ~done.format
    BY <1>1, SMT DEF Operation
  <2> QED  BY <2>1, <2>2
<1> HIDE DEF step, next, off, done
<1>6. CASE op' \in {off, done}
  BY <1>5, <1>6, NoSteps
<1>7. ASSUME buffer' = put, ~op'.read, ~op'.write, op'.drive = op.drive,
             op'.sector \in Sectors, op'.pos \in 0..(SectorSize - 1),
             op'.sector * SectorSize + op'.pos = x + 1
      PROVE  Steps'
  <2>1. InPlace' /\ WriteSteps' /\ ReadSteps'
    BY <1>7 DEF InPlace, WriteSteps, ReadSteps
  <2>2. InPlace /\ FormatSteps
    BY DEF Steps
  <2>3. op.sector \in Sectors /\ op.pos \in 0..(SectorSize - 1)
    BY PolledInTrack
  <2>4. \A p \in 0..(SectorBase + op.pos - 1) : buffer[op.drive][p] = 0
    BY <2>2, Zenon DEF FormatSteps
  <2>5. x \in Positions
    BY <2>3, InTrack DEF SectorBase
  <2>6. SectorBase' + op'.pos - 1 = x
    <3>1. SectorBase' + op'.pos = x + 1
      BY <1>7, Zenon DEF SectorBase
    <3>2. x \in Int
      BY <2>5 DEF Positions
    <3>3. SectorBase' \in Int /\ op'.pos \in Int
      BY <1>7 DEF SectorBase, Sectors
    <3> HIDE DEF x
    <3> QED  BY <3>1, <3>2, <3>3
  <2>7. ASSUME NEW p \in 0..x  PROVE buffer'[op.drive][p] = 0
    <3> HIDE DEF x
    <3>1. x \in Nat /\ p \in Positions
      BY <2>5, <2>7 DEF Positions
    <3>2. buffer'[op.drive][p] = IF p = x THEN 0 ELSE buffer[op.drive][p]
      BY <1>1, <1>7, <3>1
    <3>3. p # x => p \in 0..(x - 1)
      BY <2>7, <3>1
    <3>4. SectorBase + op.pos - 1 = x - 1
      <4>1. SectorBase \in Int /\ op.pos \in Int
        BY <2>3 DEF SectorBase, Sectors
      <4> QED  BY <4>1 DEF x
    <3> QED  BY <2>4, <3>2, <3>3, <3>4, Zenon
  <2>8. FormatSteps'
    BY <1>7, <2>6, <2>7 DEF FormatSteps
  <2> QED  BY <2>1, <2>8 DEF Steps
<1>8. op.sector \in Sectors /\ op.pos \in 0..(SectorSize - 1)
  BY PolledInTrack
<1> HIDE DEF put
<1>9. CASE ~last /\ op' = step /\ buffer' = put
  <2>1. op'.pos \in 0..(SectorSize - 1)
    BY <1>3, <1>8, <1>9
  <2>2. op.sector * SectorSize \in Int
    BY <1>1
  <2>3. op'.sector * SectorSize + op'.pos = x + 1
    BY <1>1, <1>3, <1>9, <2>2 DEF SectorBase
  <2> QED  BY <1>1, <1>3, <1>7, <1>8, <1>9, <2>1, <2>3
<1>10. CASE last /\ op.sector # MaxSector /\ op' = next /\ buffer' = put
  <2>1. op'.sector \in Sectors /\ op'.pos \in 0..(SectorSize - 1)
    BY <1>4, <1>8, <1>10 DEF Sectors
  <2>2. (op.sector + 1) * SectorSize = op.sector * SectorSize + SectorSize
        /\ op.sector * SectorSize \in Int
    BY <1>1
  <2>3. op'.sector * SectorSize + op'.pos = x + 1
    BY <1>1, <1>4, <1>10, <2>2 DEF SectorBase
  <2> QED  BY <1>1, <1>4, <1>7, <1>10, <2>1, <2>3
<1> QED  BY <1>2, <1>6, <1>9, <1>10

(* Every step keeps the CPU and the disc in step.                           *)
LEMMA StepsKept ==
  ASSUME Inv, Orderly, Orderly', Served, Steps, [Next]_vars
  PROVE  Steps'
<1>1. CASE UNCHANGED vars
  BY <1>1 DEF vars, Steps, InPlace, FormatSteps, WriteSteps, ReadSteps,
              SectorBase
<1>2. ASSUME NEW cmd \in SeekCommands, SeekCommand(cmd)  PROVE Steps'
  <2>1. ~Busy(w) /\ op' = op
    BY <1>2, CommandsDiffer DEF SeekCommand, Accepts
  <2> QED  BY <2>1, NothingUnderway, NoSteps
<1>3. CASE ForceCommand \/ WriteControl \/ WriteTrack \/ WriteSector
  <2>1. ~Busy(w) /\ op' = op
    BY <1>3 DEF Served, ForceCommand, WriteControl, WriteTrack, WriteSector,
                RestUnchanged
  <2> QED  BY <2>1, NothingUnderway, NoSteps
<1>4. CASE FdcTimer \/ SpinTimer \/ MixNoise
  <2>1. UNCHANGED <<op, buffer, moved>>
    BY <1>4 DEF FdcTimer, SpinTimer, MixNoise, RestUnchanged
  <2>2. CASE op.read \/ op.write \/ op.format
    <3>1. w' = w
      BY <1>4, <2>2, TimersWait
    <3> QED  BY <2>1, <3>1 DEF Steps, InPlace, FormatSteps, WriteSteps,
                               ReadSteps, SectorBase
  <2>3. CASE ~(op.read \/ op.write \/ op.format)
    BY <2>1, <2>3, NoSteps
  <2> QED  BY <2>2, <2>3
<1>5. CASE DiscPoll
  <2>1. op \in Operation
    BY DEF Inv, TypeOK
  <2>2. CASE op.address
    <3>1. op' = [op EXCEPT !.address = op.pos # AddressBytes,
                           !.pos = op.pos + 1]
      BY <1>5, <2>2, PollAddresses DEF Leaves
    <3>2. op'.read = op.read /\ op'.write = op.write
          /\ op'.format = op.format
      BY <2>1, <3>1, SMT DEF Operation
    <3> QED  BY <2>2, <3>2, OneOperation, NoSteps
  <2>3. CASE ~op.read /\ ~op.write /\ ~op.address /\ ~op.format
    <3>1. op' \in {op, [op EXCEPT !.notfound = @ - 1]}
      BY <1>5, <2>3, PollIdle DEF Leaves
    <3>2. op'.read = op.read /\ op'.write = op.write
          /\ op'.format = op.format
      BY <2>1, <3>1, SMT DEF Operation
    <3> QED  BY <2>3, <3>2, NoSteps
  <2> QED  BY <1>5, <2>2, <2>3, PollReadSteps, PollWriteSteps,
              PollFormatSteps
<1> QED  BY <1>1, <1>2, <1>3, <1>4, <1>5, ServedSteps, TransferSteps,
            WriteDataSteps, ReadDataSteps

(* Steps holds in every state the program can reach with such a driver.     *)
LEMMA StepsHold == ASSUME Served PROVE Spec => []Steps
<1>1. Init => Steps
  <2> SUFFICES ASSUME Init PROVE Steps
    OBVIOUS
  <2>1. ~op.read /\ ~op.write /\ ~op.format
    BY SMT DEF Init, NoOperation
  <2> QED  BY <2>1 DEF Steps, InPlace, FormatSteps, WriteSteps, ReadSteps
<1>2. Inv /\ Orderly /\ Orderly' /\ Steps /\ [Next]_vars => Steps'
  BY StepsKept
<1> QED  BY <1>1, <1>2, InvHolds, OrderlyHolds, PTL DEF Spec

(* The CPU and the disc keep step in both directions, for sectors of any    *)
(* size the model remembers: every byte written is the one supplied for its *)
(* place, every byte read the one of its place, none is skipped or doubled, *)
(* however polls, timers and the CPU take turns.  (ssd_poll, getdata1770,   *)
(* data1770)                                                                *)
THEOREM TransfersInStep ==
  ASSUME Served, Remembers
  PROVE  Spec => []TransferInStep
<1>1. Inv /\ Steps => TransferInStep
  <2> SUFFICES ASSUME Inv, Steps PROVE TransferInStep
    OBVIOUS
  <2>1. op.pos \in Nat /\ Len(moved) \in Nat
    BY DEF Inv, TypeOK, Operation
  <2>2. WriteInStep
    BY <2>1 DEF Steps, WriteSteps, WriteInStep
  <2>3. ReadInStep
    BY <2>1 DEF Steps, ReadSteps, ReadInStep
  <2> QED  BY <2>2, <2>3 DEF TransferInStep
<1> QED  BY <1>1, InvHolds, StepsHold, PTL

(* A format takes its track to the disc blank.  (ssd_poll, ssd_writeback)   *)
LEMMA PollBlanks ==
  ASSUME Inv, Orderly, Served, Steps, DiscPoll, op.format, ~op'.format,
         "wprot" \notin w'.status, NEW p \in Positions
  PROVE  image'[mounted[op.drive]][op.track][p] = 0
<1> DEFINE x == SectorBase + op.pos
           put == [buffer EXCEPT ![op.drive][x] = 0]
           disc == mounted[op.drive]
           file == Written(image[disc], op.track, put[op.drive])
           step == [op EXCEPT !.pos = op.pos + 1]
           next == [op EXCEPT !.pos = 0, !.sector = op.sector + 1]
<1>1. /\ op \in Operation /\ op.drive \in Drives /\ op.track \in Tracks
      /\ buffer \in [Drives -> [Positions -> Bytes]]
      /\ image \in [Discs -> Files] /\ w \in Controller
      /\ disc \in Discs
  <2>1. disc # NoDisc
    BY AtSelected
  <2> QED  BY <2>1, OneOperation DEF Inv, TypeOK, Operation
<1>2. "wprot" \in FdcWriteProtect(w).status
  BY <1>1, SMT DEF FdcWriteProtect, EndWith, SpinDown, Controller
<1>3. step.format /\ next.format
  <2>1. op \in Operation
    BY <1>1
  <2> QED  BY <2>1, SMT DEF Operation
<1>4. /\ op.pos + 1 = SectorSize /\ op.sector = MaxSector
      /\ image' = [image EXCEPT ![disc] = file]
  <2> HIDE DEF step, next
  <2> QED  BY <1>2, <1>3, PollFormats DEF Leaves, step, next
<1>5. image'[disc][op.track] = put[op.drive]
  <2>1. file[op.track] = put[op.drive]
    BY <1>1 DEF Written
  <2> HIDE DEF file
  <2> QED  BY <1>1, <1>4, <2>1
<1>6. Positions = 0..x /\ x \in Nat
  <2> DEFINE z == SectorSize
             m == MaxSector
  <2>1. z \in Nat \ {0} /\ m \in Nat /\ op.pos = z - 1
    <3>1. op.pos \in Nat
      BY <1>1 DEF Operation
    <3> QED  BY <1>4, <3>1
  <2>2. Positions = 0..((m + 1) * z - 1) /\ x = m * z + op.pos
    BY <1>4 DEF Positions, SectorBase
  <2> HIDE DEF z, m, x
  <2>3. m * z \in Nat /\ (m + 1) * z = m * z + z
    BY <2>1
  <2> QED  BY <2>1, <2>2, <2>3
<1>7. p # x => buffer[op.drive][p] = 0
  <2>1. \A q \in 0..(x - 1) : buffer[op.drive][q] = 0
    <3>1. \A q \in 0..(SectorBase + op.pos - 1) : buffer[op.drive][q] = 0
      BY Zenon DEF Steps, FormatSteps
    <3>2. op.pos \in Nat /\ op.sector \in Nat
      BY OneOperation
    <3>3. SectorBase \in Nat
      BY <3>2 DEF SectorBase
    <3>4. SectorBase + op.pos - 1 = x - 1
      BY <3>2, <3>3
    <3> HIDE DEF x
    <3> QED  BY <3>1, <3>4
  <2> HIDE DEF x
  <2>2. p # x => p \in 0..(x - 1)
    BY <1>6
  <2> QED  BY <2>1, <2>2, Zenon
<1>8. put[op.drive][p] = IF p = x THEN 0 ELSE buffer[op.drive][p]
  <2> HIDE DEF x
  <2> QED  BY <1>1
<1> HIDE DEF put
<1> QED  BY <1>5, <1>7, <1>8

(* A format that is not refused ends with its whole track blank on the      *)
(* disc, for every layout of a track and images of any length, while a      *)
(* driver waits for it.  (ssd_format, ssd_poll, ssd_writeback)              *)
THEOREM FormatsBlank ==
  ASSUME Served
  PROVE  Spec => FormatBlanks
<1> DEFINE Blanks ==
      op.format /\ ~op'.format =>
        "wprot" \in w'.status
        \/ \A p \in Positions : image'[mounted[op.drive]][op.track][p] = 0
<1>1. Inv /\ Orderly /\ Steps /\ [Next]_vars => [Blanks]_vars
  <2> SUFFICES ASSUME Inv, Orderly, Steps, [Next]_vars PROVE Blanks
    OBVIOUS
  <2>1. CASE UNCHANGED vars
    BY <2>1 DEF vars
  <2>2. ASSUME NEW cmd \in SeekCommands, SeekCommand(cmd)  PROVE Blanks
    BY <2>2 DEF SeekCommand
  <2>3. ASSUME NEW cmd \in TransferCommands, TransferCommand(cmd)
        PROVE  Blanks
    <3>1. ~Busy(w)
      BY <2>3, CommandsDiffer DEF TransferCommand, Accepts
    <3> QED  BY <3>1, NothingUnderway
  <2>4. CASE DiscPoll
    BY <2>4, PollBlanks
  <2>5. CASE \/ ForceCommand \/ WriteControl \/ WriteTrack \/ WriteSector
             \/ WriteData \/ ReadData \/ FdcTimer \/ SpinTimer \/ MixNoise
    BY <2>5 DEF ForceCommand, WriteControl, WriteTrack, WriteSector,
                WriteData, ReadData, FdcTimer, SpinTimer, MixNoise,
                RestUnchanged
  <2> QED  BY <2>1, <2>2, <2>3, <2>4, <2>5, ServedSteps
<1> QED  BY <1>1, InvHolds, OrderlyHolds, StepsHold, PTL
         DEF Spec, FormatBlanks

(* The driver names a sector of the track whenever it reads or writes one;  *)
(* neither write1770 nor ssd.c looks at the number.                         *)
Names == \A cmd \in {"read", "write"} :
           TransferCommand(cmd) => w.sector \in Sectors
NamesSectors == [][Names]_vars

(* Reads and writes in progress are of a sector of the track.               *)
InSector == op.read \/ op.write => op.sector \in Sectors

(* Only the command that starts a read or a write gives its sector.         *)
(* (ssd_readsector, ssd_writesector, ssd_poll)                              *)
LEMMA SectorKept ==
  ASSUME Inv, Orderly, Served, InSector, [Next]_vars, [Names]_vars
  PROVE  InSector'
<1>1. ASSUME op'.read \/ op'.write => (op.read \/ op.write)
                                     /\ op'.sector = op.sector
      PROVE  InSector'
  BY <1>1 DEF InSector
<1>2. CASE op' = op
  BY <1>1, <1>2
<1>3. ASSUME NEW cmd \in TransferCommands, TransferCommand(cmd)
      PROVE  InSector'
  <2>1. ~Busy(w)
    BY <1>3, CommandsDiffer DEF TransferCommand, Accepts
  <2>2. /\ ~op.read /\ ~op.write /\ ~op.address /\ ~op.format
        /\ op.notfound = 0
    BY <2>1, NothingUnderway
  <2>3. op' = op \/ op' = Requested(cmd)
    BY <1>3 DEF TransferCommand
  <2>4. w' # w
    <3>1. Busy(w')
      BY <1>3, <2>1, StartFields DEF TransferCommand, Inv, TypeOK
    <3> QED  BY <2>1, <3>1
  <2>5. cmd \in {"read", "write"} => w.sector \in Sectors
    BY <1>3, <2>4 DEF Names, vars
  <2> QED  BY <1>2, <2>2, <2>3, <2>5, RequestedFields DEF InSector
<1>4. CASE DiscPoll
  <2>1. op \in Operation
    BY DEF Inv, TypeOK
  <2>2. CASE op.read
    <3>1. op' = [op EXCEPT !.read = ~(op.pos + 1 = SectorSize),
                           !.pos = op.pos + 1]
      BY <1>4, <2>2, PollReads DEF Leaves
    <3>2. op'.sector = op.sector
      BY <2>1, <3>1, SMT DEF Operation
    <3> QED  BY <1>1, <2>2, <3>2
  <2>3. CASE op.write
    <3>1. w.written
      BY <1>4, <2>3 DEF Orderly, DiscPoll, Served
    <3>2. op' \in {[op EXCEPT !.write = FALSE],
                   [op EXCEPT !.pos = op.pos + 1],
                   [op EXCEPT !.pos = op.pos + 1, !.write = FALSE]}
      BY <1>4, <2>3, <3>1, PollWrites DEF Leaves
    <3>3. [op EXCEPT !.write = FALSE].sector = op.sector
      BY <2>1, SMT DEF Operation
    <3>4. [op EXCEPT !.pos = op.pos + 1].sector = op.sector
      BY <2>1, SMT DEF Operation
    <3>5. [op EXCEPT !.pos = op.pos + 1, !.write = FALSE].sector = op.sector
      BY <2>1, SMT DEF Operation
    <3> QED  BY <1>1, <2>3, <3>2, <3>3, <3>4, <3>5
  <2>4. CASE op.address
    <3>1. op' = [op EXCEPT !.address = op.pos # AddressBytes,
                           !.pos = op.pos + 1]
      BY <1>4, <2>4, PollAddresses DEF Leaves
    <3>2. op'.read = op.read /\ op'.write = op.write
      BY <2>1, <3>1, SMT DEF Operation
    <3> QED  BY <1>1, <2>4, <3>2, OneOperation
  <2>5. CASE op.format
    <3>1. op' \in {[op EXCEPT !.format = FALSE],
                   [op EXCEPT !.pos = op.pos + 1],
                   [op EXCEPT !.pos = 0, !.sector = op.sector + 1],
                   [op EXCEPT !.pos = 0, !.sector = op.sector + 1,
                              !.format = FALSE]}
      BY <1>4, <2>5, PollFormats DEF Leaves
    <3> DEFINE Kept(o) == o.read = op.read /\ o.write = op.write
    <3>2. Kept([op EXCEPT !.format = FALSE])
      BY <2>1, SMT DEF Operation
    <3>3. Kept([op EXCEPT !.pos = op.pos + 1])
      BY <2>1, SMT DEF Operation
    <3>4. Kept([op EXCEPT !.pos = 0, !.sector = op.sector + 1])
      BY <2>1, SMT DEF Operation
    <3>5. Kept([op EXCEPT !.pos = 0, !.sector = op.sector + 1,
                          !.format = FALSE])
      BY <2>1, SMT DEF Operation
    <3>6. op'.read = op.read /\ op'.write = op.write
      BY <3>1, <3>2, <3>3, <3>4, <3>5
    <3> QED  BY <1>1, <2>5, <3>6, OneOperation
  <2>6. CASE ~op.read /\ ~op.write /\ ~op.address /\ ~op.format
    <3>1. op' \in {op, [op EXCEPT !.notfound = @ - 1]}
      BY <1>4, <2>6, PollIdle DEF Leaves
    <3>2. op'.read = op.read /\ op'.write = op.write
      BY <2>1, <3>1, SMT DEF Operation
    <3> QED  BY <1>1, <2>6, <3>2
  <2> QED  BY <2>2, <2>3, <2>4, <2>5, <2>6
<1>5. CASE UNCHANGED vars
  BY <1>2, <1>5 DEF vars
<1>6. CASE \/ ForceCommand \/ WriteControl \/ WriteTrack \/ WriteSector
           \/ WriteData \/ ReadData \/ FdcTimer \/ SpinTimer \/ MixNoise
  BY <1>2, <1>6 DEF ForceCommand, WriteControl, WriteTrack, WriteSector,
                    WriteData, ReadData, FdcTimer, SpinTimer, MixNoise,
                    RestUnchanged
<1>7. ASSUME NEW cmd \in SeekCommands, SeekCommand(cmd)  PROVE InSector'
  BY <1>2, <1>7 DEF SeekCommand
<1> QED  BY <1>3, <1>4, <1>5, <1>6, <1>7, ServedSteps

(* With a driver that waits and names only sectors of the track, ssd.c      *)
(* never leaves its track buffer, so the bound of DiscPoll stops no poll of *)
(* such a driver.  A driver that names another sector, be it the track      *)
(* number a read address left in the sector register, makes ssd_poll read   *)
(* or write outside: there the model stops.  (ssd_poll)                     *)
THEOREM BufferKept ==
  ASSUME Served
  PROVE  Spec /\ NamesSectors => []WithinBuffer
<1>1. Inv /\ Orderly /\ Steps /\ InSector => WithinBuffer
  <2> SUFFICES ASSUME Inv, Orderly, Steps, InSector PROVE WithinBuffer
    OBVIOUS
  <2>1. /\ op.read \in BOOLEAN /\ op.write \in BOOLEAN
        /\ op.address \in BOOLEAN /\ op.format \in BOOLEAN
    BY DEF Inv, TypeOK, Operation
  <2>2. CASE ~op.read /\ ~op.write /\ ~op.format
    BY <2>1, <2>2 DEF WithinBuffer, Active, One
  <2>3. CASE op.read \/ op.write \/ op.format
    <3>1. Active = 1
      BY <2>1, <2>3, OneOperation DEF Active, One
    <3>2. op.sector * SectorSize + op.pos \in Positions
      BY <2>3, InTrack DEF Steps, InPlace, InSector
    <3>3. op.sector * SectorSize + op.pos + Active - 1
            = op.sector * SectorSize + op.pos
      BY <3>1, <3>2 DEF Positions
    <3> QED  BY <3>2, <3>3 DEF WithinBuffer
  <2> QED  BY <2>2, <2>3
<1>2. Init => InSector
  <2> SUFFICES ASSUME Init PROVE InSector
    OBVIOUS
  <2>1. ~op.read /\ ~op.write
    BY SMT DEF Init, NoOperation
  <2> QED  BY <2>1 DEF InSector
<1>3. Inv /\ Orderly /\ InSector /\ [Next]_vars /\ [Names]_vars => InSector'
  BY SectorKept
<1> QED  BY <1>1, <1>2, <1>3, InvHolds, OrderlyHolds, StepsHold, PTL
         DEF Spec, NamesSectors

=============================================================================
