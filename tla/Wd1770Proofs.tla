---------------------------- MODULE Wd1770Proofs ----------------------------
(***************************************************************************)
(* Lemmas on the operators of the controller in Wd1770: each keeps a       *)
(* record Sound, and what each does to its fields.  The proofs about the   *)
(* disc formats rest on them.                                              *)
(***************************************************************************)
EXTENDS Wd1770, TLAPS

USE RegisterAssumption

(* What the three invariants of the status register say of one controller  *)
Sound(wd) ==
  /\ "motor" \in wd.status <=> wd.motoron
  /\ Busy(wd) => wd.motoron /\ ~wd.motorspin
  /\ Requesting(wd) => Busy(wd)

(* Controllers the code can have, while the motor runs and in any case *)
Good == {wd \in Controller : Sound(wd)}

-----------------------------------------------------------------------------
(* The controller's operators.  (1770.c) *)

(* reset1770 leaves a sound controller. *)
LEMMA FreshGood == FreshController \in Good
<1>1. "restore" \in CommandKind /\ {} \in SUBSET StatusBit /\ 0 \in Bytes
  BY DEF CommandKind, SeekCommands
<1>2. FreshController \in Controller
  BY <1>1, SMT DEF FreshController, Controller
<1> QED  BY <1>2 DEF FreshController, Good, Sound, Busy, Requesting

(* Spinning up or down keeps the registers' types. *)
LEMMA SpinType ==
  ASSUME NEW wd \in Controller
  PROVE  /\ SpinUp(wd) \in Controller
         /\ SpinDown(wd) \in Controller
<1>1. wd.status \cup {"motor"} \in SUBSET StatusBit
  BY DEF Controller, StatusBit
<1>2. wd.status \ {"motor"} \in SUBSET StatusBit
  BY DEF Controller
<1>3. SpinUp(wd) \in Controller
  BY <1>1, Zenon DEF SpinUp, Controller
<1>4. SpinDown(wd) \in Controller
  BY <1>2, Zenon DEF SpinDown, Controller
<1> QED  BY <1>3, <1>4

(* A head movement within the controller's range keeps the types. *)
LEMMA StepType ==
  ASSUME NEW wd \in Controller, NEW cmd,
         StepHead(wd, cmd).curtrack \in Bytes
  PROVE  StepHead(wd, cmd) \in Controller
<1> DEFINE at == StepHead(wd, cmd).curtrack
<1>1. /\ StepHead(wd, cmd) \in {wd, [wd EXCEPT !.curtrack = at],
                                [wd EXCEPT !.curtrack = at, !.stepdir = 1],
                                [wd EXCEPT !.curtrack = at, !.stepdir = -1]}
  BY DEF StepHead, Controller
<1> HIDE DEF at
<1>2. at \in Bytes
  BY DEF at
<1>3. [wd EXCEPT !.curtrack = at] \in Controller
  BY <1>2, Zenon DEF Controller
<1>4. [wd EXCEPT !.curtrack = at, !.stepdir = 1] \in Controller
  BY <1>2, Zenon DEF Controller
<1>5. [wd EXCEPT !.curtrack = at, !.stepdir = -1] \in Controller
  BY <1>2, Zenon DEF Controller
<1> QED  BY <1>1, <1>3, <1>4, <1>5, Zenon

(* It leaves everything but the head's position as it was. *)
LEMMA StepKeeps ==
  ASSUME NEW wd \in Controller, NEW cmd
  PROVE  /\ StepHead(wd, cmd).status = wd.status
         /\ StepHead(wd, cmd).motoron = wd.motoron
         /\ StepHead(wd, cmd).motorspin = wd.motorspin
  BY DEF StepHead, Controller

(* A head movement starts with the motor on and the command busy. *)
LEMMA StartSeekGood ==
  ASSUME NEW wd \in Controller, NEW cmd \in SeekCommands,
         StepHead(wd, cmd).curtrack \in Bytes
  PROVE  StartSeek(wd, cmd) \in Good
<1> DEFINE bits == {"motor", "spinup", "busy"} \cup Track0(wd)
<1>1. cmd \in CommandKind /\ bits \in SUBSET StatusBit
  BY DEF CommandKind, StatusBit, Track0
<1> HIDE DEF bits
<1> DEFINE up == SpinUp(wd)
           started == [up EXCEPT !.command = cmd, !.status = bits]
<1>7. up \in Controller
  BY SpinType
<1> HIDE DEF up
<1>2. up \in Controller /\ started \in Controller
  BY <1>1, <1>7, Zenon DEF Controller
<1> USE DEF up
<1>3. started.status = bits /\ started.motoron /\ ~started.motorspin
  BY <1>2 DEF SpinUp, Controller
<1>4. StartSeek(wd, cmd) = StepHead(started, cmd)
  BY DEF StartSeek, bits
<1>6. StepHead(started, cmd).curtrack = StepHead(wd, cmd).curtrack
  BY <1>2 DEF StepHead, SpinUp, Controller
<1> HIDE DEF started
<1>5. /\ "motor" \in bits /\ "busy" \in bits
      /\ StartSeek(wd, cmd).status = bits /\ StartSeek(wd, cmd).motoron
      /\ ~StartSeek(wd, cmd).motorspin
  BY <1>2, <1>3, <1>4, StepKeeps DEF bits
<1> QED  BY <1>2, <1>4, <1>5, <1>6, StepType DEF Good, Sound, Busy, Requesting

(* A transfer starts with the motor on and the command busy. *)
LEMMA StartTransferGood ==
  ASSUME NEW wd \in Controller, NEW cmd \in TransferCommands
  PROVE  StartTransfer(wd, cmd) \in Good
<1> DEFINE bits == {"motor", "busy"} \cup (IF cmd = "write" THEN {"drq"}
                                           ELSE {})
<1>1. cmd \in CommandKind /\ bits \in SUBSET StatusBit
  BY DEF CommandKind, StatusBit
<1> DEFINE up == SpinUp(wd)
           started == [up EXCEPT !.command = cmd, !.status = bits]
<1>2. StartTransfer(wd, cmd) = started
  BY DEF StartTransfer
<1> HIDE DEF bits
<1>5. up \in Controller
  BY SpinType
<1> HIDE DEF up
<1>3. up \in Controller /\ started \in Controller
  BY <1>1, <1>5, Zenon DEF Controller
<1> USE DEF up
<1>4. started.status = bits /\ started.motoron /\ ~started.motorspin
  BY <1>3 DEF SpinUp, Controller
<1> HIDE DEF started
<1> QED  BY <1>2, <1>3, <1>4 DEF bits, Good, Sound, Busy, Requesting

(* A controller that is spun down with a status that is not busy is sound. *)
LEMMA StoppedGood ==
  ASSUME NEW wd \in Controller, ~Busy(wd), ~Requesting(wd)
  PROVE  SpinDown(wd) \in Good
<1>1. SpinDown(wd).status = wd.status \ {"motor"} /\ ~SpinDown(wd).motoron
  BY DEF SpinDown, Controller
<1> QED  BY <1>1, SpinType DEF Good, Sound, Busy, Requesting

(* Every return that ends a command with an error stops the motor. *)
LEMMA EndWithGood ==
  ASSUME NEW wd \in Controller,
         NEW bits \in SUBSET (StatusBit \ {"motor", "busy", "drq"})
  PROVE  EndWith(wd, bits) \in Good
<1> DEFINE ended == [wd EXCEPT !.fdctime = "none",
                               !.status = {"motor"} \cup bits]
<1>1. {"motor"} \cup bits \in SUBSET StatusBit
  BY DEF StatusBit
<1>2. ended \in Controller
  BY <1>1, Zenon DEF Controller
<1>3. ended.status = {"motor"} \cup bits
  BY DEF Controller
<1>4. ~Busy(ended) /\ ~Requesting(ended)
  BY <1>3 DEF Busy, Requesting
<1> QED  BY <1>2, <1>4, StoppedGood DEF EndWith

(* So does a force interrupt. *)
LEMMA ForceGood ==
  ASSUME NEW wd \in Controller
  PROVE  ForceInterrupt(wd) \in Good
<1> DEFINE bits == {"motor"} \cup Track0(wd)
           ended == [wd EXCEPT !.command = "force", !.fdctime = "none",
                               !.status = bits]
<1>1. bits \in SUBSET StatusBit /\ "force" \in CommandKind
  BY DEF StatusBit, Track0, CommandKind
<1>2. ended \in Controller
  BY <1>1, Zenon DEF Controller
<1>3. ended.status = bits
  BY DEF Controller
<1>4. ~Busy(ended) /\ ~Requesting(ended)
  BY <1>3 DEF Busy, Requesting, Track0
<1> QED  BY <1>2, <1>4, StoppedGood DEF ForceInterrupt

(* Putting a byte in the data register, with any request, keeps a busy     *)
(* controller sound.                                                       *)
LEMMA DataGood ==
  ASSUME NEW wd \in Good, NEW b \in Bytes, NEW f \in BOOLEAN
  PROVE  /\ Busy(wd) => [wd EXCEPT !.data = b, !.status = @ \cup {"drq"}]
                          \in Good
         /\ Busy(wd) => [wd EXCEPT !.status = @ \cup {"drq"}, !.written = f]
                          \in Good
         /\ [wd EXCEPT !.status = @ \ {"drq"}, !.data = b, !.written = TRUE]
              \in Good
         /\ [wd EXCEPT !.written = f] \in Good
<1>1. wd \in Controller /\ Sound(wd)
  BY DEF Good
<1> DEFINE more == wd.status \cup {"drq"}
           fewer == wd.status \ {"drq"}
<1>2. more \in SUBSET StatusBit /\ fewer \in SUBSET StatusBit
  BY <1>1 DEF Controller, StatusBit
<1> HIDE DEF more, fewer
<1>3. [wd EXCEPT !.data = b, !.status = more] \in Controller
  BY <1>1, <1>2, Zenon DEF Controller
<1>4. [wd EXCEPT !.status = more, !.written = f] \in Controller
  BY <1>1, <1>2, Zenon DEF Controller
<1>5. [wd EXCEPT !.status = fewer, !.data = b, !.written = TRUE]
        \in Controller
  BY <1>1, <1>2, Zenon DEF Controller
<1>6. [wd EXCEPT !.written = f] \in Controller
  BY <1>1, <1>2, Zenon DEF Controller
<1> USE DEF more, fewer
<1>8. /\ Busy(wd) => Sound([wd EXCEPT !.data = b, !.status = @ \cup {"drq"}])
      /\ Busy(wd) => Sound([wd EXCEPT !.status = @ \cup {"drq"},
                                      !.written = f])
  BY <1>1, SMT DEF Controller, Sound, Busy, Requesting
<1>9. /\ Sound([wd EXCEPT !.status = @ \ {"drq"}, !.data = b,
                          !.written = TRUE])
      /\ Sound([wd EXCEPT !.written = f])
  BY <1>1, SMT DEF Controller, Sound, Busy, Requesting
<1> QED  BY <1>3, <1>4, <1>5, <1>6, <1>8, <1>9, Zenon DEF Good

(* Reading the data register takes the request away. *)
LEMMA ReadRegisterGood ==
  ASSUME NEW wd \in Good
  PROVE  ReadDataRegister(wd) \in Good
<1> DEFINE fewer == wd.status \ {"drq"}
<1>1. wd \in Controller /\ Sound(wd)
  BY DEF Good
<1>2. fewer \in SUBSET StatusBit
  BY <1>1 DEF Controller
<1>3. ReadDataRegister(wd) = [wd EXCEPT !.status = fewer]
  BY DEF ReadDataRegister
<1> HIDE DEF fewer
<1>4. [wd EXCEPT !.status = fewer] \in Controller
  BY <1>1, <1>2, Zenon DEF Controller
<1>5. Sound([wd EXCEPT !.status = fewer])
  BY <1>1, SMT DEF Controller, Sound, Busy, Requesting, fewer
<1> QED  BY <1>3, <1>4, <1>5 DEF Good

(* When the next timer event happens is nothing to the status register. *)
LEMMA TimerGood ==
  ASSUME NEW wd \in Good, NEW t \in {"none", "seek", "finish"}
  PROVE  [wd EXCEPT !.fdctime = t] \in Good
<1>1. wd \in Controller /\ Sound(wd)
  BY DEF Good
<1>2. [wd EXCEPT !.fdctime = t] \in Controller
  BY <1>1, Zenon DEF Controller
<1>3. Sound([wd EXCEPT !.fdctime = t])
  BY <1>1, SMT DEF Controller, Sound, Busy, Requesting
<1> QED  BY <1>2, <1>3 DEF Good

(* The operators the drives call to end a command keep it sound. *)
LEMMA DriveEndsGood ==
  ASSUME NEW wd \in Good
  PROVE  /\ EndWith(wd, {"lost"}) \in Good
         /\ FdcNotFound(wd) \in Good
         /\ FdcWriteProtect(wd) \in Good
         /\ FdcFinishRead(wd) \in Good
<1>1. wd \in Controller
  BY DEF Good
<1>2. /\ EndWith(wd, {"lost"}) \in Good
      /\ FdcNotFound(wd) \in Good /\ FdcWriteProtect(wd) \in Good
  BY <1>1, EndWithGood DEF FdcNotFound, FdcWriteProtect, StatusBit
<1>3. FdcFinishRead(wd) \in Good
  BY TimerGood DEF FdcFinishRead
<1> QED  BY <1>2, <1>3

(* So do those that move a byte. *)
LEMMA DriveCallsGood ==
  ASSUME NEW wd \in Good, NEW b \in Bytes, NEW last \in BOOLEAN
  PROVE  /\ FdcData(wd, b) \in Good
         /\ FdcGetData(wd, last) \in Good
<1>0. wd \in Controller
  BY DEF Good
<1>3. FdcData(wd, b) \in Good
  BY DriveEndsGood, DataGood DEF FdcData
<1>4. FdcGetData(wd, last) \in Good
  <2>1. CASE ~Busy(wd) \/ ~wd.written
    BY <2>1 DEF FdcGetData
  <2>2. CASE Busy(wd) /\ wd.written /\ last
    <3>1. [wd EXCEPT !.status = @, !.written = FALSE]
            = [wd EXCEPT !.written = FALSE]
      BY <1>0, Zenon DEF Controller
    <3> QED  BY <2>2, <3>1, DataGood DEF FdcGetData
  <2>3. CASE Busy(wd) /\ wd.written /\ ~last
    BY <2>3, DataGood DEF FdcGetData
  <2> QED  BY <2>1, <2>2, <2>3
<1> QED  BY <1>3, <1>4

(* The completion of a command, while the motor runs *)
LEMMA CallbackGood ==
  ASSUME NEW wd \in Good, wd.motoron
  PROVE  Callback(wd) \in Good
<1>1. wd \in Controller
  BY DEF Good
<1>2. CASE wd.command = "force"
  BY <1>2, TimerGood DEF Callback
<1>3. CASE wd.command # "force"
  <2> DEFINE done == Completed(wd)
             seekBits == {"motor"} \cup (IF wd.data = 0 THEN {} ELSE {"lost"})
  <2>1. /\ {"motor"} \in SUBSET StatusBit
        /\ {"motor"} \cup Track0(wd) \in SUBSET StatusBit
        /\ seekBits \in SUBSET StatusBit
    BY DEF StatusBit, Track0
  <2>2. done \in Controller
    <3> DEFINE at0 == {"motor"} \cup Track0(wd)
    <3> HIDE DEF seekBits
    <3>0. at0 \in SUBSET StatusBit
      BY <2>1
    <3> HIDE DEF at0
    <3>1. /\ wd.data \in Bytes /\ wd.curtrack \in Bytes /\ 0 \in Bytes
          /\ wd.track \in Bytes
      BY <1>1 DEF Controller
    <3>2. [wd EXCEPT !.curtrack = 0, !.track = 0, !.status = {"motor"}]
            \in Controller
      BY <1>1, <2>1, <3>1, Zenon DEF Controller
    <3>3. [wd EXCEPT !.curtrack = wd.data, !.track = wd.data,
                     !.status = seekBits] \in Controller
      BY <1>1, <2>1, <3>1, Zenon DEF Controller
    <3>4. [wd EXCEPT !.status = at0] \in Controller
      BY <1>1, <3>0, Zenon DEF Controller
    <3>5. [wd EXCEPT !.track = wd.curtrack, !.status = at0] \in Controller
      BY <1>1, <3>0, <3>1, Zenon DEF Controller
    <3>6. [wd EXCEPT !.sector = wd.track, !.status = {"motor"}] \in Controller
      BY <1>1, <2>1, <3>1, Zenon DEF Controller
    <3>7. [wd EXCEPT !.status = {"motor"}] \in Controller
      BY <1>1, <2>1, Zenon DEF Controller
    <3> QED  BY <3>2, <3>3, <3>4, <3>5, <3>6, <3>7
             DEF Completed, at0, seekBits
  <2>3. /\ "motor" \in done.status /\ "busy" \notin done.status
        /\ "drq" \notin done.status /\ done.motoron
    BY <1>1 DEF Completed, Controller, Track0
  <2> DEFINE rest == [done EXCEPT !.fdctime = "none", !.motorspin = TRUE]
  <2>4. rest \in Controller
    BY <2>2, Zenon DEF Controller
  <2>5. rest.status = done.status /\ rest.motoron = done.motoron
    BY <2>2 DEF Controller
  <2>6. Sound(rest)
    BY <2>3, <2>5 DEF Sound, Busy, Requesting
  <2> QED  BY <1>3, <2>4, <2>6 DEF Callback, Good
<1> QED  BY <1>2, <1>3

-----------------------------------------------------------------------------
(* What the controller's operators do to the fields the rest is about.      *)
(* (1770.c)                                                                 *)

(* A command is busy from its start; only a write begins with a request.    *)
LEMMA StartFields ==
  ASSUME NEW wd \in Controller, NEW cmd
  PROVE  /\ \A v \in {StartSeek(wd, cmd), StartTransfer(wd, cmd)} :
              /\ v.command = cmd /\ Busy(v) /\ v.fdctime = wd.fdctime
              /\ v.data = wd.data /\ v.written = wd.written
         /\ ~Requesting(StartSeek(wd, cmd))
         /\ Requesting(StartTransfer(wd, cmd)) <=> cmd = "write"
<1>1. /\ StartTransfer(wd, cmd).command = cmd
      /\ StartTransfer(wd, cmd).status
           = {"motor", "busy"} \cup (IF cmd = "write" THEN {"drq"} ELSE {})
      /\ StartTransfer(wd, cmd).fdctime = wd.fdctime
      /\ StartTransfer(wd, cmd).data = wd.data
      /\ StartTransfer(wd, cmd).written = wd.written
  BY SMT DEF StartTransfer, SpinUp, Controller
<1>2. /\ StartSeek(wd, cmd).command = cmd
      /\ StartSeek(wd, cmd).status
           = {"motor", "spinup", "busy"} \cup Track0(wd)
      /\ StartSeek(wd, cmd).fdctime = wd.fdctime
      /\ StartSeek(wd, cmd).data = wd.data
      /\ StartSeek(wd, cmd).written = wd.written
  BY SMT DEF StartSeek, StepHead, SpinUp, Controller
<1> QED  BY <1>1, <1>2 DEF Busy, Requesting, Track0

(* Force Interrupt and every error return leave the controller idle.        *)
LEMMA EndFields ==
  ASSUME NEW wd \in Controller
  PROVE  \A v \in {ForceInterrupt(wd), FdcNotFound(wd), FdcWriteProtect(wd)} :
           ~Busy(v) /\ ~Requesting(v) /\ v.fdctime = "none"
<1>1. /\ ForceInterrupt(wd).status
           = ({"motor"} \cup Track0(wd)) \ {"motor"}
      /\ ForceInterrupt(wd).fdctime = "none"
  BY SMT DEF ForceInterrupt, SpinDown, Controller
<1>2. /\ FdcNotFound(wd).status = {"motor", "notfound"} \ {"motor"}
      /\ FdcNotFound(wd).fdctime = "none"
  BY SMT DEF FdcNotFound, EndWith, SpinDown, Controller
<1>3. /\ FdcWriteProtect(wd).status = {"motor", "wprot"} \ {"motor"}
      /\ FdcWriteProtect(wd).fdctime = "none"
  BY SMT DEF FdcWriteProtect, EndWith, SpinDown, Controller
<1> QED  BY <1>1, <1>2, <1>3 DEF Busy, Requesting, Track0

(* A byte for a command that has had the one before: it is in the data      *)
(* register and requested.                                                  *)
LEMMA FdcDataFields ==
  ASSUME NEW wd \in Controller, NEW b, Busy(wd), ~Requesting(wd)
  PROVE  LET v == FdcData(wd, b)
         IN  /\ Busy(v) /\ Requesting(v) /\ v.data = b
             /\ v.command = wd.command /\ v.fdctime = wd.fdctime
             /\ v.written = wd.written
<1>1. FdcData(wd, b) = [wd EXCEPT !.data = b, !.status = @ \cup {"drq"}]
  BY DEF FdcData
<1> QED  BY <1>1, SMT DEF Busy, Requesting, Controller

(* The byte the CPU has supplied is taken, and unless it was the last one   *)
(* the next is requested.                                                   *)
LEMMA FdcGetDataFields ==
  ASSUME NEW wd \in Controller, NEW last \in BOOLEAN, Busy(wd), wd.written
  PROVE  LET v == FdcGetData(wd, last)
         IN  /\ Busy(v) /\ v.data = wd.data /\ v.command = wd.command
             /\ v.fdctime = wd.fdctime /\ ~v.written
             /\ (~last => Requesting(v)) /\ (last => v.status = wd.status)
<1>1. FdcGetData(wd, last)
        = [wd EXCEPT !.status = IF last THEN @ ELSE @ \cup {"drq"},
                     !.written = FALSE]
  BY DEF FdcGetData
<1> QED  BY <1>1, SMT DEF Busy, Requesting, Controller

(* The end of a transfer arms its callback.                                 *)
LEMMA FinishFields ==
  ASSUME NEW wd \in Controller
  PROVE  LET v == FdcFinishRead(wd)
         IN  /\ Busy(v) <=> Busy(wd)
             /\ Requesting(v) <=> Requesting(wd)
             /\ v.command = wd.command /\ v.fdctime = "finish"
             /\ v.data = wd.data /\ v.written = wd.written
  BY SMT DEF FdcFinishRead, Busy, Requesting, Controller

(* The callback leaves nothing due.                                         *)
LEMMA CallbackFields ==
  ASSUME NEW wd \in Controller
  PROVE  /\ Callback(wd).fdctime = "none"
         /\ Callback(wd).command = wd.command
         /\ wd.command # "force" => ~Busy(Callback(wd))
<1>1. /\ Completed(wd).command = wd.command
      /\ Completed(wd).status \in {{"motor"}, {"motor", "lost"},
                                   {"motor"} \cup Track0(wd)}
      /\ DOMAIN Completed(wd) = DOMAIN wd
  BY SMT DEF Completed, Controller
<1>2. CASE wd.command = "force"
  BY <1>2, SMT DEF Callback, Controller
<1>3. CASE wd.command # "force"
  <2> DEFINE done == Completed(wd)
  <2> HIDE DEF done
  <2>1. Callback(wd) = [done EXCEPT !.fdctime = "none", !.motorspin = TRUE]
    BY <1>3 DEF Callback, done
  <2>2. done.command = wd.command /\ "busy" \notin done.status
    BY <1>1 DEF done, Track0
  <2> QED  BY <1>1, <2>1, <2>2, SMT DEF Busy, Controller, done
<1> QED  BY <1>2, <1>3

(* The two kinds of command differ, and from Force Interrupt.               *)
LEMMA CommandsDiffer ==
  /\ SeekCommands \cap TransferCommands = {}
  /\ "force" \notin SeekCommands /\ "force" \notin TransferCommands
  /\ {"read", "write", "address", "format"} = TransferCommands
  BY DEF SeekCommands, TransferCommands

(* The other registers and the spin-down leave the command and what is due  *)
(* alone; the data register takes the request away.                         *)
LEMMA RegisterFields ==
  ASSUME NEW wd \in Controller, NEW b
  PROVE  /\ \A v \in {[wd EXCEPT !.track = b], [wd EXCEPT !.sector = b],
                      WriteDataRegister(wd, b), ReadDataRegister(wd),
                      [SpinDown(wd) EXCEPT !.motorspin = FALSE]} :
              /\ v.command = wd.command /\ Busy(v) <=> Busy(wd)
              /\ v.fdctime = wd.fdctime
         /\ WriteDataRegister(wd, b).data = b
         /\ WriteDataRegister(wd, b).written
         /\ ~Requesting(WriteDataRegister(wd, b))
         /\ ReadDataRegister(wd).data = wd.data
         /\ ReadDataRegister(wd).written = wd.written
         /\ ~Requesting(ReadDataRegister(wd))
<1>1. \A v \in {[wd EXCEPT !.track = b], [wd EXCEPT !.sector = b]} :
        /\ v.command = wd.command /\ v.status = wd.status
        /\ v.fdctime = wd.fdctime
  BY SMT DEF Controller
<1>2. LET v == WriteDataRegister(wd, b)
      IN  /\ v.command = wd.command /\ v.status = wd.status \ {"drq"}
          /\ v.fdctime = wd.fdctime /\ v.data = b /\ v.written
  BY SMT DEF Controller, WriteDataRegister
<1>3. LET v == ReadDataRegister(wd)
      IN  /\ v.command = wd.command /\ v.status = wd.status \ {"drq"}
          /\ v.fdctime = wd.fdctime /\ v.data = wd.data
          /\ v.written = wd.written
  BY SMT DEF Controller, ReadDataRegister
<1>4. LET v == [SpinDown(wd) EXCEPT !.motorspin = FALSE]
      IN  /\ v.command = wd.command /\ v.status = wd.status \ {"motor"}
          /\ v.fdctime = wd.fdctime
  BY SMT DEF Controller, SpinDown
<1> QED  BY <1>1, <1>2, <1>3, <1>4, SMT DEF Busy, Requesting

=============================================================================
