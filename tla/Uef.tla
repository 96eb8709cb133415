-------------------------------- MODULE Uef --------------------------------
(***************************************************************************)
(* UEF tape images, src/uef.c.  A tape is a sequence of chunks; polluef    *)
(* takes the next step of the chunk it is in and hands the ULA at most one *)
(* thing: a byte, or the start of a high tone.                             *)
(*                                                                         *)
(* A chunk is abstracted to what polluef does with it: the bytes it holds, *)
(* and for how many polls a gap lasts.  Bytes have DataBits bits.          *)
(***************************************************************************)
EXTENDS Naturals, Sequences, FiniteSets, FiniteSetsExt

CONSTANTS
  DataBits,   \* 8 in the code
  DummyByte,  \* 0xAA in the code
  Tape        \* the chunks of the image in the recorder

Byte == 0..(2^DataBits - 1)
ChunkKind ==
  { "data",          \* 0x100
    "defined",       \* 0x104
    "tone",          \* 0x110, longer than 20
    "shorttone",     \* 0x110, up to 20
    "dummy",         \* 0x111
    "gap",           \* 0x112
    "floatgap",      \* 0x116
    "rate",          \* 0x113
    "skipped" }      \* 0x000, 0x005, 0x114, 0x115
Chunk == [ id : ChunkKind, bytes : Seq(Byte), narrow : BOOLEAN, polls : Nat ]

ASSUME UefAssumption ==
  /\ DataBits \in Nat \ {0, 1}
  /\ DummyByte \in Byte
  /\ Tape \in Seq(Chunk)
  /\ \E i \in 1..Len(Tape) : Tape[i].id # "rate"
  /\ \A i \in 1..Len(Tape) :
       /\ Tape[i].id \in {"data", "defined"} => Tape[i].bytes # <<>>
       /\ Tape[i].narrow => Tape[i].id = "defined"
       /\ Tape[i].id \in {"gap", "floatgap"} => Tape[i].polls > 0

(* The laws of powers, for the widths of a byte and of the shift register:  *)
(* what the proofs need of any DataBits.                                    *)
ASSUME PowerAssumption ==
  /\ 2^0 = 1 /\ 2^1 = 2
  /\ \A m, n \in 0..(DataBits + 2) :
       /\ 2^n \in Nat \ {0}
       /\ m + n <= DataBits + 2 => 2^(m + n) = 2^m * 2^n

(* The bytes a tape holds; the dummy byte is one. *)
Holds(chunk) == IF chunk.id = "dummy" THEN 1 ELSE Len(chunk.bytes)
BytesOnTape == MapThenSumSet(LAMBDA i : Holds(Tape[i]), 1..Len(Tape))

(* The player's state.  given counts the bytes since the tape's beginning,  *)
(* it is a history.                                                         *)
Player ==
  [ at : 0..Len(Tape), inchunk : 0..2, chunkpos : {0, 1}, taken : Nat,
    intone : Nat, chunkf : Nat, pauseit : BOOLEAN, given : Nat ]

(* openuef: pauseit is not reset *)
Opened(pauseit) ==
  [ at |-> 0, inchunk |-> 0, chunkpos |-> 0, taken |-> 0, intone |-> 0,
    chunkf |-> 0, pauseit |-> pauseit, given |-> 0 ]

(* What a poll hands the ULA *)
Nothing == [kind |-> "nothing", byte |-> 0]
HighTone == [kind |-> "tone", byte |-> 0]
Receive(b) == [kind |-> "byte", byte |-> b]
Result(t, event) == [tape |-> t, event |-> event]

-----------------------------------------------------------------------------
(* The chunk after the one at i, the first again after the last; a chunk    *)
(* that sets the rate is passed in the same poll.                           *)
Following(i, k) == ((i + k - 1) % Len(Tape)) + 1
NextChunk(i) ==
  Following(i, Min({k \in 1..Len(Tape) : Tape[Following(i, k)].id # "rate"}))

ReadHeader(t) ==
  IF t.inchunk # 0 THEN t
  ELSE [t EXCEPT !.at = NextChunk(@), !.inchunk = 1, !.chunkpos = 0,
                 !.taken = 0, !.pauseit = FALSE,
                 !.given = IF NextChunk(t.at) <= t.at THEN 0 ELSE @]

Here(t) == Tape[t.at]
EndChunk(t) == [t EXCEPT !.inchunk = 0]
Given(t) == [t EXCEPT !.given = @ + 1]

NextByte(t) ==
  LET b == Here(t).bytes[t.taken + 1]
  IN  IF Here(t).narrow THEN b % 2^(DataBits - 1) ELSE b

TakeByte(t) ==
  LET next == [Given(t) EXCEPT !.taken = @ + 1]
  IN  Result(IF next.taken = Len(Here(t).bytes) THEN EndChunk(next) ELSE next,
             Receive(NextByte(t)))

Data(t) == TakeByte(t)

Defined(t) ==
  IF t.chunkpos = 0 THEN Result([t EXCEPT !.chunkpos = 1], Nothing)
  ELSE TakeByte(t)

CountTone_NeverEnds(t) ==              \* mutant: the chunk stays open
  [t EXCEPT !.intone = @ - 1]

(* intone counts the polls of a tone or a gap down. *)
CountTone(t) ==
  LET next == [t EXCEPT !.intone = @ - 1]
  IN  IF next.intone = 0 THEN EndChunk(next) ELSE next

Tone(t) ==
  IF t.intone = 0 THEN Result([t EXCEPT !.intone = 6], HighTone)
  ELSE Result(CountTone(t), Nothing)

ShortTone(t) == Result([EndChunk(t) EXCEPT !.pauseit = TRUE], Nothing)

(* A tone, a byte, and a second tone; inchunk = 2 in the second. *)
Dummy(t) ==
  IF t.intone = 0 THEN Result([t EXCEPT !.intone = 3], HighTone)
  ELSE IF t.inchunk # 2 /\ t.intone = 1
  THEN Result([Given(t) EXCEPT !.inchunk = 2, !.intone = 4],
              Receive(DummyByte))
  ELSE Result(CountTone(t), IF t.intone = 4 THEN HighTone ELSE Nothing)

Gap(t) ==
  IF t.intone = 0 THEN Result([t EXCEPT !.intone = Here(t).polls], Nothing)
  ELSE Result(CountTone(t), Nothing)

FloatGap(t) ==
  IF t.chunkpos = 0
  THEN Result([t EXCEPT !.chunkpos = 1, !.chunkf = Here(t).polls], Nothing)
  ELSE LET next == [t EXCEPT !.chunkf = @ - 1]
       IN  Result(IF next.chunkf = 0 THEN EndChunk(next) ELSE next, Nothing)

PollUef(tape) ==
  LET t == ReadHeader(tape)
      kind == Here(t).id
  IN  CASE kind = "data" -> Data(t)
        [] kind = "defined" -> Defined(t)
        [] kind = "tone" -> Tone(t)
        [] kind = "shorttone" -> ShortTone(t)
        [] kind = "dummy" -> Dummy(t)
        [] kind = "gap" -> Gap(t)
        [] kind = "floatgap" -> FloatGap(t)
        [] kind = "skipped" -> Result(EndChunk(t), Nothing)

=============================================================================
