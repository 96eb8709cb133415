--------------------------------- MODULE Csw ---------------------------------
(***************************************************************************)
(* CSW tape images, src/csw.c.  An image is a sequence of half waves of    *)
(* the tape; pollcsw takes ten of them, or fewer when it hands the ULA a   *)
(* byte or the beginning of a tone.  All it sees of a half wave is whether *)
(* it is long: a 0 is one long wave, a 1 two short ones, a tone short ones.*)
(* A byte is a start bit, its bits from the lowest, and a stop bit.        *)
(***************************************************************************)
EXTENDS Integers, Sequences, SequencesExt

CONSTANTS
  Bits,       \* 8: the bits of a byte
  Waves,      \* 10: the half waves of a poll
  Tapes,      \* the images there are: what they hold in order, "tone" or bytes
  MaxOpened   \* bound: how often the user puts in another tape

VARIABLES
  tape,       \* the image in the recorder, what cswdat holds
  tapefast,   \* tapespeed
  cswpoint,   \* -1 as 0: the next half wave
  cswfresh,   \* cswpoint is -1
  cswskip, cintone, cindat, datbits, enddat,
  received,   \* the bytes handed over since the tape was put in.  History
  clean,      \* was the tape put in while the last one was in a tone?  History
  opened

csw == << tape, tapefast, cswpoint, cswfresh, cswskip, cintone, cindat,
          datbits, enddat, received, clean, opened >>

TapeByte == 0..(2^Bits - 1)
Item == [tone : BOOLEAN, byte : TapeByte]

ASSUME CswAssumption ==
  /\ Bits \in Nat \ {0} /\ Waves \in Nat /\ MaxOpened \in Nat
  /\ Tapes \subseteq Seq(Item)

(* The laws of powers, for the bits of a byte. *)
ASSUME CswPowers ==
  /\ 2^0 = 1
  /\ \A n \in 0..Bits : 2^n \in Nat \ {0}
  /\ \A n \in 0..(Bits - 1) : 2^(n + 1) = 2 * 2^n

Bit(byte, i) == (byte \div 2^i) % 2    \* i counts from 0

HalfWaves(bit) ==
  IF bit = 0 THEN <<"long", "long">> ELSE [i \in 1..4 |-> "short"]

BitWaves(byte) == [i \in 1..Bits |-> HalfWaves(Bit(byte, i - 1))]

EncodedByte(byte) == HalfWaves(0) \o FlattenSeq(BitWaves(byte)) \o HalfWaves(1)

ItemWaves(held) ==
  [ i \in DOMAIN held |-> IF held[i].tone THEN [j \in 1..6 |-> "short"]
                          ELSE EncodedByte(held[i].byte) ]

(* What the tapes the code is for look like. *)
Image == [held \in Tapes |-> FlattenSeq(ItemWaves(held))]

(* Behind the image the buffer is fresh memory: short half waves. *)
At(i) == IF i <= Len(Image[tape]) THEN Image[tape][i] ELSE "short"

(* cswdat is all there is to a tape: opencsw leaves the decoder as it was.  *)
Opened(held) ==
  /\ tape' = held /\ cswfresh' = TRUE /\ cswpoint' = 1
  /\ received' = <<>> /\ clean' = cintone
  /\ UNCHANGED <<tapefast, cswskip, cintone, cindat, datbits, enddat>>

CswInit ==
  /\ tape \in Tapes /\ tapefast \in BOOLEAN
  /\ cswfresh = TRUE /\ cswpoint = 1 /\ cswskip = 0
  /\ cintone = TRUE /\ cindat = FALSE /\ datbits = 0 /\ enddat = 0
  /\ received = <<>> /\ clean = TRUE /\ opened = 0

-----------------------------------------------------------------------------
(* One half wave.  over says that the poll ends with it. *)
Decoder ==
  [ point |-> cswpoint, skip |-> cswskip, tone |-> cintone, data |-> cindat,
    bits |-> datbits, byte |-> enddat, got |-> <<>>, over |-> FALSE ]

Fast(n) == IF tapefast THEN n ELSE 0

(* The rest of a bit's waves is passed. *)
BitPassed(d, long) ==
  [d EXCEPT !.point = @ + (IF long THEN 1 ELSE 3),
            !.skip = Fast(IF long THEN 6 ELSE 12)]

StartBit(d) ==
  [BitPassed(d, TRUE) EXCEPT !.tone = FALSE, !.data = TRUE,
                             !.bits = 0, !.byte = 0]

DataBit_HighestFirst(d, long) ==       \* mutant: shifts the other way
  [BitPassed(d, long) EXCEPT
     !.byte = (2 * @ + (IF long THEN 0 ELSE 1)) % 2^Bits, !.bits = @ + 1]

DataBit(d, long) ==
  [BitPassed(d, long) EXCEPT
     !.byte = (@ \div 2) + (IF long THEN 0 ELSE 2^(Bits - 1)), !.bits = @ + 1]

(* After the last bit datbits is -2, here Bits + 1; after the stop bit -1,  *)
(* here Bits + 2.                                                           *)
StopNext == Bits + 1
ToneNext == Bits + 2

HandOver(d) ==
  IF d.bits = Bits
  THEN [d EXCEPT !.bits = StopNext, !.got = <<d.byte>>, !.over = TRUE]
  ELSE d

StopBit(d, long) == [BitPassed(d, long) EXCEPT !.bits = ToneNext]

BackInTone(d) ==
  [d EXCEPT !.tone = TRUE, !.data = FALSE, !.bits = 0, !.over = TRUE]

HalfWave(before) ==
  LET long == At(before.point) = "long"
      d == [before EXCEPT !.point = @ + 1]
  IN  CASE before.skip > 0 -> [d EXCEPT !.skip = @ - 1]
        [] before.skip = 0 /\ d.tone -> IF long THEN StartBit(d) ELSE d
        [] before.skip = 0 /\ ~d.tone /\ d.data /\ d.bits < StopNext ->
             HandOver(DataBit(d, long))
        [] before.skip = 0 /\ ~d.tone /\ d.data /\ d.bits = StopNext ->
             StopBit(d, long)
        [] before.skip = 0 /\ ~d.tone /\ d.data /\ d.bits = ToneNext ->
             IF long THEN StartBit(d) ELSE BackInTone(d)

(* The half waves of a poll *)
Continue(d) == IF d.over THEN d ELSE HalfWave(d)
AfterWaves[i \in 0..Waves] == IF i = 0 THEN Decoder ELSE Continue(AfterWaves[i - 1])

PollCsw ==
  /\ cswpoint <= Len(Image[tape]) + Waves   \* bound: the buffer goes on
  /\ IF cswfresh
     THEN /\ cswfresh' = FALSE
          /\ UNCHANGED <<cswpoint, cswskip, cintone, cindat, datbits, enddat, received>>
     ELSE LET d == AfterWaves[Waves]
          IN  /\ cswpoint' = d.point /\ cswskip' = d.skip
              /\ cintone' = d.tone /\ cindat' = d.data
              /\ datbits' = d.bits /\ enddat' = d.byte
              /\ received' = received \o d.got
              /\ UNCHANGED cswfresh
  /\ UNCHANGED <<tape, tapefast, clean, opened>>

OpenCsw ==
  /\ opened < MaxOpened /\ opened' = opened + 1
  /\ \E held \in Tapes : Opened(held)

(* The tape has run out. *)
RunOut == cswpoint > Len(Image[tape]) + Waves /\ UNCHANGED csw

CswNext == PollCsw \/ OpenCsw \/ RunOut

CswSpec == CswInit /\ [][CswNext]_csw

-----------------------------------------------------------------------------
CswTypeOK ==
  /\ tape \in Tapes /\ tapefast \in BOOLEAN /\ cswfresh \in BOOLEAN
  /\ cswpoint \in Nat \ {0}
  /\ cswskip \in 0..12 /\ cintone \in BOOLEAN /\ cindat = ~cintone
  /\ datbits \in 0..ToneNext /\ enddat \in TapeByte
  /\ received \in Seq(TapeByte) /\ clean \in BOOLEAN /\ opened \in 0..MaxOpened

(* The bytes among the first k things a tape holds *)
BytesUpTo(held) ==
  LET upto[k \in 0..Len(held)] ==
        IF k = 0 THEN <<>>
        ELSE IF held[k].tone THEN upto[k - 1]
        ELSE Append(upto[k - 1], held[k].byte)
  IN  upto
BytesOf(held) == BytesUpTo(held)[Len(held)]

(* At normal speed a tape that was put in while the last one was in a tone  *)
(* gives its bytes in order, each with its own bits wherever in a poll they *)
(* begin, and all of them by its end.                                       *)
CswInOrder ==
  ~tapefast /\ clean =>
    /\ IsPrefix(received, BytesOf(tape))
    /\ cswpoint > Len(Image[tape]) => received = BytesOf(tape)
=============================================================================
