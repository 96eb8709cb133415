----------------------------- MODULE UlaProofs -----------------------------
(***************************************************************************)
(* Proofs about Ula for every tape, byte width, bit time and set of        *)
(* interrupts: the types, that an enabled interrupt is never missed, that  *)
(* a byte and a tone are never announced together, that each byte of the   *)
(* tape is latched in step with its bits, and that none is skipped.        *)
(*                                                                         *)
(* The player's operators keep its counters in their ranges, the ULA's     *)
(* keep the registers typed and the interrupt line right; a poll is their  *)
(* composition, and the actions follow one by one.  The second half goes   *)
(* through the same operators for the bytes: what a poll hands over, and   *)
(* the frame of start bit, data and stop bit on its way down the shift     *)
(* register.                                                               *)
(***************************************************************************)
EXTENDS Ula, TLAPS, WellFoundedInduction

-----------------------------------------------------------------------------
(* A bit more doubles the number of values. *)
LEMMA Doubling ==
  ASSUME NEW n \in 0..(DataBits + 1)
  PROVE  2^n \in Nat \ {0} /\ 2^(n + 1) = 2 * 2^n
<1>1. DataBits \in Nat /\ DataBits > 1
  BY UefAssumption
<1>2. /\ n \in 0..(DataBits + 2) /\ 1 \in 0..(DataBits + 2)
      /\ 1 + n = n + 1 /\ 1 + n <= DataBits + 2
  BY <1>1
<1>3. 2^n \in Nat \ {0} /\ 2^(1 + n) = 2^1 * 2^n
  BY <1>2, PowerAssumption
<1> QED  BY <1>2, <1>3, PowerAssumption

(* The numbers of values of a byte, of its half, and of the words around it *)
LEMMA Powers ==
  /\ 2^(DataBits - 1) \in Nat \ {0} /\ 2^DataBits \in Nat \ {0}
  /\ 2^DataBits = 2 * 2^(DataBits - 1)
  /\ 2^(DataBits + 1) = 2 * 2^DataBits
  /\ 2^(DataBits + 2) = 4 * 2^DataBits
<1>1. DataBits \in Nat /\ DataBits > 1
  BY UefAssumption
<1>2. /\ DataBits - 1 \in 0..(DataBits + 1) /\ (DataBits - 1) + 1 = DataBits
      /\ DataBits \in 0..(DataBits + 1) /\ DataBits + 1 \in 0..(DataBits + 1)
      /\ (DataBits + 1) + 1 = DataBits + 2
  BY <1>1
<1>3. 2^(DataBits - 1) \in Nat \ {0} /\ 2^DataBits = 2 * 2^(DataBits - 1)
  BY <1>2, Doubling
<1>4. 2^DataBits \in Nat \ {0} /\ 2^(DataBits + 1) = 2 * 2^DataBits
  BY <1>2, Doubling
<1>5. 2^(DataBits + 2) = 2 * 2^(DataBits + 1)
  BY <1>2, Doubling
<1> QED  BY <1>3, <1>4, <1>5

-----------------------------------------------------------------------------
(* The UEF player.  (uef.c) *)

(* What a player in a chunk can rely on: it is one of the tape's that polls *)
(* stop at, its bytes are not used up, and its gap is not over.             *)
Inside(t) ==
  t.inchunk # 0 =>
    /\ t.at \in 1..Len(Tape) /\ Here(t).id # "rate"
    /\ Here(t).id \in {"data", "defined"} => t.taken < Len(Here(t).bytes)
    /\ Here(t).id = "floatgap" /\ t.chunkpos = 1 => t.chunkf > 0
Playable == {t \in Player : Inside(t)}
InChunk == {t \in Playable : t.inchunk # 0}

Event == [kind : {"nothing", "byte", "tone"}, byte : Byte]
Outcome == [tape : Playable, event : Event]

(* The tape is a sequence of chunks. *)
LEMMA TapeType ==
  /\ Tape \in Seq(Chunk) /\ Len(Tape) \in Nat
  /\ \A i \in 1..Len(Tape) : Tape[i] \in Chunk
<1>1. Tape \in Seq(Chunk)
  BY UefAssumption
<1> QED  BY <1>1

(* Chunks of data have data, and gaps take time. *)
LEMMA ChunkFacts ==
  ASSUME NEW i \in 1..Len(Tape)
  PROVE  /\ Tape[i].id \in {"data", "defined"} => Len(Tape[i].bytes) > 0
         /\ Tape[i].id \in {"gap", "floatgap"} => Tape[i].polls > 0
<1>1. Tape[i].id \in {"data", "defined"} => Tape[i].bytes # <<>>
  BY UefAssumption
<1>2. Tape[i].bytes \in Seq(Byte)
  BY TapeType DEF Chunk
<1>3. Tape[i].bytes # <<>> => Len(Tape[i].bytes) > 0
  BY <1>2
<1> QED  BY <1>1, <1>3, UefAssumption

(* Remainders by the number of chunks *)
LEMMA Remainders ==
  ASSUME NEW n \in Nat \ {0}, NEW a \in 0..(n - 1), NEW b \in Nat
  PROVE  a % n = a /\ (a + n) % n = a /\ b % n \in 0..(n - 1)
<1>1. a % n = a
  OBVIOUS
<1>2. (a + n) % n = a
  OBVIOUS
<1>3. b % n \in 0..(n - 1)
  OBVIOUS
<1> QED  BY <1>1, <1>2, <1>3

(* A set of naturals that is not empty has a least element, which is Min. *)
LEMMA MinIn ==
  ASSUME NEW S \in SUBSET Nat, S # {}
  PROVE  Min(S) \in S
<1> DEFINE Less == {ss \in Nat \X Nat : ss[1] < ss[2]}
<1>1. IsWellFoundedOn(Less, Nat)
  BY NatLessThanWellFounded DEF OpToRel
<1> HIDE DEF Less
<1>2. PICK x \in S : \A y \in S : ~(<<y, x>> \in Less)
  BY <1>1, WFMin
<1> USE DEF Less
<1>3. \A y \in S : x =< y
  <2> SUFFICES ASSUME NEW y \in S PROVE x =< y
    OBVIOUS
  <2>1. x \in Nat /\ y \in Nat
    OBVIOUS
  <2>2. y < x => <<y, x>> \in Less
    BY <2>1
  <2> QED  BY <1>2, <2>1, <2>2
<1>4. \E z \in S : \A y \in S : z =< y
  BY <1>3, Zenon
<1> QED  BY <1>4, Zenon DEF Min

(* The player always finds a chunk it can stop at.  (polluef, polltop) *)
LEMMA NextChunkType ==
  ASSUME NEW i \in 0..Len(Tape)
  PROVE  NextChunk(i) \in 1..Len(Tape) /\ Tape[NextChunk(i)].id # "rate"
<1> DEFINE N == Len(Tape)
           S == {k \in 1..N : Tape[Following(i, k)].id # "rate"}
<1>1. PICK j \in 1..N : Tape[j].id # "rate"
  BY UefAssumption
<1>2. N \in Nat \ {0} /\ i \in 0..N /\ j \in 1..N
  BY TapeType
<1>3. \A k \in 1..N : Following(i, k) = ((i + k - 1) % N) + 1
  BY DEF Following
<1>4. NextChunk(i) = Following(i, Min(S))
  BY DEF NextChunk
<1> HIDE DEF N
<1>5. \E k \in 1..N : Following(i, k) = j
  <2>1. CASE j > i
    <3> DEFINE k == j - i
    <3>1. k \in 1..N /\ i + k - 1 = j - 1 /\ j - 1 \in 0..(N - 1)
      BY <1>2, <2>1
    <3>2. (i + k - 1) % N = j - 1
      BY <1>2, <3>1, Remainders
    <3>3. ((i + k - 1) % N) + 1 = j
      BY <1>2, <3>2
    <3> HIDE DEF k
    <3>4. Following(i, k) = j
      BY <1>3, <3>1, <3>3
    <3> QED  BY <3>1, <3>4, Zenon
  <2>2. CASE j <= i
    <3> DEFINE k == j - i + N
    <3>1. k \in 1..N /\ i + k - 1 = (j - 1) + N /\ j - 1 \in 0..(N - 1)
      BY <1>2, <2>2
    <3>2. (i + k - 1) % N = j - 1
      BY <1>2, <3>1, Remainders
    <3>3. ((i + k - 1) % N) + 1 = j
      BY <1>2, <3>2
    <3> HIDE DEF k
    <3>4. Following(i, k) = j
      BY <1>3, <3>1, <3>3
    <3> QED  BY <3>1, <3>4, Zenon
  <2> QED  BY <1>2, <2>1, <2>2
<1>6. S \in SUBSET Nat /\ S # {}
  BY <1>1, <1>2, <1>5
<1>7. Min(S) \in S
  BY <1>6, MinIn
<1>8. \A k \in 1..N : Following(i, k) \in 1..N
  <2> SUFFICES ASSUME NEW k \in 1..N PROVE Following(i, k) \in 1..N
    OBVIOUS
  <2>1. i + k - 1 \in Nat /\ N - 1 \in 0..(N - 1)
    BY <1>2
  <2>2. (i + k - 1) % N \in 0..(N - 1)
    BY <1>2, <2>1, Remainders
  <2> QED  BY <1>2, <1>3, <2>2
<1> QED  BY <1>4, <1>7, <1>8 DEF N

(* A player at a place its chunk allows may change its counters. *)
LEMMA SamePlace ==
  ASSUME NEW t \in InChunk, NEW r \in Player, r.at = t.at,
         r.taken = t.taken, r.chunkpos = t.chunkpos, r.chunkf = t.chunkf
  PROVE  r \in Playable
  BY Zenon DEF Playable, InChunk, Inside, Here

(* The fields of a player, for the provers *)
LEMMA PlayerFields ==
  ASSUME NEW t \in Player
  PROVE  /\ t.at \in 0..Len(Tape) /\ t.inchunk \in 0..2
         /\ t.chunkpos \in {0, 1} /\ t.taken \in Nat /\ t.intone \in Nat
         /\ t.chunkf \in Nat /\ t.pauseit \in BOOLEAN /\ t.given \in Nat
  BY SMT DEF Player

(* The end of a chunk is a place to go on from.  (polluef, inchunk = 0) *)
LEMMA EndChunkType ==
  ASSUME NEW t \in Player
  PROVE  EndChunk(t) \in Playable
<1>1. 0 \in 0..2
  OBVIOUS
<1>2. EndChunk(t) \in Player
  BY <1>1, Zenon DEF EndChunk, Player
<1>3. EndChunk(t).inchunk = 0
  BY SMT DEF EndChunk, Player
<1> QED  BY <1>2, <1>3 DEF Playable, Inside

(* A poll begins in a chunk.  (polluef) *)
LEMMA ReadHeaderType ==
  ASSUME NEW t \in Playable
  PROVE  ReadHeader(t) \in InChunk
<1>1. t \in Player
  BY DEF Playable
<1>2. CASE t.inchunk # 0
  BY <1>2, Zenon DEF ReadHeader, InChunk
<1>3. CASE t.inchunk = 0
  <2> DEFINE n == NextChunk(t.at)
             g == IF n <= t.at THEN 0 ELSE t.given
             r == [t EXCEPT !.at = n, !.inchunk = 1, !.chunkpos = 0,
                            !.taken = 0, !.pauseit = FALSE, !.given = g]
  <2>1. ReadHeader(t) = r
    BY <1>3, Zenon DEF ReadHeader
  <2>2. n \in 1..Len(Tape) /\ Tape[n].id # "rate"
    BY <1>1, PlayerFields, NextChunkType
  <2>3. n \in 0..Len(Tape) /\ 1 \in 0..2 /\ 0 \in {0, 1} /\ 0 \in Nat
        /\ FALSE \in BOOLEAN
    BY <2>2, TapeType
  <2>4. g \in Nat
    BY <1>1, PlayerFields
  <2> HIDE DEF n, g
  <2>5. r \in Player
    BY <1>1, <2>3, <2>4, ZenonT(30) DEF Player
  <2>6. r.at = n /\ r.inchunk = 1 /\ r.chunkpos = 0 /\ r.taken = 0
    BY <1>1, SMT DEF Player
  <2> HIDE DEF r
  <2>7. Here(r) = Tape[n]
    BY <2>6 DEF Here
  <2>8. Here(r).id \in {"data", "defined"} => r.taken < Len(Here(r).bytes)
    BY <2>2, <2>6, <2>7, ChunkFacts
  <2>9. Inside(r)
    BY <2>2, <2>6, <2>7, <2>8 DEF Inside
  <2> QED  BY <2>1, <2>5, <2>6, <2>9 DEF InChunk, Playable
<1> QED  BY <1>2, <1>3

(* The three things a poll can hand over *)
LEMMA EventType ==
  /\ Nothing \in Event /\ HighTone \in Event
  /\ \A b \in Byte : Receive(b) \in Event
<1>1. 0 \in Byte
  BY Powers DEF Byte
<1> QED  BY <1>1 DEF Nothing, HighTone, Receive, Event

(* A place to go on from and a thing handed over make an outcome. *)
LEMMA ResultType ==
  ASSUME NEW t \in Playable, NEW e \in Event
  PROVE  Result(t, e) \in Outcome
  BY Zenon DEF Result, Outcome

(* What a chunk holds is a byte, also with seven bits.  (polluef, 0x104) *)
LEMMA NextByteType ==
  ASSUME NEW t \in InChunk, Here(t).id \in {"data", "defined"}
  PROVE  NextByte(t) \in Byte
<1> DEFINE at == t.taken + 1
           b == Here(t).bytes[at]
           half == 2^(DataBits - 1)
<1>1. t \in Player /\ Inside(t) /\ t.inchunk # 0
  BY DEF InChunk, Playable
<1>2. t.at \in 1..Len(Tape) /\ t.taken < Len(Here(t).bytes)
  BY <1>1 DEF Inside
<1>3. Here(t) \in Chunk
  BY <1>2, TapeType DEF Here
<1>4. Here(t).bytes \in Seq(Byte)
  BY <1>3 DEF Chunk
<1>5. at \in 1..Len(Here(t).bytes)
  BY <1>1, <1>2, <1>4, PlayerFields
<1>6. b \in Byte
  BY <1>4, <1>5
<1>7. half \in Nat \ {0} /\ Byte = 0..(2 * half - 1)
  BY Powers DEF Byte
<1>8. NextByte(t) = IF Here(t).narrow THEN b % half ELSE b
  BY DEF NextByte
<1> HIDE DEF b, half
<1>9. b % half \in 0..(half - 1)
  <2>1. b \in Nat
    BY <1>6, <1>7
  <2> QED  BY <2>1, <1>7, Remainders
<1> QED  BY <1>6, <1>7, <1>8, <1>9

(* The player after a byte is taken from a chunk that has more.  (polluef)  *)
LEMMA TakeByteType ==
  ASSUME NEW t \in InChunk, Here(t).id \in {"data", "defined"}
  PROVE  TakeByte(t) \in Outcome
<1> DEFINE g == t.given + 1
           n == t.taken + 1
           next == [Given(t) EXCEPT !.taken = @ + 1]
           r == [t EXCEPT !.given = g, !.taken = n]
<1>1. t \in Player /\ Inside(t) /\ t.inchunk # 0
  BY DEF InChunk, Playable
<1>2. /\ t.at \in 1..Len(Tape) /\ t.taken < Len(Here(t).bytes)
      /\ Here(t).id # "rate" /\ Here(t).id # "floatgap"
  BY <1>1 DEF Inside
<1>3. g \in Nat /\ n \in Nat
  BY <1>1, PlayerFields
<1>4. next = r
  BY <1>1, SMT DEF Given, Player
<1> HIDE DEF g
<1>5. r \in Player
  <2> HIDE DEF n
  <2> QED  BY <1>1, <1>3, Zenon DEF Player
<1>6. r.at = t.at /\ r.taken = n
  BY <1>1, SMT DEF Player
<1> HIDE DEF r
<1>7. Here(r) = Here(t)
  BY <1>6 DEF Here
<1>8. Here(t).bytes \in Seq(Byte)
  BY <1>2, TapeType DEF Here, Chunk
<1>9. r.taken # Len(Here(t).bytes) => r.taken < Len(Here(r).bytes)
  <2>1. Len(Here(t).bytes) \in Nat /\ t.taken \in Nat
    BY <1>1, <1>8, PlayerFields
  <2>2. r.taken = t.taken + 1
    BY <1>6
  <2>3. t.taken < Len(Here(t).bytes)
    BY <1>2
  <2> QED  BY <2>1, <2>2, <2>3, <1>7
<1>10. r.taken # Len(Here(t).bytes) => r \in Playable
  BY <1>2, <1>5, <1>6, <1>7, <1>9 DEF Playable, Inside
<1>11. EndChunk(r) \in Playable
  BY <1>5, EndChunkType
<1> DEFINE after == IF r.taken = Len(Here(t).bytes) THEN EndChunk(r) ELSE r
<1>12. after \in Playable
  BY <1>10, <1>11
<1>13. Receive(NextByte(t)) \in Event
  BY NextByteType, EventType
<1>14. TakeByte(t) = Result(after, Receive(NextByte(t)))
  BY <1>4 DEF TakeByte
<1> HIDE DEF after
<1> QED  BY <1>12, <1>13, <1>14, ResultType

(* Setting the countdown of a tone or a gap, and counting it down *)
LEMMA SetTone ==
  ASSUME NEW t \in InChunk, NEW n \in Nat
  PROVE  [t EXCEPT !.intone = n] \in Playable
<1> DEFINE r == [t EXCEPT !.intone = n]
<1>1. t \in Player
  BY DEF InChunk, Playable
<1>2. r \in Player
  BY <1>1, Zenon DEF Player
<1>3. /\ r.at = t.at /\ r.taken = t.taken /\ r.chunkpos = t.chunkpos
      /\ r.chunkf = t.chunkf
  BY <1>1, SMT DEF Player
<1> HIDE DEF r
<1> QED  BY <1>2, <1>3, SamePlace DEF r

(* Counting a tone or a gap down stops at 0.  (polluef, intone) *)
LEMMA CountToneType ==
  ASSUME NEW t \in InChunk, t.intone # 0
  PROVE  CountTone(t) \in Playable
<1> DEFINE n == t.intone - 1
           r == [t EXCEPT !.intone = n]
<1>1. t \in Player
  BY DEF InChunk, Playable
<1>2. n \in Nat
  BY <1>1, PlayerFields
<1>3. CountTone(t) = IF r.intone = 0 THEN EndChunk(r) ELSE r
  BY DEF CountTone
<1> HIDE DEF n
<1>4. r \in Playable
  BY <1>2, SetTone
<1>5. r \in Player
  BY <1>4 DEF Playable
<1> HIDE DEF r
<1> QED  BY <1>3, <1>4, <1>5, EndChunkType

(* Each kind of chunk.  (the cases of polluef) *)
LEMMA DefinedType ==
  ASSUME NEW t \in InChunk, Here(t).id = "defined"
  PROVE  Defined(t) \in Outcome
<1> DEFINE r == [t EXCEPT !.chunkpos = 1]
<1>1. t \in Player /\ Inside(t) /\ t.inchunk # 0
  BY DEF InChunk, Playable
<1>2. 1 \in {0, 1}
  OBVIOUS
<1>3. r \in Player
  BY <1>1, <1>2, Zenon DEF Player
<1>4. r.at = t.at /\ r.taken = t.taken
  BY <1>1, SMT DEF Player
<1>5. Defined(t) = IF t.chunkpos = 0 THEN Result(r, Nothing) ELSE TakeByte(t)
  BY Zenon DEF Defined
<1> HIDE DEF r
<1>6. r \in Playable
  BY <1>1, <1>3, <1>4 DEF Playable, Inside, Here
<1> QED  BY <1>5, <1>6, TakeByteType, EventType, ResultType

(* 0x110: a long tone is announced once and then counted down. *)
LEMMA ToneType ==
  ASSUME NEW t \in InChunk
  PROVE  Tone(t) \in Outcome
<1>1. [t EXCEPT !.intone = 6] \in Playable
  BY SetTone
<1>2. Tone(t) = IF t.intone = 0 THEN Result([t EXCEPT !.intone = 6], HighTone)
                ELSE Result(CountTone(t), Nothing)
  BY Zenon DEF Tone
<1> QED  BY <1>1, <1>2, CountToneType, EventType, ResultType

(* 0x110: a short tone sets pauseit and ends. *)
LEMMA ShortToneType ==
  ASSUME NEW t \in InChunk
  PROVE  ShortTone(t) \in Outcome
<1> DEFINE e == EndChunk(t)
           r == [e EXCEPT !.pauseit = TRUE]
<1>1. t \in Player
  BY DEF InChunk, Playable
<1>2. e \in Player /\ e.inchunk = 0
  BY <1>1, EndChunkType, SMT DEF EndChunk, Playable, Player
<1> HIDE DEF e
<1>3. TRUE \in BOOLEAN
  OBVIOUS
<1>4. r \in Player
  BY <1>2, <1>3, Zenon DEF Player
<1>5. r.inchunk = 0
  BY <1>2, SMT DEF Player
<1>6. ShortTone(t) = Result(r, Nothing)
  BY DEF ShortTone, e
<1> HIDE DEF r
<1>7. r \in Playable
  BY <1>4, <1>5 DEF Playable, Inside
<1> QED  BY <1>6, <1>7, EventType, ResultType

(* 0x111: a tone, a byte and a tone *)
LEMMA DummyType ==
  ASSUME NEW t \in InChunk
  PROVE  Dummy(t) \in Outcome
<1> DEFINE g == t.given + 1
           r == [t EXCEPT !.given = g, !.inchunk = 2, !.intone = 4]
           begun == [t EXCEPT !.intone = 3]
           dummy == [Given(t) EXCEPT !.inchunk = 2, !.intone = 4]
           event == IF t.intone = 4 THEN HighTone ELSE Nothing
<1>1. t \in Player
  BY DEF InChunk, Playable
<1>2. g \in Nat /\ 2 \in 0..2 /\ 4 \in Nat
  BY <1>1, PlayerFields
<1>3. dummy = r
  BY <1>1, SMT DEF Given, Player
<1> HIDE DEF g
<1>4. r \in Player
  BY <1>1, <1>2, Zenon DEF Player
<1>5. /\ r.at = t.at /\ r.taken = t.taken /\ r.chunkpos = t.chunkpos
      /\ r.chunkf = t.chunkf
  BY <1>1, SMT DEF Player
<1> HIDE DEF r
<1>6. r \in Playable
  BY <1>4, <1>5, SamePlace
<1>7. begun \in Playable
  BY SetTone
<1>8. Dummy(t) = IF t.intone = 0 THEN Result(begun, HighTone)
                 ELSE IF t.inchunk # 2 /\ t.intone = 1
                 THEN Result(dummy, Receive(DummyByte))
                 ELSE Result(CountTone(t), event)
  BY Zenon DEF Dummy
<1> HIDE DEF dummy, begun
<1>9. Receive(DummyByte) \in Event /\ event \in Event
  BY UefAssumption, EventType
<1> HIDE DEF event
<1>10. Result(begun, HighTone) \in Outcome
  BY <1>7, EventType, ResultType
<1>11. Result(dummy, Receive(DummyByte)) \in Outcome
  BY <1>3, <1>6, <1>9, ResultType
<1>12. t.intone # 0 => Result(CountTone(t), event) \in Outcome
  BY <1>9, CountToneType, ResultType
<1> QED  BY <1>8, <1>10, <1>11, <1>12

(* The chunk a player is in is one of the tape's. *)
LEMMA HereType ==
  ASSUME NEW t \in InChunk
  PROVE  /\ Here(t) \in Chunk /\ Here(t).id # "rate"
         /\ Here(t).id \in {"gap", "floatgap"} => Here(t).polls > 0
<1>1. t.at \in 1..Len(Tape) /\ Here(t).id # "rate"
  BY DEF InChunk, Playable, Inside
<1> QED  BY <1>1, TapeType, ChunkFacts DEF Here

(* 0x112: a gap of a number of polls *)
LEMMA GapType ==
  ASSUME NEW t \in InChunk
  PROVE  Gap(t) \in Outcome
<1> DEFINE n == Here(t).polls
<1>1. n \in Nat
  BY HereType DEF Chunk
<1>2. Gap(t) = IF t.intone = 0 THEN Result([t EXCEPT !.intone = n], Nothing)
               ELSE Result(CountTone(t), Nothing)
  BY Zenon DEF Gap
<1> HIDE DEF n
<1>3. [t EXCEPT !.intone = n] \in Playable
  BY <1>1, SetTone
<1> QED  BY <1>2, <1>3, CountToneType, EventType, ResultType

(* 0x116: a gap whose length is counted down in chunkf *)
LEMMA FloatGapType ==
  ASSUME NEW t \in InChunk, Here(t).id = "floatgap"
  PROVE  FloatGap(t) \in Outcome
<1> DEFINE n == Here(t).polls
           m == t.chunkf - 1
           begun == [t EXCEPT !.chunkpos = 1, !.chunkf = n]
           next == [t EXCEPT !.chunkf = m]
           after == IF next.chunkf = 0 THEN EndChunk(next) ELSE next
<1>1. t \in Player /\ Inside(t) /\ t.inchunk # 0
  BY DEF InChunk, Playable
<1>2. n \in Nat /\ n > 0
  BY HereType DEF Chunk
<1>3. FloatGap(t) = IF t.chunkpos = 0 THEN Result(begun, Nothing)
                    ELSE Result(after, Nothing)
  BY Zenon DEF FloatGap
<1>4. t.chunkpos # 0 => t.chunkf > 0
  BY <1>1, PlayerFields DEF Inside
<1>5. t.chunkpos # 0 => m \in Nat
  <2>1. t.chunkf \in Nat
    BY <1>1, PlayerFields
  <2> QED  BY <1>4, <2>1
<1>6. 1 \in {0, 1}
  OBVIOUS
<1>7. begun \in Player /\ (t.chunkpos # 0 => next \in Player)
  <2> HIDE DEF n, m
  <2> QED  BY <1>1, <1>2, <1>5, <1>6, Zenon DEF Player
<1>8. begun.at = t.at /\ begun.taken = t.taken /\ begun.chunkf = n
  BY <1>1, SMT DEF Player
<1>9. next.at = t.at /\ next.taken = t.taken /\ next.chunkf = m
  BY <1>1, SMT DEF Player
<1> HIDE DEF begun, next, n, m
<1>10. begun \in Playable
  BY <1>1, <1>2, <1>7, <1>8 DEF Playable, Inside, Here
<1>11. t.chunkpos # 0 /\ next.chunkf # 0 => next \in Playable
  <2>1. t.chunkpos # 0 /\ next.chunkf # 0 => next.chunkf > 0
    BY <1>5, <1>9
  <2> QED  BY <1>1, <1>7, <1>9, <2>1 DEF Playable, Inside, Here
<1>12. t.chunkpos # 0 => after \in Playable
  BY <1>7, <1>11, EndChunkType
<1> HIDE DEF after
<1> QED  BY <1>3, <1>10, <1>12, EventType, ResultType

(* A poll of the player leaves it in a place it can go on from, and hands   *)
(* over at most one byte or the start of a tone.  (polluef)                 *)
LEMMA PollUefType ==
  ASSUME NEW t \in Playable
  PROVE  PollUef(t) \in Outcome
<1> DEFINE r == ReadHeader(t)
           kind == Here(r).id
<1>1. r \in InChunk
  BY ReadHeaderType
<1>2. PollUef(t) = CASE kind = "data" -> Data(r)
                     [] kind = "defined" -> Defined(r)
                     [] kind = "tone" -> Tone(r)
                     [] kind = "shorttone" -> ShortTone(r)
                     [] kind = "dummy" -> Dummy(r)
                     [] kind = "gap" -> Gap(r)
                     [] kind = "floatgap" -> FloatGap(r)
                     [] kind = "skipped" -> Result(EndChunk(r), Nothing)
  BY Zenon DEF PollUef
<1> HIDE DEF r
<1>3. kind \in ChunkKind \ {"rate"}
  BY <1>1, HereType DEF Chunk
<1>4. kind = "data" => Data(r) \in Outcome
  BY <1>1, TakeByteType DEF Data
<1>5. Result(EndChunk(r), Nothing) \in Outcome
  <2>1. r \in Player
    BY <1>1 DEF InChunk, Playable
  <2> QED  BY <2>1, EndChunkType, EventType, ResultType
<1>6. /\ Tone(r) \in Outcome /\ ShortTone(r) \in Outcome
      /\ Dummy(r) \in Outcome /\ Gap(r) \in Outcome
  BY <1>1, ToneType, ShortToneType, DummyType, GapType
<1>7. /\ kind = "defined" => Defined(r) \in Outcome
      /\ kind = "floatgap" => FloatGap(r) \in Outcome
  BY <1>1, DefinedType, FloatGapType
<1> HIDE DEF kind
<1> QED  BY <1>2, <1>3, <1>4, <1>5, <1>6, <1>7, SMT DEF ChunkKind

-----------------------------------------------------------------------------
(* The registers of the ULA.  (ula.c) *)

(* What InterruptSeen and ByteOrTone say of one set of registers *)
Seen(r) == Wanted(r) => r.irq /\ "master" \in r.isr
Apart(r) == ~({"receive", "hightone"} \subseteq r.isr)

(* The flag of a byte is up for two bits after it was latched, or a write   *)
(* of the data register has put a start bit in its place.                   *)
Fresh(r) == "receive" \in r.isr => r.bitcount \in {DataBits, DataBits + 1}
Counted(r) == Fresh(r) \/ (r.bitcount = 0 /\ r.tapedat % 4 = 1)

(* Registers that are the same to the interrupts *)
SameInts(r, s) == r.isr = s.isr /\ r.ier = s.ier /\ r.irq = s.irq

(* The values of the shift register and of a byte *)
LEMMA Words ==
  /\ DataBits \in Nat /\ DataBits > 1
  /\ AllOnes = 4 * 2^DataBits - 1 /\ AllOnes \in Nat /\ AllOnes % 4 = 3
  /\ 2^(WordBits - 1) = 2 * 2^DataBits /\ 2^DataBits \in Nat \ {0}
  /\ Byte = 0..(2^DataBits - 1)
<1>1. DataBits \in Nat /\ DataBits > 1
  BY UefAssumption
<1>2. 2^DataBits \in Nat \ {0}
  BY Powers
<1>3. WordBits = DataBits + 2 /\ WordBits - 1 = DataBits + 1
  BY <1>1 DEF WordBits
<1>4. 2^WordBits = 4 * 2^DataBits /\ 2^(WordBits - 1) = 2 * 2^DataBits
  BY <1>2, <1>3, Powers
<1>5. AllOnes = 4 * 2^DataBits - 1
  BY <1>4 DEF AllOnes
<1> DEFINE n == 2^DataBits
<1>6. n \in Nat \ {0} /\ AllOnes = 4 * n - 1
  BY <1>2, <1>5
<1> HIDE DEF n
<1>7. AllOnes \in Nat /\ AllOnes % 4 = 3
  BY <1>6
<1> QED  BY <1>1, <1>2, <1>4, <1>5, <1>7 DEF Byte

(* The fields of the registers, for the provers *)
LEMMA RegisterFields ==
  ASSUME NEW r \in Registers
  PROVE  /\ r.isr \in SUBSET Flag /\ r.ier \in SUBSET Source
         /\ r.irq \in BOOLEAN /\ r.recdat \in Byte /\ r.taperecdat \in Byte
         /\ r.tapelatch \in Byte /\ r.tapedat \in 0..AllOnes
         /\ r.bitcount \in 0..(DataBits + 1)
         /\ r.sbitcount \in 1..(DataBits + 1)
         /\ r.hightone \in BOOLEAN /\ r.break \in BOOLEAN
         /\ r.recno \in Nat /\ r.latchno \in Nat /\ r.clean \in BOOLEAN
  BY SMT DEF Registers

(* updateulaints leaves the flags of the sources alone, and shows them.     *)
LEMMA UpdateIntsGood ==
  ASSUME NEW r \in Registers
  PROVE  LET s == UpdateInts(r)
         IN  /\ s \in Registers /\ Seen(s)
             /\ \A f \in Source : f \in s.isr <=> f \in r.isr
             /\ s.bitcount = r.bitcount /\ s.tapedat = r.tapedat
<1> DEFINE up == r.isr \cup {"master"}
           down == r.isr \ {"master"}
           a == [r EXCEPT !.isr = up, !.irq = TRUE]
           b == [r EXCEPT !.irq = TRUE]
           c == [r EXCEPT !.isr = down, !.irq = FALSE]
<1>1. UpdateInts(r) = IF Wanted(r) THEN a
                      ELSE IF Plus1 /\ serialIrq THEN b ELSE c
  BY Zenon DEF UpdateInts
<1>2. up \in SUBSET Flag /\ down \in SUBSET Flag
  BY RegisterFields DEF Flag
<1>3. TRUE \in BOOLEAN /\ FALSE \in BOOLEAN
  OBVIOUS
<1>4. \A f \in Source : (f \in up <=> f \in r.isr) /\ (f \in down <=> f \in r.isr)
  BY DEF Source
<1>5. r.ier \in SUBSET Source /\ "master" \in up
  BY RegisterFields
<1> HIDE DEF up, down
<1>6. a \in Registers
  BY <1>2, <1>3, ZenonT(30) DEF Registers
<1>7. b \in Registers
  BY <1>3, ZenonT(30) DEF Registers
<1>8. c \in Registers
  BY <1>2, <1>3, ZenonT(30) DEF Registers
<1>9. /\ a.isr = up /\ a.ier = r.ier /\ a.irq = TRUE
      /\ a.bitcount = r.bitcount /\ a.tapedat = r.tapedat
  BY SMT DEF Registers
<1>10. /\ b.isr = r.isr /\ b.ier = r.ier
       /\ b.bitcount = r.bitcount /\ b.tapedat = r.tapedat
  BY SMT DEF Registers
<1>11. /\ c.isr = down /\ c.ier = r.ier
       /\ c.bitcount = r.bitcount /\ c.tapedat = r.tapedat
  BY SMT DEF Registers
<1> HIDE DEF a, b, c
<1>12. CASE Wanted(r)
  BY <1>1, <1>4, <1>5, <1>6, <1>9, <1>12 DEF Seen
<1>13. CASE ~Wanted(r) /\ Plus1 /\ serialIrq
  BY <1>1, <1>7, <1>10, <1>13 DEF Seen, Wanted
<1>14. CASE ~Wanted(r) /\ ~(Plus1 /\ serialIrq)
  <2>1. ~Wanted(c)
    BY <1>4, <1>5, <1>11, <1>14 DEF Wanted
  <2> QED  BY <1>1, <1>4, <1>8, <1>11, <1>14, <2>1 DEF Seen
<1> QED  BY <1>12, <1>13, <1>14

(* Raising an interrupt raises its flag only, and shows it.  (intula) *)
LEMMA RaiseGood ==
  ASSUME NEW r \in Registers, NEW source \in Source
  PROVE  LET s == Raise(r, source)
         IN  /\ s \in Registers /\ Seen(s)
             /\ \A f \in Source : f \in s.isr <=> f \in r.isr \/ f = source
             /\ s.bitcount = r.bitcount /\ s.tapedat = r.tapedat
<1> DEFINE up == r.isr \cup {source}
           q == [r EXCEPT !.isr = up]
<1>1. up \in SUBSET Flag
  BY RegisterFields DEF Flag
<1>2. \A f \in Source : f \in up <=> f \in r.isr \/ f = source
  OBVIOUS
<1>3. Raise(r, source) = UpdateInts(q)
  BY DEF Raise
<1> HIDE DEF up
<1>4. q \in Registers
  BY <1>1, ZenonT(30) DEF Registers
<1>5. q.isr = up /\ q.bitcount = r.bitcount /\ q.tapedat = r.tapedat
  BY SMT DEF Registers
<1> HIDE DEF q
<1> QED  BY <1>2, <1>3, <1>4, <1>5, UpdateIntsGood

(* Clearing flags raises none, and lets the line follow.  (clearintula) *)
LEMMA ClearGood ==
  ASSUME NEW r \in Registers, NEW sources
  PROVE  LET s == Clear(r, sources)
         IN  /\ s \in Registers /\ Seen(s)
             /\ \A f \in Source : f \in s.isr <=> f \in r.isr /\ f \notin sources
             /\ s.bitcount = r.bitcount /\ s.tapedat = r.tapedat
<1> DEFINE down == r.isr \ sources
           q == [r EXCEPT !.isr = down]
<1>1. down \in SUBSET Flag
  BY RegisterFields
<1>2. \A f \in Source : f \in down <=> f \in r.isr /\ f \notin sources
  OBVIOUS
<1>3. Clear(r, sources) = UpdateInts(q)
  BY DEF Clear
<1> HIDE DEF down
<1>4. q \in Registers
  BY <1>1, ZenonT(30) DEF Registers
<1>5. q.isr = down /\ q.bitcount = r.bitcount /\ q.tapedat = r.tapedat
  BY SMT DEF Registers
<1> HIDE DEF q
<1> QED  BY <1>2, <1>3, <1>4, <1>5, UpdateIntsGood

(* The flags, the count and the shift register of a byte are as they were.  *)
Keeps(r, s) ==
  /\ "receive" \in s.isr <=> "receive" \in r.isr
  /\ "hightone" \in s.isr <=> "hightone" \in r.isr
  /\ s.bitcount = r.bitcount /\ s.tapedat = r.tapedat

(* Registers that are the same to the interrupts are Seen together. *)
LEMMA SameSeen ==
  ASSUME NEW r, NEW s, Seen(r), SameInts(r, s)
  PROVE  Seen(s)
  BY DEF Seen, Wanted, SameInts

(* fasttapebreak is no interrupt. *)
LEMMA BreakGood ==
  ASSUME NEW r \in Registers, Seen(r)
  PROVE  LET s == [r EXCEPT !.break = FALSE]
         IN  s \in Registers /\ Seen(s) /\ Keeps(r, s)
<1> DEFINE s == [r EXCEPT !.break = FALSE]
<1>1. FALSE \in BOOLEAN
  OBVIOUS
<1>2. s \in Registers
  BY <1>1, ZenonT(30) DEF Registers
<1>3. SameInts(r, s) /\ Keeps(r, s)
  BY SMT DEF SameInts, Keeps, Registers
<1> HIDE DEF s
<1>4. s \in Registers /\ Seen(s) /\ Keeps(r, s)
  BY <1>2, <1>3, SameSeen
<1> QED  BY <1>4 DEF s

(* A byte time of the transmitter.  (polltape, sbitcount) *)
LEMMA CountSendGood ==
  ASSUME NEW r \in Registers, Seen(r)
  PROVE  /\ CountSend(r) \in Registers /\ Seen(CountSend(r))
         /\ Keeps(r, CountSend(r))
<1> DEFINE n == r.sbitcount - 1
           less == [r EXCEPT !.sbitcount = n]
           full == DataBits + 1
           again == [r EXCEPT !.sbitcount = full]
<1>1. CountSend(r) = IF r.sbitcount > 1 THEN less ELSE Raise(again, "send")
  BY DEF CountSend
<1>2. r.sbitcount > 1 => n \in 1..(DataBits + 1)
  BY RegisterFields, Words
<1>3. full \in 1..(DataBits + 1)
  BY Words
<1> HIDE DEF n, full
<1>4. r.sbitcount > 1 => less \in Registers
  BY <1>2, ZenonT(30) DEF Registers
<1>5. again \in Registers
  BY <1>3, ZenonT(30) DEF Registers
<1>6. SameInts(r, less) /\ Keeps(r, less)
  BY SMT DEF SameInts, Keeps, Registers
<1>7. again.isr = r.isr /\ Keeps(r, again)
  BY SMT DEF Keeps, Registers
<1> HIDE DEF less, again
<1>8. r.sbitcount > 1 => Seen(less)
  BY <1>6, SameSeen
<1>9. /\ Raise(again, "send") \in Registers /\ Seen(Raise(again, "send"))
      /\ Keeps(again, Raise(again, "send"))
  <2>1. "send" \in Source /\ "receive" \in Source /\ "hightone" \in Source
    BY DEF Source
  <2> QED  BY <1>5, <2>1, RaiseGood DEF Keeps
<1> QED  BY <1>1, <1>4, <1>6, <1>7, <1>8, <1>9 DEF Keeps

(* The bits of a byte pass: its flag goes before the next can be latched.   *)
(* (polltape, bitcount)                                                     *)
LEMMA CountBitGood ==
  ASSUME NEW r \in Registers, Seen(r), Counted(r), Apart(r), r.bitcount # 0
  PROVE  LET s == CountBit(r)
         IN  s \in Registers /\ Seen(s) /\ Fresh(s) /\ Apart(s)
<1> DEFINE n == r.bitcount - 1
           q == [r EXCEPT !.bitcount = n]
           s == CountBit(r)
<1>1. s = IF q.bitcount = DataBits - 1 THEN Clear(q, {"receive"}) ELSE q
  BY DEF CountBit
<1>2. n \in 0..(DataBits + 1)
  BY RegisterFields, Words
<1>3. "receive" \in r.isr => n \in {DataBits - 1, DataBits}
  BY RegisterFields, Words DEF Counted, Fresh
<1> HIDE DEF n
<1>4. q \in Registers
  BY <1>2, ZenonT(30) DEF Registers
<1>5. q.isr = r.isr /\ q.bitcount = n /\ SameInts(r, q)
  BY SMT DEF SameInts, Registers
<1> HIDE DEF q, s
<1>6. CASE n = DataBits - 1
  <2>1. "receive" \in Source
    BY DEF Source
  <2>2. s \in Registers /\ Seen(s) /\ "receive" \notin s.isr
    BY <1>1, <1>4, <1>5, <1>6, <2>1, ClearGood
  <2> QED  BY <2>2 DEF Fresh, Apart, s
<1>7. CASE n # DataBits - 1
  <2>1. s = q
    BY <1>1, <1>5, <1>7
  <2>2. Seen(q)
    BY <1>5, SameSeen
  <2>3. Fresh(q) /\ Apart(q)
    BY <1>3, <1>5, <1>7 DEF Fresh, Apart
  <2> QED  BY <1>4, <2>1, <2>2, <2>3 DEF s
<1> QED  BY <1>6, <1>7

(* The flag of a byte is up only right after it was latched. *)
Late(r) == "receive" \in r.isr => r.bitcount = DataBits + 1

(* Latching a byte drops the flag of a tone.  (polltape, the start bit) *)
LEMMA LatchGood ==
  ASSUME NEW r \in Registers, Seen(r), Counted(r), Apart(r), r.bitcount = 0
  PROVE  LET s == Latch(r)
         IN  /\ s \in Registers /\ Seen(s) /\ Late(s) /\ Apart(s)
             /\ s.tapedat = AllOnes => "receive" \notin s.isr
<1> DEFINE down == r.isr \ {"hightone"}
           full == DataBits + 1
           q == [r EXCEPT !.isr = down, !.tapelatch = r.recdat,
                          !.bitcount = full, !.break = TRUE,
                          !.latchno = r.recno, !.clean = FALSE]
           s == Latch(r)
<1>1. s = IF r.tapedat % 4 # 1 THEN r ELSE Raise(q, "receive")
  BY Zenon DEF Latch
<1>2. /\ down \in SUBSET Flag /\ "hightone" \notin down
      /\ r.recdat \in Byte /\ r.recno \in Nat
  BY RegisterFields
<1>3. full \in 0..(DataBits + 1) /\ full = DataBits + 1
  BY Words
<1>4. TRUE \in BOOLEAN /\ FALSE \in BOOLEAN
  OBVIOUS
<1> HIDE DEF down, full, s
<1>5. q \in Registers
  BY <1>2, <1>3, <1>4, ZenonT(30) DEF Registers
<1>6. q.isr = down /\ q.bitcount = full /\ q.tapedat = r.tapedat
  BY SMT DEF Registers
<1> HIDE DEF q
<1>7. CASE r.tapedat % 4 # 1
  <2>1. "receive" \notin r.isr
    BY <1>7, Words DEF Counted, Fresh
  <2> QED  BY <1>1, <1>7, <2>1 DEF Late, s
<1>8. CASE r.tapedat % 4 = 1
  <2>1. "receive" \in Source /\ "hightone" \in Source
    BY DEF Source
  <2>2. /\ s \in Registers /\ Seen(s) /\ "hightone" \notin s.isr
        /\ s.bitcount = full /\ s.tapedat = r.tapedat
    BY <1>1, <1>2, <1>5, <1>6, <1>8, <2>1, RaiseGood
  <2>3. s.tapedat # AllOnes
    BY <1>8, <2>2, Words
  <2> QED  BY <1>3, <2>2, <2>3 DEF Late, Apart, s
<1> QED  BY <1>7, <1>8

(* A tone is announced only while no byte is.  (polltape, 0x3FF) *)
LEMMA DetectToneGood ==
  ASSUME NEW r \in Registers, Seen(r), Late(r), Apart(r),
         r.tapedat = AllOnes => "receive" \notin r.isr
  PROVE  LET s == DetectTone(r)
         IN  s \in Registers /\ Seen(s) /\ Late(s) /\ Apart(s)
<1> DEFINE q == [r EXCEPT !.bitcount = 0, !.break = TRUE]
           s == DetectTone(r)
<1>1. s = IF r.tapedat # AllOnes THEN r ELSE Raise(q, "hightone")
  BY DEF DetectTone
<1>2. 0 \in 0..(DataBits + 1) /\ TRUE \in BOOLEAN
  BY Words
<1>3. q \in Registers
  BY <1>2, ZenonT(30) DEF Registers
<1>4. q.isr = r.isr
  BY SMT DEF Registers
<1> HIDE DEF q, s
<1>5. CASE r.tapedat # AllOnes
  BY <1>1, <1>5 DEF s
<1>6. CASE r.tapedat = AllOnes
  <2>1. "receive" \in Source /\ "hightone" \in Source
    BY DEF Source
  <2>2. s \in Registers /\ Seen(s) /\ "receive" \notin s.isr
    BY <1>1, <1>3, <1>4, <1>6, <2>1, RaiseGood
  <2> QED  BY <2>2 DEF Late, Apart, s
<1> QED  BY <1>5, <1>6

(* What the tape hands over changes no interrupt yet.  (receive, intula) *)
LEMMA TakeFromTapeGood ==
  ASSUME NEW r \in Registers, Seen(r), NEW polled \in Outcome
  PROVE  LET s == TakeFromTape(r, polled)
         IN  /\ s \in Registers /\ Seen(s) /\ s.isr = r.isr
             /\ s.tapedat = r.tapedat
             /\ s.bitcount \in {r.bitcount, DataBits + 1}
<1> DEFINE b == polled.event.byte
           full == DataBits + 1
           g == polled.tape.given
           byte == [r EXCEPT !.recdat = b, !.taperecdat = b,
                             !.hightone = FALSE, !.bitcount = full,
                             !.recno = g, !.clean = TRUE]
           tone == [r EXCEPT !.hightone = TRUE]
           s == TakeFromTape(r, polled)
<1>1. s = CASE polled.event.kind = "byte" -> byte
            [] polled.event.kind = "tone" -> tone
            [] OTHER -> r
  BY Zenon DEF TakeFromTape
<1>2. b \in Byte
  BY SMT DEF Outcome, Event
<1>3. g \in Nat
  <2>1. polled.tape \in Player
    BY SMT DEF Outcome, Playable
  <2> QED  BY <2>1, PlayerFields
<1>4. full \in 0..(DataBits + 1) /\ full = DataBits + 1
  BY Words
<1>5. TRUE \in BOOLEAN /\ FALSE \in BOOLEAN
  OBVIOUS
<1> HIDE DEF b, full, g, s
<1>6. byte \in Registers
  BY <1>2, <1>3, <1>4, <1>5, ZenonT(30) DEF Registers
<1>7. tone \in Registers
  BY <1>5, ZenonT(30) DEF Registers
<1>8. byte.tapedat = r.tapedat /\ byte.bitcount = full /\ SameInts(r, byte)
  BY SMT DEF SameInts, Registers
<1>9. /\ tone.tapedat = r.tapedat /\ tone.bitcount = r.bitcount
      /\ SameInts(r, tone)
  BY SMT DEF SameInts, Registers
<1> HIDE DEF byte, tone
<1>10. Seen(byte) /\ Seen(tone)
  BY <1>8, <1>9, SameSeen
<1>11. CASE s = byte
  BY <1>4, <1>6, <1>8, <1>10, <1>11 DEF SameInts, s
<1>12. CASE s = tone
  BY <1>7, <1>9, <1>10, <1>12 DEF SameInts, s
<1>13. CASE s = r
  BY <1>13 DEF s
<1>14. s = byte \/ s = tone \/ s = r
  BY <1>1, SMT
<1> QED  BY <1>11, <1>12, <1>13, <1>14

(* Half a word with any bit on top of it is a word. *)
LEMMA ShiftedWord ==
  ASSUME NEW d \in 0..AllOnes, NEW bit \in {0, 1}
  PROVE  (d \div 2) + bit * 2^(WordBits - 1) \in 0..AllOnes
<1> DEFINE n == 2^DataBits
           top == 2^(WordBits - 1)
<1>1. n \in Nat \ {0} /\ AllOnes = 4 * n - 1 /\ top = 2 * n
  BY Words
<1> HIDE DEF n, top
<1>2. d \div 2 \in 0..(2 * n - 1)
  BY <1>1
<1> QED  BY <1>1, <1>2 DEF top

(* Shifting a bit in leaves interrupts and count alone. *)
LEMMA ShiftInGood ==
  ASSUME NEW r \in Registers, NEW bit \in {0, 1}
  PROVE  LET s == ShiftIn(r, bit)
         IN  s \in Registers /\ SameInts(r, s) /\ s.bitcount = r.bitcount
<1> DEFINE d == (r.tapedat \div 2) + bit * 2^(WordBits - 1)
           s == [r EXCEPT !.tapedat = d]
<1>1. d \in 0..AllOnes
  BY RegisterFields, ShiftedWord
<1>2. ShiftIn(r, bit) = s
  BY DEF ShiftIn
<1> HIDE DEF d
<1>3. s \in Registers
  BY <1>1, ZenonT(30) DEF Registers
<1>4. SameInts(r, s) /\ s.bitcount = r.bitcount
  BY SMT DEF SameInts, Registers
<1> QED  BY <1>2, <1>3, <1>4

(* The end of polltape shifts one bit and changes no interrupt. *)
LEMMA ShiftBitGood ==
  ASSUME NEW r \in Registers, Seen(r)
  PROVE  LET s == ShiftBit(r)
         IN  s \in Registers /\ Seen(s) /\ s.isr = r.isr
             /\ s.bitcount = r.bitcount
<1> DEFINE half == r.taperecdat \div 2
           bit == r.taperecdat % 2
           noise == [r EXCEPT !.clean = FALSE]
           rest == [r EXCEPT !.taperecdat = half]
           s == ShiftBit(r)
<1>1. \/ s = ShiftIn(noise, 1) \/ s = ShiftIn(noise, 0)
      \/ s = ShiftIn(r, 1) \/ s = ShiftIn(r, 0) \/ s = ShiftIn(rest, bit)
  BY Zenon DEF ShiftBit
<1>2. half \in Byte /\ bit \in {0, 1}
  <2> DEFINE n == 2^DataBits
  <2>1. n \in Nat \ {0} /\ Byte = 0..(n - 1) /\ r.taperecdat \in 0..(n - 1)
    BY RegisterFields, Words
  <2> HIDE DEF n
  <2> QED  BY <2>1
<1>3. FALSE \in BOOLEAN
  OBVIOUS
<1> HIDE DEF half, bit, s
<1>4. noise \in Registers
  BY <1>3, ZenonT(30) DEF Registers
<1>5. rest \in Registers
  BY <1>2, ZenonT(30) DEF Registers
<1>6. noise.bitcount = r.bitcount /\ SameInts(r, noise)
  BY SMT DEF SameInts, Registers
<1>7. rest.bitcount = r.bitcount /\ SameInts(r, rest)
  BY SMT DEF SameInts, Registers
<1> HIDE DEF noise, rest
<1>8. PICK q \in Registers, b \in {0, 1} :
        s = ShiftIn(q, b) /\ SameInts(r, q) /\ q.bitcount = r.bitcount
  <2>1. SameInts(r, r)
    BY DEF SameInts
  <2> QED  BY <1>1, <1>2, <1>4, <1>5, <1>6, <1>7, <2>1
<1>9. s \in Registers /\ SameInts(q, s) /\ s.bitcount = q.bitcount
  BY <1>8, ShiftInGood
<1>10. SameInts(r, s)
  BY <1>8, <1>9 DEF SameInts
<1>11. Seen(s)
  BY <1>10, SameSeen
<1> QED  BY <1>8, <1>9, <1>10, <1>11 DEF SameInts, s

(* What a set of registers keeps from step to step *)
Good(r) == r \in Registers /\ Seen(r) /\ Counted(r) /\ Apart(r)

(* A poll that does not play hands over nothing; one that does, an outcome. *)
LEMMA PolledType ==
  ASSUME tape \in Playable
  PROVE  Polled \in Outcome
<1>1. Result(tape, Nothing) \in Outcome
  BY EventType, ResultType
<1> QED  BY <1>1, PollUefType DEF Polled

(* A whole poll of the tape, outside a pause  (polltape) *)
LEMMA PolledRegistersGood ==
  ASSUME Good(u), tape \in Playable
  PROVE  Good(PolledRegisters)
<1> DEFINE a == [u EXCEPT !.break = FALSE]
           b == CountSend(a)
           c == CountBit(b)
           l == Latch(b)
           d == DetectTone(l)
           e == TakeFromTape(d, Polled)
           s == IF BetweenBytes THEN e ELSE c
<1>1. PolledRegisters = ShiftBit(s)
  BY DEF PolledRegisters
<1>2. a \in Registers /\ Seen(a) /\ Keeps(u, a)
  BY BreakGood DEF Good
<1> HIDE DEF a
<1>3. b \in Registers /\ Seen(b) /\ Keeps(a, b)
  BY <1>2, CountSendGood
<1>4. Counted(b) /\ Apart(b) /\ (BetweenBytes <=> b.bitcount = 0)
  BY <1>2, <1>3 DEF Good, Counted, Fresh, Apart, Keeps, BetweenBytes
<1> HIDE DEF b
<1>5. ~BetweenBytes => c \in Registers /\ Seen(c) /\ Fresh(c) /\ Apart(c)
  BY <1>3, <1>4, CountBitGood
<1>6. ASSUME BetweenBytes
      PROVE  e \in Registers /\ Seen(e) /\ Fresh(e) /\ Apart(e)
  <2>1. /\ l \in Registers /\ Seen(l) /\ Late(l) /\ Apart(l)
        /\ l.tapedat = AllOnes => "receive" \notin l.isr
    BY <1>3, <1>4, <1>6, LatchGood
  <2> HIDE DEF l
  <2>2. d \in Registers /\ Seen(d) /\ Late(d) /\ Apart(d)
    BY <2>1, DetectToneGood
  <2> HIDE DEF d
  <2>3. /\ e \in Registers /\ Seen(e) /\ e.isr = d.isr
        /\ e.bitcount \in {d.bitcount, DataBits + 1}
    BY <2>2, PolledType, TakeFromTapeGood
  <2> HIDE DEF e
  <2> QED  BY <2>2, <2>3 DEF Late, Fresh, Apart
<1> HIDE DEF c, e
<1>7. s \in Registers /\ Seen(s) /\ Fresh(s) /\ Apart(s)
  BY <1>5, <1>6
<1> HIDE DEF s
<1>8. /\ ShiftBit(s) \in Registers /\ Seen(ShiftBit(s))
      /\ ShiftBit(s).isr = s.isr /\ ShiftBit(s).bitcount = s.bitcount
  BY <1>7, ShiftBitGood
<1> QED  BY <1>1, <1>7, <1>8 DEF Good, Counted, Fresh, Apart

(* A poll of the tape keeps the registers and the player right. *)
LEMMA PollTapeGood ==
  ASSUME Good(u), tape \in Playable, PollTape
  PROVE  Good(u') /\ tape' \in Playable
<1>1. Polled \in Outcome /\ Polled.tape \in Playable
  BY PolledType, SMT DEF Outcome
<1>2. CASE tape.pauseit
  <2> DEFINE a == [u EXCEPT !.break = FALSE]
  <2>1. a \in Registers /\ Seen(a) /\ Keeps(u, a)
    BY BreakGood DEF Good
  <2>2. u' = TakeFromTape(a, Polled) /\ tape' = Polled.tape
    BY <1>2 DEF PollTape
  <2> HIDE DEF a
  <2>3. /\ u' \in Registers /\ Seen(u') /\ u'.isr = a.isr
        /\ u'.tapedat = a.tapedat
        /\ u'.bitcount \in {a.bitcount, DataBits + 1}
    BY <1>1, <2>1, <2>2, TakeFromTapeGood
  <2>4. Counted(u') /\ Apart(u')
    BY <2>1, <2>3 DEF Good, Counted, Fresh, Apart, Keeps
  <2> QED  BY <1>1, <2>2, <2>3, <2>4 DEF Good
<1>3. CASE ~tape.pauseit
  BY <1>1, <1>3, PolledRegistersGood DEF PollTape
<1> QED  BY <1>2, <1>3

-----------------------------------------------------------------------------
(* The actions *)

(* A really fast loop has enough credit for the polls it has left. *)
Credit == fast > 0 => tapewrite + fast * BitLength <= MaxCredit

(* The types of what no poll changes, and of what times them *)
ControlOK ==
  /\ loaded \in BOOLEAN /\ tapeon \in BOOLEAN /\ tapeout \in BOOLEAN
  /\ serialIrq \in BOOLEAN
  /\ bank \in [rombank : 0..15, extrom : BOOLEAN, intrombank : 0..15]
  /\ writes \in 0..MaxWrites

Timing ==
  /\ tapewrite \in 0..(MaxCredit + BitLength) /\ fast \in 0..FastPolls
  /\ Credit

(* The inductive invariant *)
UlaInv == Good(u) /\ tape \in Playable /\ Timing /\ ControlOK

(* The bounds and times are numbers. *)
LEMMA Numbers ==
  /\ BitLength \in Nat \ {0} /\ FastPolls \in Nat \ {0}
  /\ MaxWrites \in Nat /\ MaxCredit \in Nat
  BY UlaAssumption

(* An opened tape is at its beginning, in no chunk.  (openuef) *)
LEMMA OpenedType ==
  ASSUME NEW paused \in BOOLEAN
  PROVE  Opened(paused) \in Playable
<1>1. Opened(paused) \in Player
  BY TapeType DEF Opened, Player
<1>2. Opened(paused).inchunk = 0
  BY DEF Opened
<1> QED  BY <1>1, <1>2 DEF Playable, Inside

(* The program starts with no interrupt and no byte under way. *)
LEMMA UlaInit == Init => UlaInv
<1> SUFFICES ASSUME Init PROVE UlaInv
  OBVIOUS
<1>1. 0 \in Byte /\ 0 \in 0..AllOnes /\ 0 \in 0..(DataBits + 1)
      /\ DataBits + 1 \in 1..(DataBits + 1)
  BY Words
<1>2. u \in Registers
  BY <1>1 DEF Init, Registers
<1>3. u.isr = {}
  BY DEF Init
<1>4. Good(u)
  BY <1>2, <1>3 DEF Good, Seen, Wanted, Counted, Fresh, Apart
<1>5. tape \in Playable
  BY OpenedType DEF Init
<1>6. Timing
  BY Numbers DEF Init, Timing, Credit
<1>7. ControlOK
  <2>1. bank \in [rombank : 0..15, extrom : BOOLEAN, intrombank : 0..15]
    BY DEF Init
  <2>2. writes \in 0..MaxWrites
    BY Numbers DEF Init
  <2> QED  BY <2>1, <2>2 DEF Init, ControlOK
<1> QED  BY <1>4, <1>5, <1>6, <1>7 DEF UlaInv

(* Clearing flags cannot make a byte and a tone meet. *)
LEMMA ClearKeepsGood ==
  ASSUME NEW r, Good(r), NEW sources
  PROVE  Good(Clear(r, sources))
<1>1. "receive" \in Source /\ "hightone" \in Source
  BY DEF Source
<1> QED  BY <1>1, ClearGood DEF Good, Counted, Fresh, Apart

(* The CPU loop.  (exec6502, reallyfasttapepoll) *)
LEMMA InstructionInv == ASSUME UlaInv, Instruction PROVE UlaInv'
<1>1. Good(u') /\ tape' \in Playable
  <2>1. CASE UNCHANGED <<u, tape>>
    BY <2>1 DEF UlaInv
  <2>2. CASE PollTape
    BY <2>2, PollTapeGood DEF UlaInv
  <2> QED  BY <2>1, <2>2 DEF Instruction
<1>2. /\ \/ tapewrite' = tapewrite - 1 /\ tapewrite > 1
         \/ tapewrite' = tapewrite - 1 + BitLength /\ tapewrite <= 1
      /\ fast = 0 /\ fast' = 0
  BY DEF Instruction, CpuRuns
<1>3. Timing'
  BY <1>2, Numbers DEF UlaInv, Timing, Credit
<1>4. ControlOK'
  BY DEF Instruction, ControlUnchanged, UlaInv, ControlOK
<1> QED  BY <1>1, <1>3, <1>4 DEF UlaInv, Good, Seen, Wanted, Counted, Fresh,
             Apart, Playable, Inside, Here

(* A really fast loop begins only with credit for all of its polls. *)
LEMMA BeginFastInv == ASSUME UlaInv, BeginFast PROVE UlaInv'
<1>1. Timing'
  BY Numbers DEF BeginFast, UlaInv, Timing, Credit
<1>2. ControlOK'
  BY DEF BeginFast, ControlUnchanged, UlaInv, ControlOK
<1>3. UNCHANGED <<u, tape>>
  BY DEF BeginFast
<1> QED  BY <1>1, <1>2, <1>3 DEF UlaInv, Good, Seen, Wanted, Counted, Fresh,
             Apart, Playable, Inside, Here

(* Each of its polls spends a bit time of that credit. *)
LEMMA FastPollInv == ASSUME UlaInv, FastPoll PROVE UlaInv'
<1>1. Good(u') /\ tape' \in Playable
  BY PollTapeGood DEF FastPoll, UlaInv
<1>2. Timing'
  <2>1. /\ fast \in 1..FastPolls /\ tapewrite \in Nat
        /\ tapewrite + fast * BitLength <= MaxCredit
        /\ tapewrite' = tapewrite + BitLength
        /\ fast' = 0 \/ fast' = fast - 1
    BY Numbers DEF FastPoll, UlaInv, Timing, Credit
  <2>2. fast * BitLength = (fast - 1) * BitLength + BitLength
        /\ (fast - 1) * BitLength \in Nat
    BY <2>1, Numbers
  <2> DEFINE rest == (fast - 1) * BitLength
  <2>3. tapewrite' + rest <= MaxCredit
    <3>1. tapewrite + (rest + BitLength) <= MaxCredit /\ rest \in Nat
      BY <2>1, <2>2
    <3> HIDE DEF rest
    <3> QED  BY <2>1, <3>1, Numbers
  <2>4. tapewrite' \in 0..(MaxCredit + BitLength)
    <3>1. rest \in Nat
      BY <2>2
    <3> HIDE DEF rest
    <3> QED  BY <2>1, <2>3, <3>1, Numbers
  <2> QED  BY <2>1, <2>3, <2>4, Numbers DEF Timing, Credit
<1>3. ControlOK'
  BY DEF FastPoll, ControlUnchanged, UlaInv, ControlOK
<1> QED  BY <1>1, <1>2, <1>3 DEF UlaInv

(* writeula and readula *)
LEMMA RegisterWriteInv ==
  ASSUME UlaInv, CpuRuns, Good(u'),
         UNCHANGED <<tape, loaded, fast, serialIrq>>,
         tapewrite' \in 0..(MaxCredit + BitLength),
         tapeon' \in BOOLEAN, tapeout' \in BOOLEAN,
         bank' \in [rombank : 0..15, extrom : BOOLEAN, intrombank : 0..15],
         writes' \in 0..MaxWrites
  PROVE  UlaInv'
<1>1. Timing'
  BY DEF UlaInv, Timing, Credit, CpuRuns
<1>2. ControlOK'
  BY DEF UlaInv, ControlOK
<1>3. tape' \in Playable
  BY DEF UlaInv
<1> QED  BY <1>1, <1>2, <1>3 DEF UlaInv

(* Register 0, the mask: what it lets through is shown at once.  (writeula) *)
LEMMA WriteEnableInv == ASSUME UlaInv, WriteEnable PROVE UlaInv'
<1>1. PICK mask \in Masks : u' = UpdateInts([u EXCEPT !.ier = mask])
  BY DEF WriteEnable
<1> DEFINE q == [u EXCEPT !.ier = mask]
<1>2. mask \in SUBSET Source
  BY UlaAssumption
<1>3. u \in Registers
  BY DEF UlaInv, Good
<1>4. q \in Registers
  BY <1>2, <1>3, ZenonT(30) DEF Registers
<1>5. q.isr = u.isr /\ q.bitcount = u.bitcount /\ q.tapedat = u.tapedat
  BY <1>3, SMT DEF Registers
<1>6. u' = UpdateInts(q)
  BY <1>1
<1> HIDE DEF q
<1>7. "receive" \in Source /\ "hightone" \in Source
  BY DEF Source
<1>8. Good(u')
  BY <1>4, <1>5, <1>7, <1>6, UpdateIntsGood
     DEF UlaInv, Good, Counted, Fresh, Apart
<1> QED  BY <1>8, RegisterWriteInv
         DEF WriteEnable, TapeUnchanged, UlaInv, Timing, ControlOK

(* Register 4 puts a start bit at the end of the word, so that a flag that  *)
(* is still up is followed by a latch and not by a tone.  (writeula)        *)
LEMMA WriteDataInv == ASSUME UlaInv, WriteData PROVE UlaInv'
<1> DEFINE full == DataBits + 1
           Sending(val) ==
             [u EXCEPT !.sbitcount = DataBits + 1, !.bitcount = 0,
                       !.tapedat = val * 4 + 1, !.clean = FALSE]
<1>1. PICK val \in Values :
        u' = IF tapewrite < BitLength THEN Clear(Sending(val), {"send"})
             ELSE Sending(val)
  BY DEF WriteData
<1> DEFINE d == val * 4 + 1
           q == [u EXCEPT !.sbitcount = full, !.bitcount = 0,
                          !.tapedat = d, !.clean = FALSE]
<1>2. u \in Registers
  BY DEF UlaInv, Good
<1>3. d \in 0..AllOnes /\ d % 4 = 1
  <2> DEFINE n == 2^DataBits
  <2>1. n \in Nat \ {0} /\ val \in 0..(n - 1) /\ AllOnes = 4 * n - 1
    BY Words, UlaAssumption
  <2> HIDE DEF n
  <2> QED  BY <2>1
<1>4. full \in 1..(DataBits + 1) /\ 0 \in 0..(DataBits + 1)
  BY Words
<1>5. FALSE \in BOOLEAN
  OBVIOUS
<1>6. q = Sending(val)
  OBVIOUS
<1> HIDE DEF d, full, Sending
<1>7. q \in Registers
  BY <1>2, <1>3, <1>4, <1>5, ZenonT(30) DEF Registers
<1>8. q.bitcount = 0 /\ q.tapedat = d /\ SameInts(u, q)
  BY <1>2, SMT DEF SameInts, Registers
<1> HIDE DEF q
<1>9. Good(q)
  <2>1. Seen(q)
    BY <1>8, SameSeen DEF UlaInv, Good
  <2> QED  BY <1>3, <1>7, <1>8, <2>1
           DEF UlaInv, Good, Counted, Apart, SameInts
<1>10. Good(u')
  <2>1. u' = Clear(q, {"send"}) \/ u' = q
    BY <1>1, <1>6, Zenon
  <2>2. Good(Clear(q, {"send"}))
    BY <1>9, ClearKeepsGood
  <2>3. CASE u' = q
    BY <1>9, <2>3
  <2>4. CASE u' = Clear(q, {"send"})
    <3> DEFINE cleared == Clear(q, {"send"})
    <3> HIDE DEF cleared
    <3> QED  BY <2>2, <2>4 DEF cleared
  <2> QED  BY <2>1, <2>3, <2>4
<1>11. tapewrite' \in 0..(MaxCredit + BitLength)
  BY Numbers DEF WriteData, UlaInv, Timing
<1>12. writes' \in 0..MaxWrites
  BY Numbers DEF WriteData, UlaInv, ControlOK
<1> QED  BY <1>10, <1>11, <1>12, RegisterWriteInv
         DEF WriteData, TapeUnchanged, UlaInv, ControlOK

(* Register 5 clears flags and selects a ROM.  (writeula) *)
LEMMA WriteClearInv == ASSUME UlaInv, WriteClear PROVE UlaInv'
<1>1. Good(u')
  BY ClearKeepsGood DEF WriteClear, UlaInv
<1>2. bank' \in [rombank : 0..15, extrom : BOOLEAN, intrombank : 0..15]
  <2>1. PICK b \in Roms : bank' = SelectRom(b)
    BY DEF WriteClear
  <2>2. b \in 0..15
    BY UlaAssumption
  <2>3. bank.extrom \in BOOLEAN /\ bank.intrombank \in 0..15
    BY DEF UlaInv, ControlOK
  <2> QED  BY <2>1, <2>2, <2>3 DEF SelectRom
<1> QED  BY <1>1, <1>2, RegisterWriteInv
         DEF WriteClear, TapeUnchanged, UlaInv, Timing, ControlOK

(* Register 7 switches motor and direction.  (writeula) *)
LEMMA WriteControlInv == ASSUME UlaInv, WriteControl PROVE UlaInv'
<1>1. Good(u')
  BY DEF WriteControl, UlaInv, Good, Seen, Wanted, Counted, Fresh, Apart
<1>2. tapeout' \in BOOLEAN
  BY UlaAssumption DEF WriteControl
<1> QED  BY <1>1, <1>2, RegisterWriteInv
         DEF WriteControl, TapeUnchanged, UlaInv, Timing, ControlOK

(* Reading register 4 clears the byte's flag.  (readula) *)
LEMMA ReadDataInv == ASSUME UlaInv, ReadData PROVE UlaInv'
<1>1. Good(u')
  BY ClearKeepsGood DEF ReadData, UlaInv
<1> QED  BY <1>1, RegisterWriteInv
         DEF ReadData, TapeUnchanged, UlaInv, Timing, ControlOK

(* resetula *)
LEMMA ResetUlaInv == ASSUME UlaInv, ResetUla PROVE UlaInv'
<1> DEFINE none == {}
           q == [u EXCEPT !.isr = none, !.ier = none]
<1>1. none \in SUBSET Flag /\ none \in SUBSET Source
  OBVIOUS
<1>2. u \in Registers
  BY DEF UlaInv, Good
<1>3. u' = q
  BY DEF ResetUla
<1> HIDE DEF none
<1>4. q \in Registers
  BY <1>1, <1>2, ZenonT(30) DEF Registers
<1>5. q.isr = none
  BY <1>2, SMT DEF Registers
<1> HIDE DEF q
<1>6. Good(u')
  BY <1>3, <1>4, <1>5 DEF Good, Seen, Wanted, Counted, Fresh, Apart, none
<1>7. tapewrite' \in 0..(MaxCredit + BitLength)
  BY Numbers DEF ResetUla
<1> QED  BY <1>6, <1>7, RegisterWriteInv
         DEF ResetUla, TapeUnchanged, UlaInv, ControlOK

(* The display, the serial interface and the user *)
(* The display raises its interrupts like any other.  (yield) *)
LEMMA RasterInterruptInv == ASSUME UlaInv, RasterInterrupt PROVE UlaInv'
<1>1. PICK source \in Raster : u' = Raise(u, source)
  BY DEF RasterInterrupt
<1>2. source \in {"vbl", "rtc"}
  BY UlaAssumption
<1>3. source \in Source /\ "receive" \in Source /\ "hightone" \in Source
  BY <1>2 DEF Source
<1>4. Good(u')
  BY <1>1, <1>2, <1>3, RaiseGood DEF UlaInv, Good, Counted, Fresh, Apart
<1> QED  BY <1>4, RegisterWriteInv
         DEF RasterInterrupt, TapeUnchanged, UlaInv, Timing, ControlOK

(* The serial interface and the user touch no register of the ULA. *)
LEMMA OthersInv ==
  ASSUME UlaInv, SerialInterrupt \/ LoadTape \/ CloseTape
  PROVE  UlaInv'
<1>1. UNCHANGED <<u, tapewrite, fast>>
  BY DEF SerialInterrupt, LoadTape, CloseTape
<1>2. Good(u') /\ Timing'
  BY <1>1 DEF UlaInv, Good, Seen, Wanted, Counted, Fresh, Apart, Timing, Credit
<1>3. tape' \in Playable
  <2>1. tape.pauseit \in BOOLEAN
    BY PlayerFields DEF UlaInv, Playable
  <2>2. Opened(tape.pauseit) \in Playable
    BY <2>1, OpenedType
  <2> QED  BY <2>2 DEF SerialInterrupt, LoadTape, CloseTape, UlaInv
<1>4. ControlOK'
  BY DEF SerialInterrupt, LoadTape, CloseTape, UlaInv, ControlOK
<1> QED  BY <1>2, <1>3, <1>4 DEF UlaInv

(* Every step keeps the invariant. *)
LEMMA UlaNext == UlaInv /\ [Next]_vars => UlaInv'
<1> SUFFICES ASSUME UlaInv, [Next]_vars PROVE UlaInv'
  OBVIOUS
<1>1. CASE UNCHANGED vars
  BY <1>1 DEF vars, UlaInv, Good, Seen, Wanted, Counted, Fresh, Apart,
     Timing, Credit, ControlOK
<1>2. CASE CpuLoop
  BY <1>2, InstructionInv, BeginFastInv, FastPollInv DEF CpuLoop
<1>3. CASE Cpu
  BY <1>3, WriteEnableInv, WriteDataInv, WriteClearInv, WriteControlInv,
     ReadDataInv, ResetUlaInv DEF Cpu
<1>4. CASE Others
  BY <1>4, RasterInterruptInv, OthersInv DEF Others
<1> QED  BY <1>1, <1>2, <1>3, <1>4 DEF Next

-----------------------------------------------------------------------------
(* UlaInv holds in every state, whatever the CPU and the user do. *)
THEOREM UlaInvHolds == Spec => []UlaInv
  BY UlaInit, UlaNext, PTL DEF Spec

(* Every variable has its type: the counts of bits and bytes, the shift     *)
(* register, the player's position and countdowns, and tapewrite stay in    *)
(* their ranges on every tape.  (polltape, polluef)                         *)
THEOREM UlaTypeCorrect == Spec => []TypeOK
<1>1. UlaInv => TypeOK
  BY DEF UlaInv, Good, Playable, Timing, ControlOK, TypeOK
<1> QED  BY <1>1, UlaInvHolds, PTL

(* An interrupt that is pending and enabled is never missed: after every    *)
(* handler the line is up and bit 0 of the status register says so, even    *)
(* while the serial interface asks as well.  (updateulaints and its callers) *)
THEOREM EnabledInterruptsSeen == Spec => []InterruptSeen
<1>1. UlaInv => InterruptSeen
  BY DEF UlaInv, Good, Seen, InterruptSeen
<1> QED  BY <1>1, UlaInvHolds, PTL

(* A byte and a tone are never announced together, whatever is written to   *)
(* the data register between two bits.  (polltape)                          *)
THEOREM ByteAndToneApart == Spec => []ByteOrTone
<1>1. UlaInv => ByteOrTone
  BY DEF UlaInv, Good, Apart, ByteOrTone
<1> QED  BY <1>1, UlaInvHolds, PTL

-----------------------------------------------------------------------------
(* Where pauses are.  (uef.c, pauseit)                                      *)

(* A pause ends with the next chunk, so only a chunk of plain data hands    *)
(* over a byte in it, without the stop bit of polltape before it.  The tape *)
(* has none after a short tone, or at its beginning, where a pause gets to  *)
(* by rewinding.                                                            *)
Spaced ==
  \A i \in 0..Len(Tape) :
    i = 0 \/ Tape[i].id = "shorttone" => Tape[NextChunk(i)].id # "data"

(* A countdown runs only within a chunk that counts, and a pause is between *)
(* chunks.                                                                  *)
Quiet(t) ==
  t.intone # 0 => t.inchunk # 0 /\ Here(t).id \in {"tone", "dummy", "gap"}
Pausing(t) ==
  t.pauseit => t.inchunk = 0 /\ (t.at = 0 \/ Tape[t.at].id = "shorttone")
Steady(t) == Quiet(t) /\ Pausing(t)

(* What a poll in a chunk leaves: a number more for each byte, and a pause  *)
(* only after a short tone.                                                 *)
Leaves(t, r) ==
  /\ Steady(r.tape)
  /\ r.event.kind = "byte" =>
       r.tape.given = t.given + 1 /\ ~r.tape.pauseit
       /\ (Here(t).id \in {"data", "defined"} \/ t.intone # 0)
  /\ r.event.kind # "byte" => r.tape.given = t.given

(* The events differ. *)
LEMMA Kinds ==
  /\ Nothing.kind = "nothing" /\ HighTone.kind = "tone"
  /\ \A b : Receive(b).kind = "byte"
  BY DEF Nothing, HighTone, Receive

(* The fields of a result *)
LEMMA ResultFields ==
  ASSUME NEW t, NEW e
  PROVE  Result(t, e).tape = t /\ Result(t, e).event = e
  BY DEF Result

(* The chunk before the pause is left for one that needs no stop bit.       *)
(* (polluef, pauseit = 0)                                                   *)
LEMMA HeaderLeaves ==
  ASSUME NEW t \in Playable, Steady(t)
  PROVE  LET r == ReadHeader(t)
         IN  /\ r \in InChunk /\ ~r.pauseit /\ r.given \in {0, t.given}
             /\ Quiet(r)
             /\ t.pauseit /\ Spaced =>
                  r.intone = 0 /\ r.chunkpos = 0 /\ Here(r).id # "data"
<1>1. t \in Player /\ ReadHeader(t) \in InChunk
  BY ReadHeaderType DEF Playable
<1>2. CASE t.inchunk # 0
  <2>1. ReadHeader(t) = t
    BY <1>2, Zenon DEF ReadHeader
  <2>2. ~t.pauseit
    BY <1>2 DEF Steady, Pausing
  <2> QED  BY <1>1, <1>2, <2>1, <2>2 DEF Steady
<1>3. CASE t.inchunk = 0
  <2> DEFINE n == NextChunk(t.at)
             g == IF n <= t.at THEN 0 ELSE t.given
             r == [t EXCEPT !.at = n, !.inchunk = 1, !.chunkpos = 0,
                            !.taken = 0, !.pauseit = FALSE, !.given = g]
  <2>1. ReadHeader(t) = r
    BY <1>3, Zenon DEF ReadHeader
  <2>2. g \in {0, t.given}
    OBVIOUS
  <2>3. t.at \in 0..Len(Tape) /\ t.intone = 0
    BY <1>1, <1>3, PlayerFields DEF Steady, Quiet
  <2>4. t.pauseit /\ Spaced => Tape[n].id # "data"
    BY <2>3 DEF Steady, Pausing, Spaced
  <2> HIDE DEF n, g
  <2>5. /\ r.at = n /\ r.chunkpos = 0 /\ r.pauseit = FALSE /\ r.given = g
        /\ r.intone = t.intone
    BY <1>1, SMT DEF Player
  <2> HIDE DEF r
  <2> QED  BY <1>1, <1>3, <2>1, <2>2, <2>3, <2>4, <2>5 DEF Here, Quiet
<1> QED  BY <1>2, <1>3

(* A player that only counts, or comes to the end of its chunk, is steady.  *)
LEMMA EndFields ==
  ASSUME NEW t \in Player
  PROVE  LET r == EndChunk(t)
         IN  /\ r.inchunk = 0 /\ r.at = t.at /\ r.intone = t.intone
             /\ r.pauseit = t.pauseit /\ r.given = t.given
  BY SMT DEF EndChunk, Player

(* Counting a tone or a gap down ends its chunk with nothing left to count. *)
LEMMA CountToneLeaves ==
  ASSUME NEW t \in InChunk, ~t.pauseit, Quiet(t), t.intone # 0
  PROVE  LET r == CountTone(t)
         IN  Steady(r) /\ ~r.pauseit /\ r.given = t.given
<1> DEFINE n == t.intone - 1
           r == [t EXCEPT !.intone = n]
<1>1. t \in Player /\ t.inchunk # 0
  BY DEF InChunk, Playable
<1>2. n \in Nat
  BY <1>1, PlayerFields
<1>3. CountTone(t) = IF r.intone = 0 THEN EndChunk(r) ELSE r
  BY DEF CountTone
<1> HIDE DEF n
<1>4. r \in Player
  BY <1>1, <1>2, Zenon DEF Player
<1>5. /\ r.inchunk = t.inchunk /\ r.pauseit = t.pauseit /\ r.at = t.at
      /\ r.given = t.given /\ r.intone = n
  BY <1>1, SMT DEF Player
<1> HIDE DEF r
<1>6. CASE r.intone = 0
  BY <1>3, <1>4, <1>5, <1>6, EndFields DEF Steady, Quiet, Pausing
<1>7. CASE r.intone # 0
  BY <1>1, <1>3, <1>5, <1>7 DEF Steady, Quiet, Pausing, Here
<1> QED  BY <1>6, <1>7

(* A byte is the next one of the tape.  (polluef, 0x100 and 0x104) *)
LEMMA TakeByteLeaves ==
  ASSUME NEW t \in InChunk, ~t.pauseit, Quiet(t),
         Here(t).id \in {"data", "defined"}
  PROVE  Leaves(t, TakeByte(t))
<1> DEFINE g == t.given + 1
           n == t.taken + 1
           next == [Given(t) EXCEPT !.taken = @ + 1]
           r == [t EXCEPT !.given = g, !.taken = n]
           after == IF next.taken = Len(Here(t).bytes) THEN EndChunk(next)
                    ELSE next
<1>1. t \in Player /\ t.inchunk # 0 /\ t.intone = 0
  BY DEF InChunk, Playable, Quiet
<1>2. g \in Nat /\ n \in Nat
  BY <1>1, PlayerFields
<1>3. next = r
  <2>1. Given(t) = [t EXCEPT !.given = g]
    BY DEF Given
  <2> QED  BY <1>1, <2>1, SMT DEF Player
<1>4. TakeByte(t) = Result(after, Receive(NextByte(t)))
  BY DEF TakeByte
<1>5. r \in Player
  BY <1>1, <1>2, Zenon DEF Player
<1>6. /\ r.inchunk = t.inchunk /\ r.pauseit = t.pauseit /\ r.given = g
      /\ r.intone = t.intone
  BY <1>1, <1>2, SMT DEF Player
<1> HIDE DEF next, r
<1>7. after \in {r, EndChunk(r)}
  BY <1>3
<1> HIDE DEF after
<1>8. Steady(after) /\ after.given = g /\ ~after.pauseit
  <2>1. CASE after = r
    BY <1>1, <1>6, <2>1 DEF Steady, Quiet, Pausing
  <2>2. CASE after = EndChunk(r)
    BY <1>1, <1>5, <1>6, <2>2, EndFields DEF Steady, Quiet, Pausing
  <2> QED  BY <1>7, <2>1, <2>2
<1>9. TakeByte(t).tape = after /\ TakeByte(t).event.kind = "byte"
  BY <1>4, ResultFields, Kinds
<1> QED  BY <1>8, <1>9 DEF Leaves

(* The first poll of a chunk of defined data reads its format.  (0x104) *)
LEMMA DefinedLeaves ==
  ASSUME NEW t \in InChunk, ~t.pauseit, Quiet(t), Here(t).id = "defined"
  PROVE  Leaves(t, Defined(t)) /\ (t.chunkpos = 0 => Defined(t).event = Nothing)
<1> DEFINE r == [t EXCEPT !.chunkpos = 1]
<1>1. t \in Player /\ t.inchunk # 0
  BY DEF InChunk, Playable
<1>2. Defined(t) = IF t.chunkpos = 0 THEN Result(r, Nothing) ELSE TakeByte(t)
  BY Zenon DEF Defined
<1>3. /\ r.inchunk = t.inchunk /\ r.pauseit = t.pauseit
      /\ r.given = t.given /\ r.intone = t.intone /\ r.at = t.at
  BY <1>1, SMT DEF Player
<1> HIDE DEF r
<1>4. Steady(r)
  BY <1>3 DEF Steady, Quiet, Pausing, Here
<1>5. Leaves(t, Result(r, Nothing))
  BY <1>3, <1>4, ResultFields, Kinds DEF Leaves
<1> QED  BY <1>2, <1>5, TakeByteLeaves, ResultFields

(* Setting the countdown of a chunk that counts *)
LEMMA SetToneSteady ==
  ASSUME NEW t \in InChunk, ~t.pauseit, NEW n \in Nat,
         Here(t).id \in {"tone", "dummy", "gap"}
  PROVE  LET r == [t EXCEPT !.intone = n]
         IN  Steady(r) /\ r.given = t.given /\ ~r.pauseit
<1> DEFINE r == [t EXCEPT !.intone = n]
<1>1. t \in Player /\ t.inchunk # 0
  BY DEF InChunk, Playable
<1>2. /\ r.inchunk = t.inchunk /\ r.pauseit = t.pauseit
      /\ r.given = t.given /\ r.at = t.at
  BY <1>1, SMT DEF Player
<1> HIDE DEF r
<1>3. Steady(r)
  BY <1>1, <1>2 DEF Steady, Quiet, Pausing, Here
<1> QED  BY <1>2, <1>3 DEF r

(* Tones, gaps and what is skipped hand over no byte.  (polluef) *)
LEMMA ToneLeaves ==
  ASSUME NEW t \in InChunk, ~t.pauseit, Quiet(t), Here(t).id = "tone"
  PROVE  Leaves(t, Tone(t)) /\ Tone(t).event.kind # "byte"
<1>1. Tone(t) = IF t.intone = 0 THEN Result([t EXCEPT !.intone = 6], HighTone)
                ELSE Result(CountTone(t), Nothing)
  BY Zenon DEF Tone
<1> DEFINE r == [t EXCEPT !.intone = 6]
<1>2. Steady(r) /\ r.given = t.given
  BY SetToneSteady
<1> HIDE DEF r
<1>3. CASE t.intone = 0
  <2>1. Tone(t) = Result(r, HighTone)
    BY <1>1, <1>3 DEF r
  <2> QED  BY <1>2, <2>1, ResultFields, Kinds DEF Leaves
<1>4. CASE t.intone # 0
  BY <1>1, <1>4, CountToneLeaves, ResultFields, Kinds DEF Leaves
<1> QED  BY <1>3, <1>4

(* 0x112: a gap of a number of polls *)
LEMMA GapLeaves ==
  ASSUME NEW t \in InChunk, ~t.pauseit, Quiet(t), Here(t).id = "gap"
  PROVE  Leaves(t, Gap(t)) /\ Gap(t).event.kind # "byte"
<1> DEFINE n == Here(t).polls
           r == [t EXCEPT !.intone = n]
<1>1. n \in Nat
  BY HereType DEF Chunk
<1>2. Gap(t) = IF t.intone = 0 THEN Result(r, Nothing)
               ELSE Result(CountTone(t), Nothing)
  BY Zenon DEF Gap
<1> HIDE DEF n
<1>3. Steady(r) /\ r.given = t.given
  BY <1>1, SetToneSteady
<1> HIDE DEF r
<1>4. CASE t.intone = 0
  BY <1>2, <1>3, <1>4, ResultFields, Kinds DEF Leaves
<1>5. CASE t.intone # 0
  BY <1>2, <1>5, CountToneLeaves, ResultFields, Kinds DEF Leaves
<1> QED  BY <1>4, <1>5

(* 0x110, a tone that is only a pause *)
LEMMA ShortToneLeaves ==
  ASSUME NEW t \in InChunk, Quiet(t), Here(t).id = "shorttone"
  PROVE  Leaves(t, ShortTone(t)) /\ ShortTone(t).event.kind # "byte"
<1> DEFINE e == EndChunk(t)
           r == [e EXCEPT !.pauseit = TRUE]
<1>1. t \in Player /\ t.intone = 0
  BY DEF InChunk, Playable, Quiet
<1>2. /\ e \in Player /\ e.inchunk = 0 /\ e.at = t.at /\ e.given = t.given
      /\ e.intone = t.intone
  BY <1>1, EndChunkType, EndFields DEF Playable
<1>3. ShortTone(t) = Result(r, Nothing)
  BY DEF ShortTone
<1> HIDE DEF e
<1>4. /\ r.inchunk = e.inchunk /\ r.at = e.at /\ r.given = e.given
      /\ r.intone = e.intone
  BY <1>2, SMT DEF Player
<1> HIDE DEF r
<1>5. Steady(r)
  BY <1>1, <1>2, <1>4 DEF Steady, Quiet, Pausing, Here
<1> QED  BY <1>2, <1>3, <1>4, <1>5, ResultFields, Kinds DEF Leaves

(* 0x111: a byte between two tones, after a countdown  (polluef) *)
LEMMA DummyLeaves ==
  ASSUME NEW t \in InChunk, ~t.pauseit, Quiet(t), Here(t).id = "dummy"
  PROVE  /\ Leaves(t, Dummy(t))
         /\ Dummy(t).event.kind = "byte" => t.intone # 0
<1> DEFINE g == t.given + 1
           begun == [t EXCEPT !.intone = 3]
           dummy == [Given(t) EXCEPT !.inchunk = 2, !.intone = 4]
           r == [t EXCEPT !.given = g, !.inchunk = 2, !.intone = 4]
           event == IF t.intone = 4 THEN HighTone ELSE Nothing
<1>1. t \in Player /\ t.inchunk # 0
  BY DEF InChunk, Playable
<1>2. dummy = r
  <2>1. Given(t) = [t EXCEPT !.given = g]
    BY DEF Given
  <2> QED  BY <1>1, <2>1, SMT DEF Player
<1>3. Dummy(t) = IF t.intone = 0 THEN Result(begun, HighTone)
                 ELSE IF t.inchunk # 2 /\ t.intone = 1
                 THEN Result(dummy, Receive(DummyByte))
                 ELSE Result(CountTone(t), event)
  BY Zenon DEF Dummy
<1>4. Steady(begun) /\ begun.given = t.given
  BY SetToneSteady
<1>5. /\ r.inchunk = 2 /\ r.pauseit = t.pauseit /\ r.at = t.at
      /\ r.given = g
  BY <1>1, SMT DEF Player
<1> HIDE DEF begun, dummy, r
<1>6. Steady(r) /\ ~r.pauseit
  BY <1>5 DEF Steady, Quiet, Pausing, Here
<1>7. event.kind # "byte"
  BY Kinds
<1> HIDE DEF event
<1>8. CASE Dummy(t) = Result(begun, HighTone)
  BY <1>4, <1>8, ResultFields, Kinds DEF Leaves
<1>9. CASE Dummy(t) = Result(dummy, Receive(DummyByte)) /\ t.intone = 1
  BY <1>2, <1>5, <1>6, <1>9, ResultFields, Kinds DEF Leaves
<1>10. CASE Dummy(t) = Result(CountTone(t), event) /\ t.intone # 0
  BY <1>7, <1>10, CountToneLeaves, ResultFields DEF Leaves
<1> QED  BY <1>3, <1>8, <1>9, <1>10

(* 0x116: a gap counted in chunkf  (polluef) *)
LEMMA FloatGapLeaves ==
  ASSUME NEW t \in InChunk, ~t.pauseit, Quiet(t), Here(t).id = "floatgap"
  PROVE  Leaves(t, FloatGap(t)) /\ FloatGap(t).event.kind # "byte"
<1> DEFINE n == Here(t).polls
           m == t.chunkf - 1
           begun == [t EXCEPT !.chunkpos = 1, !.chunkf = n]
           next == [t EXCEPT !.chunkf = m]
           after == IF next.chunkf = 0 THEN EndChunk(next) ELSE next
<1>1. t \in Player /\ t.inchunk # 0 /\ t.intone = 0 /\ Inside(t)
  BY DEF InChunk, Playable, Quiet
<1>2. FloatGap(t) = IF t.chunkpos = 0 THEN Result(begun, Nothing)
                    ELSE Result(after, Nothing)
  BY Zenon DEF FloatGap
<1>3. t.chunkpos # 0 => m \in Nat
  BY <1>1, PlayerFields DEF Inside
<1> HIDE DEF n, m
<1>4. /\ begun.inchunk = t.inchunk /\ begun.pauseit = t.pauseit
      /\ begun.given = t.given /\ begun.intone = t.intone
  BY <1>1, SMT DEF Player
<1>5. /\ next.inchunk = t.inchunk /\ next.pauseit = t.pauseit
      /\ next.given = t.given /\ next.intone = t.intone
  BY <1>1, SMT DEF Player
<1>6. t.chunkpos # 0 => next \in Player
  BY <1>1, <1>3, Zenon DEF Player
<1> HIDE DEF begun, next
<1>7. after \in {next, EndChunk(next)}
  OBVIOUS
<1> HIDE DEF after
<1>8. Steady(begun)
  BY <1>1, <1>4 DEF Steady, Quiet, Pausing
<1>9. t.chunkpos # 0 => Steady(after) /\ after.given = t.given
  <2> SUFFICES ASSUME t.chunkpos # 0
               PROVE  Steady(after) /\ after.given = t.given
    OBVIOUS
  <2>1. CASE after = next
    BY <1>1, <1>5, <2>1 DEF Steady, Quiet, Pausing
  <2>2. CASE after = EndChunk(next)
    BY <1>1, <1>5, <1>6, <2>2, EndFields DEF Steady, Quiet, Pausing
  <2> QED  BY <1>7, <2>1, <2>2
<1> QED  BY <1>2, <1>4, <1>8, <1>9, ResultFields, Kinds DEF Leaves

(* The end of a skipped chunk *)
LEMMA SkippedLeaves ==
  ASSUME NEW t \in InChunk, ~t.pauseit, Quiet(t), Here(t).id = "skipped"
  PROVE  LET r == Result(EndChunk(t), Nothing)
         IN  Leaves(t, r) /\ r.event.kind # "byte"
<1>1. t \in Player /\ t.intone = 0
  BY DEF InChunk, Playable, Quiet
<1>2. Steady(EndChunk(t)) /\ EndChunk(t).given = t.given
  BY <1>1, EndFields DEF Steady, Quiet, Pausing
<1> QED  BY <1>2, ResultFields, Kinds DEF Leaves

(* A poll of a chunk, and whether it can be one that hands over a byte *)
LEMMA ChunkLeaves ==
  ASSUME NEW t \in Playable, Steady(t)
  PROVE  LET r == ReadHeader(t)
             p == PollUef(t)
         IN  /\ Leaves(r, p)
             /\ p.event.kind = "byte" =>
                  \/ Here(r).id = "data" \/ r.intone # 0
                  \/ Here(r).id = "defined" /\ r.chunkpos # 0
<1> DEFINE r == ReadHeader(t)
           kind == Here(r).id
           p == PollUef(t)
<1> SUFFICES /\ Leaves(r, p)
             /\ p.event.kind = "byte" =>
                  \/ kind = "data" \/ r.intone # 0
                  \/ kind = "defined" /\ r.chunkpos # 0
  OBVIOUS
<1>1. r \in InChunk /\ ~r.pauseit /\ Quiet(r)
  BY HeaderLeaves
<1>2. p = CASE kind = "data" -> Data(r)
            [] kind = "defined" -> Defined(r)
            [] kind = "tone" -> Tone(r)
            [] kind = "shorttone" -> ShortTone(r)
            [] kind = "dummy" -> Dummy(r)
            [] kind = "gap" -> Gap(r)
            [] kind = "floatgap" -> FloatGap(r)
            [] kind = "skipped" -> Result(EndChunk(r), Nothing)
  BY Zenon DEF PollUef
<1> HIDE DEF r, p
<1>3. kind \in ChunkKind \ {"rate"}
  BY <1>1, HereType DEF Chunk
<1>4. CASE kind = "data" /\ p = Data(r)
  BY <1>1, <1>4, TakeByteLeaves DEF Data
<1>5. CASE kind = "defined" /\ p = Defined(r)
  <2>1. Leaves(r, p) /\ (r.chunkpos = 0 => p.event.kind = "nothing")
    BY <1>1, <1>5, DefinedLeaves, Kinds
  <2> QED  BY <1>5, <2>1
<1>6. CASE kind = "tone" /\ p = Tone(r)
  BY <1>1, <1>6, ToneLeaves
<1>7. CASE kind = "shorttone" /\ p = ShortTone(r)
  BY <1>1, <1>7, ShortToneLeaves
<1>8. CASE kind = "dummy" /\ p = Dummy(r)
  BY <1>1, <1>8, DummyLeaves
<1>9. CASE kind = "gap" /\ p = Gap(r)
  BY <1>1, <1>9, GapLeaves
<1>10. CASE kind = "floatgap" /\ p = FloatGap(r)
  BY <1>1, <1>10, FloatGapLeaves
<1>11. CASE kind = "skipped" /\ p = Result(EndChunk(r), Nothing)
  BY <1>1, <1>11, SkippedLeaves
<1>12. \/ kind = "data" /\ p = Data(r)
       \/ kind = "defined" /\ p = Defined(r)
       \/ kind = "tone" /\ p = Tone(r)
       \/ kind = "shorttone" /\ p = ShortTone(r)
       \/ kind = "dummy" /\ p = Dummy(r)
       \/ kind = "gap" /\ p = Gap(r)
       \/ kind = "floatgap" /\ p = FloatGap(r)
       \/ kind = "skipped" /\ p = Result(EndChunk(r), Nothing)
  <2> HIDE DEF kind
  <2> QED  BY <1>2, <1>3, SMT DEF ChunkKind
<1> QED  BY <1>4, <1>5, <1>6, <1>7, <1>8, <1>9, <1>10, <1>11, <1>12

(* What a poll does to the number of bytes and to pauses: with a tape whose *)
(* pauses are followed by something else, none ends in a byte.  (polluef)   *)
LEMMA PollLeaves ==
  ASSUME NEW t \in Playable, Steady(t)
  PROVE  LET p == PollUef(t)
         IN  /\ Steady(p.tape)
             /\ p.event.kind = "byte" =>
                  /\ p.tape.given \in {1, t.given + 1} /\ ~p.tape.pauseit
                  /\ ~(t.pauseit /\ Spaced)
             /\ p.event.kind # "byte" => p.tape.given \in {0, t.given}
<1> DEFINE r == ReadHeader(t)
           p == PollUef(t)
<1>1. /\ r \in InChunk /\ r.given \in {0, t.given}
      /\ t.pauseit /\ Spaced =>
           r.intone = 0 /\ r.chunkpos = 0 /\ Here(r).id # "data"
  BY HeaderLeaves
<1>2. /\ Leaves(r, p)
      /\ p.event.kind = "byte" =>
           \/ Here(r).id = "data" \/ r.intone # 0
           \/ Here(r).id = "defined" /\ r.chunkpos # 0
  BY ChunkLeaves
<1> HIDE DEF r, p
<1>3. t.given \in Nat
  BY PlayerFields DEF Playable
<1> QED  BY <1>1, <1>2, <1>3 DEF Leaves, p

-----------------------------------------------------------------------------
(* The registers of the tape.  (ula.c) *)

(* Registers that are the same to the tape *)
SameTape(r, s) ==
  /\ s.recdat = r.recdat /\ s.taperecdat = r.taperecdat
  /\ s.tapelatch = r.tapelatch /\ s.tapedat = r.tapedat
  /\ s.bitcount = r.bitcount /\ s.hightone = r.hightone
  /\ s.recno = r.recno /\ s.latchno = r.latchno /\ s.clean = r.clean

(* Interrupts are not part of what the tape uses.  (updateulaints) *)
LEMMA InterruptsTape ==
  ASSUME NEW r \in Registers, NEW S
  PROVE  /\ SameTape(r, [r EXCEPT !.isr = S])
         /\ SameTape(r, UpdateInts(r))
<1> DEFINE up == r.isr \cup {"master"}
           down == r.isr \ {"master"}
           a == [r EXCEPT !.isr = up, !.irq = TRUE]
           b == [r EXCEPT !.irq = TRUE]
           c == [r EXCEPT !.isr = down, !.irq = FALSE]
<1>1. UpdateInts(r) = IF Wanted(r) THEN a
                      ELSE IF Plus1 /\ serialIrq THEN b ELSE c
  BY DEF UpdateInts
<1> HIDE DEF up, down
<1>2. SameTape(r, [r EXCEPT !.isr = S])
  BY SMT DEF SameTape, Registers
<1>3. SameTape(r, a)
  BY SMT DEF SameTape, Registers
<1>4. SameTape(r, b)
  BY SMT DEF SameTape, Registers
<1>5. SameTape(r, c)
  BY SMT DEF SameTape, Registers
<1> HIDE DEF a, b, c
<1>6. UpdateInts(r) \in {a, b, c}
  BY <1>1
<1> QED  BY <1>2, <1>3, <1>4, <1>5, <1>6

(* Raising or clearing an interrupt leaves the tape alone. *)
LEMMA RaiseTape ==
  ASSUME NEW r \in Registers, NEW source \in Source
  PROVE  SameTape(r, Raise(r, source))
<1> DEFINE up == r.isr \cup {source}
           q == [r EXCEPT !.isr = up]
<1>1. up \in SUBSET Flag
  BY RegisterFields DEF Flag
<1>2. Raise(r, source) = UpdateInts(q)
  BY DEF Raise
<1> HIDE DEF up
<1>3. q \in Registers
  BY <1>1, ZenonT(30) DEF Registers
<1>4. SameTape(r, q)
  BY InterruptsTape
<1> HIDE DEF q
<1>5. SameTape(q, UpdateInts(q))
  BY <1>3, InterruptsTape
<1> QED  BY <1>2, <1>4, <1>5 DEF SameTape

(* Clearing interrupts leaves the tape alone. *)
LEMMA ClearTape ==
  ASSUME NEW r \in Registers, NEW sources
  PROVE  SameTape(r, Clear(r, sources))
<1> DEFINE down == r.isr \ sources
           q == [r EXCEPT !.isr = down]
<1>1. down \in SUBSET Flag
  BY RegisterFields
<1>2. Clear(r, sources) = UpdateInts(q)
  BY DEF Clear
<1> HIDE DEF down
<1>3. q \in Registers
  BY <1>1, ZenonT(30) DEF Registers
<1>4. SameTape(r, q)
  BY InterruptsTape
<1> HIDE DEF q
<1>5. SameTape(q, UpdateInts(q))
  BY <1>3, InterruptsTape
<1> QED  BY <1>2, <1>4, <1>5 DEF SameTape

(* A poll begins with what sends bytes, which the tape does not notice.     *)
(* (polltape, sbitcount)                                                    *)
LEMMA BegunTape ==
  ASSUME NEW r \in Registers, Seen(r)
  PROVE  LET s == CountSend([r EXCEPT !.break = FALSE])
         IN  s \in Registers /\ Seen(s) /\ SameTape(r, s)
<1> DEFINE q == [r EXCEPT !.break = FALSE]
           n == q.sbitcount - 1
           less == [q EXCEPT !.sbitcount = n]
           full == DataBits + 1
           again == [q EXCEPT !.sbitcount = full]
<1>1. CountSend(q) = IF q.sbitcount > 1 THEN less ELSE Raise(again, "send")
  BY DEF CountSend
<1>2. q \in Registers /\ Seen(q)
  BY BreakGood
<1>3. CountSend(q) \in Registers /\ Seen(CountSend(q))
  BY <1>2, CountSendGood
<1>4. SameTape(r, q)
  BY SMT DEF SameTape, Registers
<1>5. full \in 1..(DataBits + 1) /\ "send" \in Source
  BY Words DEF Source
<1> HIDE DEF q, n, full
<1>6. again \in Registers
  BY <1>2, <1>5, ZenonT(30) DEF Registers
<1>7. SameTape(q, less)
  BY <1>2, SMT DEF SameTape, Registers
<1>8. SameTape(q, again)
  BY <1>2, SMT DEF SameTape, Registers
<1> HIDE DEF less, again
<1>9. SameTape(again, Raise(again, "send"))
  BY <1>5, <1>6, RaiseTape
<1>10. SameTape(q, CountSend(q))
  BY <1>1, <1>7, <1>8, <1>9 DEF SameTape
<1> QED  BY <1>3, <1>4, <1>10 DEF SameTape, q

(* A bit less to come *)
LEMMA CountBitTape ==
  ASSUME NEW r \in Registers, r.bitcount # 0
  PROVE  LET s == CountBit(r)
         IN  /\ s.bitcount = r.bitcount - 1
             /\ s.recdat = r.recdat /\ s.taperecdat = r.taperecdat
             /\ s.tapedat = r.tapedat /\ s.hightone = r.hightone
             /\ s.recno = r.recno /\ s.latchno = r.latchno
             /\ s.clean = r.clean /\ s.tapelatch = r.tapelatch
<1> DEFINE n == r.bitcount - 1
           q == [r EXCEPT !.bitcount = n]
<1>1. CountBit(r) = IF q.bitcount = DataBits - 1 THEN Clear(q, {"receive"})
                    ELSE q
  BY DEF CountBit
<1>2. n \in 0..(DataBits + 1)
  BY RegisterFields, Words
<1> HIDE DEF n
<1>3. q \in Registers
  BY <1>2, ZenonT(30) DEF Registers
<1>4. /\ q.bitcount = n /\ q.recdat = r.recdat
      /\ q.taperecdat = r.taperecdat /\ q.tapedat = r.tapedat
      /\ q.hightone = r.hightone /\ q.recno = r.recno
      /\ q.latchno = r.latchno /\ q.clean = r.clean
      /\ q.tapelatch = r.tapelatch
  BY SMT DEF Registers
<1> HIDE DEF q
<1>5. SameTape(q, Clear(q, {"receive"}))
  BY <1>3, ClearTape
<1> QED  BY <1>1, <1>4, <1>5 DEF SameTape, n

(* A latched byte takes its number along.  (polltape, the start bit) *)
LEMMA LatchTape ==
  ASSUME NEW r \in Registers
  PROVE  LET s == Latch(r)
         IN  /\ r.tapedat % 4 # 1 => s = r
             /\ r.tapedat % 4 = 1 =>
                  /\ s.tapelatch = r.recdat /\ s.latchno = r.recno
                  /\ s.bitcount = DataBits + 1 /\ ~s.clean
             /\ s.recno = r.recno /\ s.tapedat = r.tapedat
<1> DEFINE down == r.isr \ {"hightone"}
           full == DataBits + 1
           q == [r EXCEPT !.isr = down, !.tapelatch = r.recdat,
                          !.bitcount = full, !.break = TRUE,
                          !.latchno = r.recno, !.clean = FALSE]
<1>1. Latch(r) = IF r.tapedat % 4 # 1 THEN r ELSE Raise(q, "receive")
  BY DEF Latch
<1>2. down \in SUBSET Flag /\ full \in 0..(DataBits + 1)
      /\ "receive" \in Source /\ TRUE \in BOOLEAN /\ FALSE \in BOOLEAN
  BY RegisterFields, Words DEF Source
<1> HIDE DEF down, full
<1>3. q \in Registers
  <2> DEFINE b == r.recdat
             c == r.recno
  <2>1. b \in Byte /\ c \in Nat
    BY RegisterFields
  <2> HIDE DEF b, c
  <2>2. [r EXCEPT !.isr = down, !.tapelatch = b, !.bitcount = full,
                  !.break = TRUE, !.latchno = c, !.clean = FALSE]
          \in Registers
    BY <1>2, <2>1, ZenonT(30) DEF Registers
  <2> QED  BY <2>2 DEF b, c
<1>4. /\ q.tapelatch = r.recdat /\ q.latchno = r.recno /\ q.bitcount = full
      /\ q.clean = FALSE /\ q.recno = r.recno /\ q.tapedat = r.tapedat
  BY SMT DEF Registers
<1> HIDE DEF q
<1>5. SameTape(q, Raise(q, "receive"))
  BY <1>2, <1>3, RaiseTape
<1> QED  BY <1>1, <1>4, <1>5 DEF SameTape, full

(* A tone noticed touches none of the numbers. *)
LEMMA DetectToneTape ==
  ASSUME NEW r \in Registers
  PROVE  LET s == DetectTone(r)
         IN  /\ s.recno = r.recno /\ s.latchno = r.latchno
             /\ s.clean = r.clean /\ s.tapedat = r.tapedat
             /\ s.tapelatch = r.tapelatch
<1> DEFINE q == [r EXCEPT !.bitcount = 0, !.break = TRUE]
<1>1. DetectTone(r) = IF r.tapedat # AllOnes THEN r ELSE Raise(q, "hightone")
  BY DEF DetectTone
<1>2. 0 \in 0..(DataBits + 1) /\ TRUE \in BOOLEAN /\ "hightone" \in Source
  BY Words DEF Source
<1>3. q \in Registers
  BY <1>2, ZenonT(30) DEF Registers
<1>4. /\ q.recno = r.recno /\ q.latchno = r.latchno /\ q.clean = r.clean
      /\ q.tapedat = r.tapedat /\ q.tapelatch = r.tapelatch
  BY SMT DEF Registers
<1> HIDE DEF q
<1>5. SameTape(q, Raise(q, "hightone"))
  BY <1>2, <1>3, RaiseTape
<1> QED  BY <1>1, <1>4, <1>5 DEF SameTape

(* A byte received, with its number  (receive) *)
LEMMA TakeFromTapeTape ==
  ASSUME NEW r \in Registers, NEW polled \in Outcome
  PROVE  LET s == TakeFromTape(r, polled)
         IN  /\ s.tapedat = r.tapedat /\ s.latchno = r.latchno
             /\ s.tapelatch = r.tapelatch
             /\ polled.event.kind = "byte" =>
                  /\ s.recdat = polled.event.byte /\ s.taperecdat = s.recdat
                  /\ s.bitcount = DataBits + 1 /\ ~s.hightone
                  /\ s.recno = polled.tape.given /\ s.clean
             /\ polled.event.kind # "byte" =>
                  /\ s.recdat = r.recdat /\ s.taperecdat = r.taperecdat
                  /\ s.bitcount = r.bitcount
                  /\ s.recno = r.recno /\ s.clean = r.clean
<1> DEFINE b == polled.event.byte
           full == DataBits + 1
           g == polled.tape.given
           kind == polled.event.kind
           byte == [r EXCEPT !.recdat = b, !.taperecdat = b,
                             !.hightone = FALSE, !.bitcount = full,
                             !.recno = g, !.clean = TRUE]
           tone == [r EXCEPT !.hightone = TRUE]
           s == TakeFromTape(r, polled)
<1>1. s = CASE kind = "byte" -> byte
            [] kind = "tone" -> tone
            [] OTHER -> r
  BY Zenon DEF TakeFromTape
<1> HIDE DEF b, full, g, s, kind
<1>2. /\ byte.tapedat = r.tapedat /\ byte.latchno = r.latchno
      /\ byte.tapelatch = r.tapelatch /\ byte.recdat = b
      /\ byte.taperecdat = b /\ byte.bitcount = full
      /\ byte.hightone = FALSE /\ byte.recno = g /\ byte.clean = TRUE
  BY SMT DEF Registers
<1>3. /\ tone.tapedat = r.tapedat /\ tone.latchno = r.latchno
      /\ tone.tapelatch = r.tapelatch /\ tone.recdat = r.recdat
      /\ tone.taperecdat = r.taperecdat /\ tone.bitcount = r.bitcount
      /\ tone.recno = r.recno /\ tone.clean = r.clean
  BY SMT DEF Registers
<1> HIDE DEF byte, tone
<1>4. CASE kind = "byte"
  <2>1. s = byte
    BY <1>1, <1>4
  <2> QED  BY <1>2, <1>4, <2>1 DEF s, b, full, g, kind
<1>5. CASE kind # "byte"
  <2>1. s = tone \/ s = r
    BY <1>1, <1>5, SMT
  <2> QED  BY <1>3, <1>5, <2>1 DEF s, kind
<1> QED  BY <1>4, <1>5

-----------------------------------------------------------------------------
(* The bits of a byte in the shift register.  (polltape, tapedat)           *)

(* With j bits to come the stop bit has come down to bit j, with the start  *)
(* bit above it and the bits of the byte that have come, hi, above both.    *)
Frame(d, j, hi) == \E low \in 0..(2^j - 1) : d = low + 2^j * (1 + 4 * hi)

(* The bits that have come and the rest make the byte. *)
Parts(byte, rest, j, hi) ==
  IF j = DataBits + 1 THEN hi = 0 /\ rest = byte
  ELSE byte = rest * 2^(DataBits - j) + hi

(* A stop bit on top of anything begins a frame. *)
LEMMA FrameBegins ==
  ASSUME NEW d \in 0..AllOnes
  PROVE  Frame((d \div 2) + 1 * 2^(WordBits - 1), DataBits + 1, 0)
<1> DEFINE n == 2^DataBits
           top == 2^(DataBits + 1)
           low == d \div 2
<1>1. /\ n \in Nat \ {0} /\ AllOnes = 4 * n - 1 /\ top = 2 * n
      /\ WordBits - 1 = DataBits + 1
  BY Words, Powers DEF WordBits
<1> HIDE DEF n, top
<1>2. low \in 0..(top - 1)
  BY <1>1
<1> HIDE DEF low
<1>3. low + 1 * top = low + top * (1 + 4 * 0)
  BY <1>1, <1>2
<1>4. Frame(low + 1 * top, DataBits + 1, 0)
  BY <1>2, <1>3 DEF Frame, top
<1> QED  BY <1>1, <1>4 DEF low, top

(* Every bit shifted in moves it down by one. *)
LEMMA FrameMoves ==
  ASSUME NEW d \in 0..AllOnes, NEW j \in 1..(DataBits + 1), NEW hi \in Nat,
         NEW bit \in {0, 1}, NEW more \in Nat, Frame(d, j, hi),
         j = DataBits + 1 => bit = 0 /\ more = hi,
         j # DataBits + 1 => more = hi + bit * 2^(DataBits - j)
  PROVE  Frame((d \div 2) + bit * 2^(WordBits - 1), j - 1, more)
<1> DEFINE half == 2^(j - 1)
           top == 2^(WordBits - 1)
           weight == 2^(DataBits - j)
           a == half * (1 + 4 * hi)
           hw == half * weight
<1>1. PICK low \in 0..(2^j - 1) : d = low + 2^j * (1 + 4 * hi)
  BY DEF Frame
<1>2. DataBits \in Nat /\ DataBits > 1 /\ j - 1 \in 0..(DataBits + 1)
      /\ (j - 1) + 1 = j /\ WordBits - 1 = DataBits + 1
  BY Words DEF WordBits
<1>3. half \in Nat \ {0} /\ 2^j = 2 * half
  BY <1>2, Doubling
<1>4. j # DataBits + 1 => weight \in Nat \ {0} /\ top = 4 * hw
  <2> SUFFICES ASSUME j # DataBits + 1
               PROVE  weight \in Nat \ {0} /\ top = 4 * hw
    OBVIOUS
  <2>1. /\ DataBits - j \in 0..(DataBits + 2)
        /\ j - 1 \in 0..(DataBits + 2)
        /\ (j - 1) + (DataBits - j) = DataBits - 1
        /\ (j - 1) + (DataBits - j) <= DataBits + 2
    BY <1>2
  <2>2. weight \in Nat \ {0} /\ 2^((j - 1) + (DataBits - j)) = half * weight
    BY <2>1, PowerAssumption
  <2>3. 2^(DataBits - 1) = hw
    BY <2>1, <2>2
  <2>4. top = 2 * (2 * 2^(DataBits - 1)) /\ 2^(DataBits - 1) \in Nat
    BY <1>2, Powers
  <2> QED  BY <2>2, <2>3, <2>4
<1> HIDE DEF half, top, weight
<1>5. a \in Nat /\ 2^j * (1 + 4 * hi) = 2 * a
  BY <1>3
<1>6. j # DataBits + 1 => hw \in Nat
  BY <1>3, <1>4
<1>7. bit * top \in Nat /\ half * (1 + 4 * more) = a + bit * top
  <2>1. CASE j = DataBits + 1
    <3>1. bit * top = 0 /\ more = hi
      <4>1. top \in Nat
        BY <1>2, Words DEF top
      <4> QED  BY <2>1, <4>1
    <3> HIDE DEF a
    <3>2. half * (1 + 4 * more) = a
      BY <3>1 DEF a
    <3> QED  BY <1>5, <3>1, <3>2
  <2>2. CASE j # DataBits + 1 /\ bit = 0
    <3>1. more = hi /\ bit * top = 0
      BY <1>4, <1>6, <2>2 DEF weight
    <3> HIDE DEF a
    <3>2. half * (1 + 4 * more) = a
      BY <3>1 DEF a
    <3> QED  BY <1>5, <3>1, <3>2
  <2>3. CASE j # DataBits + 1 /\ bit = 1
    <3>1. more = hi + weight
      BY <1>4, <2>3 DEF weight
    <3>2. half * (1 + 4 * (hi + weight)) = half * (1 + 4 * hi) + 4 * (half * weight)
      BY <1>3, <1>4, <2>3
    <3>3. bit * top = 4 * hw
      BY <1>4, <1>6, <2>3
    <3>4. half * (1 + 4 * more) = a + 4 * hw
      BY <3>1, <3>2
    <3> HIDE DEF a, hw
    <3> QED  BY <1>6, <2>3, <3>3, <3>4
  <2> QED  BY <2>1, <2>2, <2>3
<1> DEFINE few == low \div 2
<1> HIDE DEF a, hw
<1>8. few \in 0..(half - 1) /\ d \div 2 = few + a
  BY <1>1, <1>3, <1>5
<1>9. (d \div 2) + bit * top = few + half * (1 + 4 * more)
  <2> DEFINE b == bit * top
             m == half * (1 + 4 * more)
  <2>1. b \in Nat /\ m = a + b
    BY <1>7
  <2> HIDE DEF b, m, few
  <2>2. (d \div 2) + b = few + m
    BY <1>5, <1>8, <2>1
  <2> QED  BY <2>2 DEF b, m
<1> HIDE DEF few
<1> QED  BY <1>8, <1>9 DEF Frame, half, top

(* With no bit to come the frame is a start bit, with the byte above it.    *)
LEMMA FrameEnds ==
  ASSUME NEW d \in 0..AllOnes, NEW hi \in Nat, Frame(d, 0, hi)
  PROVE  d % 4 = 1 /\ d \div 4 = hi
<1>1. PICK low \in 0..(2^0 - 1) : d = low + 2^0 * (1 + 4 * hi)
  BY DEF Frame
<1>2. 2^0 = 1
  BY PowerAssumption
<1>3. d = 1 + 4 * hi
  BY <1>1, <1>2
<1> QED  BY <1>3

(* Each bit goes from the rest to the others. *)
LEMMA PartsMove ==
  ASSUME NEW byte \in Nat, NEW rest \in Nat, NEW j \in 1..(DataBits + 1),
         NEW hi \in Nat, Parts(byte, rest, j, hi)
  PROVE  /\ j = DataBits + 1 => Parts(byte, rest, j - 1, hi)
         /\ j # DataBits + 1 =>
              Parts(byte, rest \div 2, j - 1,
                    hi + (rest % 2) * 2^(DataBits - j))
<1>1. DataBits \in Nat /\ DataBits > 1 /\ j - 1 # DataBits + 1
  BY Words
<1>2. CASE j = DataBits + 1
  <2>1. 2^(DataBits - (j - 1)) = 1
    BY <1>1, <1>2, PowerAssumption
  <2> QED  BY <1>1, <1>2, <2>1 DEF Parts
<1>3. CASE j # DataBits + 1
  <2> DEFINE w == 2^(DataBits - j)
             x == rest \div 2
             bit == rest % 2
  <2>1. DataBits - j \in 0..(DataBits + 1)
        /\ (DataBits - j) + 1 = DataBits - (j - 1)
    BY <1>1, <1>3
  <2>2. w \in Nat \ {0} /\ 2^(DataBits - (j - 1)) = 2 * w
    BY <2>1, Doubling
  <2>3. byte = rest * w + hi
    BY <1>3 DEF Parts
  <2>4. x \in Nat /\ bit \in {0, 1} /\ rest = 2 * x + bit
    OBVIOUS
  <2> HIDE DEF w, x, bit
  <2>5. byte = x * (2 * w) + (hi + bit * w)
    <3>1. CASE bit = 0
      <4>1. rest * w = x * (2 * w) /\ bit * w = 0
        BY <2>2, <2>4, <3>1
      <4> QED  BY <2>2, <2>3, <2>4, <4>1
    <3>2. CASE bit = 1
      <4>1. rest * w = x * (2 * w) + w /\ bit * w = w
        BY <2>2, <2>4, <3>2
      <4>2. x * (2 * w) \in Nat /\ rest * w \in Nat
        BY <2>2, <2>4
      <4> QED  BY <2>2, <2>3, <4>1, <4>2
    <3> QED  BY <2>4, <3>1, <3>2
  <2>6. byte = x * 2^(DataBits - (j - 1)) + (hi + bit * w)
    BY <2>2, <2>5
  <2>7. Parts(byte, x, j - 1, hi + bit * w)
    BY <1>1, <2>6 DEF Parts
  <2> QED  BY <1>3, <2>7 DEF w, x, bit
<1> QED  BY <1>2, <1>3

(* When all have come they are the byte. *)
LEMMA PartsEnd ==
  ASSUME NEW byte \in Byte, NEW rest \in Nat, NEW hi \in Nat,
         Parts(byte, rest, 0, hi)
  PROVE  byte = hi
<1> DEFINE n == 2^DataBits
<1>1. n \in Nat \ {0} /\ byte \in 0..(n - 1)
  BY Words
<1>2. byte = rest * n + hi
  BY Words DEF Parts
<1> HIDE DEF n
<1>3. rest # 0 => rest * n >= n
  BY <1>1
<1>4. rest * n \in Nat
  BY <1>1
<1>5. rest = 0
  BY <1>1, <1>2, <1>3, <1>4
<1> QED  BY <1>1, <1>2, <1>5

(* The registers hold a frame; those of an undisturbed byte, the byte.      *)
Upright(r) == \E hi \in Nat : Frame(r.tapedat, r.bitcount, hi)
Matching(r) ==
  \E hi \in Nat : /\ Frame(r.tapedat, r.bitcount, hi)
                  /\ Parts(r.recdat, r.taperecdat, r.bitcount, hi)

(* What goes into the shift register, and what stays  (polltape, the end) *)
LEMMA ShiftBitTape ==
  ASSUME NEW r \in Registers
  PROVE  LET s == ShiftBit(r)
         IN  /\ s.recdat = r.recdat /\ s.tapelatch = r.tapelatch
             /\ s.bitcount = r.bitcount /\ s.hightone = r.hightone
             /\ s.recno = r.recno /\ s.latchno = r.latchno
             /\ \E bit \in {0, 1} :
                  /\ s.tapedat = (r.tapedat \div 2) + bit * 2^(WordBits - 1)
                  /\ ~r.hightone /\ ~tapeout /\ r.bitcount = DataBits
                       => bit = 0
                  /\ ~r.hightone /\ ~tapeout /\ tapeon
                     /\ r.bitcount = DataBits + 1
                       => bit = 1 /\ s.taperecdat = r.taperecdat
                  /\ s.clean =>
                       /\ r.clean /\ ~r.hightone /\ ~tapeout
                       /\ r.bitcount = DataBits =>
                            s.taperecdat = r.taperecdat
                       /\ r.bitcount < DataBits =>
                            /\ bit = r.taperecdat % 2
                            /\ s.taperecdat = r.taperecdat \div 2
<1> DEFINE half == r.taperecdat \div 2
           low == r.taperecdat % 2
           noise == [r EXCEPT !.clean = FALSE]
           rest == [r EXCEPT !.taperecdat = half]
           word(bit) == (r.tapedat \div 2) + bit * 2^(WordBits - 1)
           s == ShiftBit(r)
<1>1. s = IF r.hightone \/ tapeout THEN ShiftIn(noise, 1)
          ELSE IF ~tapeon THEN ShiftIn(noise, 0)
          ELSE IF r.bitcount = DataBits + 1 THEN ShiftIn(r, 1)
          ELSE IF r.bitcount = DataBits THEN ShiftIn(r, 0)
          ELSE ShiftIn(rest, low)
  BY Zenon DEF ShiftBit
<1>2. low \in {0, 1}
  <2>1. r.taperecdat \in Nat
    BY RegisterFields, Words
  <2> QED  BY <2>1
<1> HIDE DEF half, low
<1>3. /\ noise.recdat = r.recdat /\ noise.tapelatch = r.tapelatch
      /\ noise.bitcount = r.bitcount /\ noise.hightone = r.hightone
      /\ noise.recno = r.recno /\ noise.latchno = r.latchno
      /\ noise.tapedat = r.tapedat /\ noise.clean = FALSE
      /\ DOMAIN noise = DOMAIN r
  BY SMT DEF Registers
<1>4. /\ rest.recdat = r.recdat /\ rest.tapelatch = r.tapelatch
      /\ rest.bitcount = r.bitcount /\ rest.hightone = r.hightone
      /\ rest.recno = r.recno /\ rest.latchno = r.latchno
      /\ rest.tapedat = r.tapedat /\ rest.clean = r.clean
      /\ rest.taperecdat = half /\ DOMAIN rest = DOMAIN r
  BY SMT DEF Registers
<1> HIDE DEF noise, rest
<1>5. ASSUME NEW q, DOMAIN q = DOMAIN r, NEW bit
      PROVE  LET v == ShiftIn(q, bit)
             IN  /\ v.recdat = q.recdat /\ v.tapelatch = q.tapelatch
                 /\ v.bitcount = q.bitcount /\ v.hightone = q.hightone
                 /\ v.recno = q.recno /\ v.latchno = q.latchno
                 /\ v.taperecdat = q.taperecdat /\ v.clean = q.clean
                 /\ v.tapedat = (q.tapedat \div 2) + bit * 2^(WordBits - 1)
  <2> DEFINE d == (q.tapedat \div 2) + bit * 2^(WordBits - 1)
             v == [q EXCEPT !.tapedat = d]
  <2>1. ShiftIn(q, bit) = v
    BY DEF ShiftIn
  <2> HIDE DEF d
  <2>2. DOMAIN q = { "isr", "ier", "irq", "recdat", "taperecdat",
                     "tapelatch", "tapedat", "bitcount", "sbitcount",
                     "hightone", "break", "recno", "latchno", "clean" }
    BY <1>5, SMT DEF Registers
  <2>3. /\ v.recdat = q.recdat /\ v.tapelatch = q.tapelatch
        /\ v.bitcount = q.bitcount /\ v.hightone = q.hightone
        /\ v.recno = q.recno /\ v.latchno = q.latchno
        /\ v.taperecdat = q.taperecdat /\ v.clean = q.clean
        /\ v.tapedat = d
    BY <2>2, SMT
  <2> QED  BY <2>1, <2>3 DEF d
<1>6. DataBits \in Nat
  BY Words
<1>7. r.bitcount \in 0..(DataBits + 1)
  BY RegisterFields
<1> HIDE DEF s
<1> SUFFICES
      /\ s.recdat = r.recdat /\ s.tapelatch = r.tapelatch
      /\ s.bitcount = r.bitcount /\ s.hightone = r.hightone
      /\ s.recno = r.recno /\ s.latchno = r.latchno
      /\ \E bit \in {0, 1} :
           /\ s.tapedat = word(bit)
           /\ ~r.hightone /\ ~tapeout /\ r.bitcount = DataBits => bit = 0
           /\ ~r.hightone /\ ~tapeout /\ tapeon /\ r.bitcount = DataBits + 1
                => bit = 1 /\ s.taperecdat = r.taperecdat
           /\ s.clean =>
                /\ r.clean /\ ~r.hightone /\ ~tapeout
                /\ r.bitcount = DataBits => s.taperecdat = r.taperecdat
                /\ r.bitcount < DataBits =>
                     bit = low /\ s.taperecdat = half
  BY DEF s, half, low
<1> HIDE DEF word
<1>8. /\ \A bit : /\ ShiftIn(r, bit).tapedat = word(bit)
                  /\ ShiftIn(noise, bit).tapedat = word(bit)
                  /\ ShiftIn(rest, bit).tapedat = word(bit)
  BY <1>3, <1>4, <1>5 DEF word
<1>9. CASE r.hightone \/ tapeout
  <2>1. s = ShiftIn(noise, 1)
    BY <1>1, <1>9
  <2> QED  BY <1>3, <1>5, <1>8, <1>9, <2>1
<1>10. CASE ~(r.hightone \/ tapeout) /\ ~tapeon
  <2>1. s = ShiftIn(noise, 0)
    BY <1>1, <1>10
  <2> QED  BY <1>3, <1>5, <1>8, <1>10, <2>1
<1>11. CASE ~(r.hightone \/ tapeout) /\ tapeon /\ r.bitcount = DataBits + 1
  <2>1. s = ShiftIn(r, 1)
    BY <1>1, <1>11
  <2> QED  BY <1>5, <1>6, <1>8, <1>11, <2>1
<1>12. CASE ~(r.hightone \/ tapeout) /\ tapeon /\ r.bitcount = DataBits
  <2>1. s = ShiftIn(r, 0)
    BY <1>1, <1>6, <1>12
  <2> QED  BY <1>5, <1>6, <1>8, <1>12, <2>1
<1>13. CASE ~(r.hightone \/ tapeout) /\ tapeon /\ r.bitcount < DataBits
  <2>1. s = ShiftIn(rest, low)
    BY <1>1, <1>6, <1>7, <1>13
  <2> QED  BY <1>2, <1>4, <1>5, <1>6, <1>8, <1>13, <2>1
<1> QED  BY <1>6, <1>7, <1>9, <1>10, <1>11, <1>12, <1>13

(* A bit passes within a byte: the frame moves on, and with it what the     *)
(* byte is made of.  (polltape)                                             *)
LEMMA WithinTape ==
  ASSUME Good(u), ~BetweenBytes
  PROVE  LET s == PolledRegisters
         IN  /\ s.recno = u.recno /\ s.latchno = u.latchno
             /\ s.hightone = u.hightone /\ (s.clean => u.clean)
             /\ Upright(u) /\ ~u.hightone /\ ~tapeout => Upright(s)
             /\ Matching(u) /\ s.clean => Matching(s)
<1> DEFINE b == CountSend([u EXCEPT !.break = FALSE])
           c == CountBit(b)
           s == ShiftBit(c)
           j == u.bitcount
<1>1. PolledRegisters = s
  BY DEF PolledRegisters
<1>2. /\ b \in Registers /\ SameTape(u, b) /\ Seen(b) /\ b.bitcount # 0
  <2>1. u \in Registers /\ Seen(u) /\ u.bitcount # 0
    BY DEF Good, BetweenBytes
  <2> QED  BY <2>1, BegunTape DEF SameTape
<1> HIDE DEF b
<1>3. /\ c.bitcount = j - 1 /\ c.recdat = u.recdat
      /\ c.taperecdat = u.taperecdat /\ c.tapedat = u.tapedat
      /\ c.hightone = u.hightone /\ c.recno = u.recno
      /\ c.latchno = u.latchno /\ c.clean = u.clean
  BY <1>2, CountBitTape DEF SameTape
<1>4. c \in Registers
  <2> DEFINE n == b.bitcount - 1
             q == [b EXCEPT !.bitcount = n]
  <2>1. c = IF q.bitcount = DataBits - 1 THEN Clear(q, {"receive"}) ELSE q
    BY DEF CountBit
  <2>2. n \in 0..(DataBits + 1)
    BY <1>2, RegisterFields, Words
  <2> HIDE DEF n, c
  <2>3. q \in Registers
    BY <1>2, <2>2, ZenonT(30) DEF Registers
  <2> HIDE DEF q
  <2> QED  BY <2>1, <2>3, ClearGood
<1> HIDE DEF c
<1>5. PICK bit \in {0, 1} :
        /\ s.tapedat = (c.tapedat \div 2) + bit * 2^(WordBits - 1)
        /\ ~c.hightone /\ ~tapeout /\ c.bitcount = DataBits => bit = 0
        /\ s.clean =>
             /\ c.clean /\ ~c.hightone /\ ~tapeout
             /\ c.bitcount = DataBits => s.taperecdat = c.taperecdat
             /\ c.bitcount < DataBits =>
                  /\ bit = c.taperecdat % 2
                  /\ s.taperecdat = c.taperecdat \div 2
  BY <1>4, ShiftBitTape, Zenon
<1>6. /\ s.recdat = c.recdat /\ s.bitcount = c.bitcount
      /\ s.hightone = c.hightone /\ s.recno = c.recno
      /\ s.latchno = c.latchno
  BY <1>4, ShiftBitTape, Zenon
<1> HIDE DEF s
<1>7. /\ u.tapedat \in 0..AllOnes /\ j \in 1..(DataBits + 1)
      /\ u.recdat \in Nat /\ u.taperecdat \in Nat /\ DataBits \in Nat
      /\ j # DataBits + 1 => 2^(DataBits - j) \in Nat
  <2>1. u \in Registers /\ u.bitcount # 0
    BY DEF Good, BetweenBytes
  <2>2. u.tapedat \in 0..AllOnes /\ j \in 1..(DataBits + 1)
        /\ u.recdat \in Nat /\ u.taperecdat \in Nat /\ DataBits \in Nat
    BY <2>1, RegisterFields, Words
  <2>3. j # DataBits + 1 => DataBits - j \in 0..(DataBits + 1)
    BY <2>2
  <2> QED  BY <2>2, <2>3, Doubling
<1> HIDE DEF j
<1>8. ASSUME ~u.hightone, ~tapeout, NEW hi \in Nat, Frame(u.tapedat, j, hi)
      PROVE  LET more == IF j = DataBits + 1 THEN hi
                         ELSE hi + bit * 2^(DataBits - j)
             IN  more \in Nat /\ Frame(s.tapedat, s.bitcount, more)
  <2> DEFINE more == IF j = DataBits + 1 THEN hi
                     ELSE hi + bit * 2^(DataBits - j)
  <2>1. more \in Nat
    <3> DEFINE w == 2^(DataBits - j)
    <3>1. j # DataBits + 1 => w \in Nat
      BY <1>7
    <3> HIDE DEF w
    <3>2. j # DataBits + 1 => hi + bit * w \in Nat
      BY <3>1
    <3> QED  BY <3>2 DEF w
  <2>2. j = DataBits + 1 => bit = 0
    BY <1>3, <1>5, <1>7, <1>8
  <2>3. j = DataBits + 1 => more = hi
    OBVIOUS
  <2>4. j # DataBits + 1 => more = hi + bit * 2^(DataBits - j)
    OBVIOUS
  <2> HIDE DEF more
  <2>5. Frame((u.tapedat \div 2) + bit * 2^(WordBits - 1), j - 1, more)
    BY <1>7, <1>8, <2>1, <2>2, <2>3, <2>4, FrameMoves
  <2>6. s.tapedat = (u.tapedat \div 2) + bit * 2^(WordBits - 1)
        /\ s.bitcount = j - 1
    BY <1>3, <1>5, <1>6
  <2>7. Frame(s.tapedat, s.bitcount, more)
    BY <2>5, <2>6, Zenon
  <2> QED  BY <2>1, <2>7 DEF more
<1>9. ASSUME Upright(u), ~u.hightone, ~tapeout  PROVE Upright(s)
  <2>1. PICK hi \in Nat : Frame(u.tapedat, j, hi)
    BY <1>9 DEF Upright, j
  <2> DEFINE more == IF j = DataBits + 1 THEN hi
                     ELSE hi + bit * 2^(DataBits - j)
  <2>2. more \in Nat /\ Frame(s.tapedat, s.bitcount, more)
    BY <1>8, <1>9, <2>1, Zenon
  <2> HIDE DEF more
  <2> QED  BY <2>2 DEF Upright
<1>10. ASSUME Matching(u), s.clean  PROVE Matching(s)
  <2>1. PICK hi \in Nat : /\ Frame(u.tapedat, j, hi)
                          /\ Parts(u.recdat, u.taperecdat, j, hi)
    BY <1>10 DEF Matching, j
  <2> DEFINE w == 2^(DataBits - j)
             more == IF j = DataBits + 1 THEN hi ELSE hi + bit * w
  <2>2. ~u.hightone /\ ~tapeout
    BY <1>3, <1>5, <1>10
  <2>3. more \in Nat /\ Frame(s.tapedat, s.bitcount, more)
    BY <1>8, <2>1, <2>2, Zenon
  <2>4. CASE j = DataBits + 1
    <3>1. Parts(u.recdat, u.taperecdat, j - 1, hi)
      BY <1>7, <2>1, <2>4, PartsMove
    <3>2. s.taperecdat = u.taperecdat /\ s.recdat = u.recdat
          /\ s.bitcount = j - 1 /\ more = hi
      BY <1>3, <1>5, <1>6, <1>7, <1>10, <2>4
    <3> HIDE DEF more
    <3> QED  BY <2>3, <3>1, <3>2 DEF Matching
  <2>5. CASE j # DataBits + 1
    <3>1. bit = u.taperecdat % 2 /\ s.taperecdat = u.taperecdat \div 2
      BY <1>3, <1>5, <1>7, <1>10, <2>5
    <3>2. Parts(u.recdat, u.taperecdat \div 2, j - 1,
                hi + (u.taperecdat % 2) * w)
      BY <1>7, <2>1, <2>5, PartsMove
    <3>3. s.recdat = u.recdat /\ s.bitcount = j - 1
          /\ more = hi + (u.taperecdat % 2) * w
      BY <1>3, <1>6, <2>5, <3>1
    <3> HIDE DEF more
    <3> QED  BY <2>3, <3>1, <3>2, <3>3 DEF Matching
  <2> QED  BY <2>4, <2>5
<1>11. /\ s.recno = u.recno /\ s.latchno = u.latchno
       /\ s.hightone = u.hightone /\ (s.clean => u.clean)
  BY <1>3, <1>5, <1>6
<1> QED  BY <1>1, <1>9, <1>10, <1>11

(* What a poll may be told, in a pause or not *)
LEMMA PolledLeaves ==
  ASSUME tape \in Playable, Steady(tape)
  PROVE  /\ Polled \in Outcome /\ Steady(Polled.tape)
         /\ Polled.event.kind = "byte" =>
              /\ ~tapeout /\ tapeon /\ ~Polled.tape.pauseit
              /\ Polled.tape.given \in {1, tape.given + 1}
              /\ ~(tape.pauseit /\ Spaced)
         /\ Polled.event.kind # "byte" => Polled.tape.given \in {0, tape.given}
<1>1. CASE Playing
  <2>1. Polled = PollUef(tape)
    BY <1>1 DEF Polled
  <2> QED  BY <1>1, <2>1, PolledType, PollLeaves DEF Playing
<1>2. CASE ~Playing
  <2>1. Polled = Result(tape, Nothing)
    BY <1>2 DEF Polled
  <2> QED  BY <2>1, PolledType, ResultFields, Kinds
<1> QED  BY <1>1, <1>2

(* Between bytes the one that has arrived is latched, before the next comes *)
(* with a stop bit.  (polltape)                                             *)
LEMMA BetweenTape ==
  ASSUME Good(u), tape \in Playable, Steady(tape), BetweenBytes
  PROVE  LET s == PolledRegisters
         IN  /\ u.tapedat % 4 = 1 =>
                  s.latchno = u.recno /\ s.tapelatch = u.recdat
             /\ u.tapedat % 4 # 1 => s.latchno = u.latchno
             /\ Polled.event.kind = "byte" =>
                  /\ s.recno = Polled.tape.given /\ ~s.hightone
                  /\ Matching(s)
             /\ Polled.event.kind # "byte" =>
                  /\ s.recno = u.recno
                  /\ s.clean => u.clean /\ u.tapedat % 4 # 1
<1> DEFINE b == CountSend([u EXCEPT !.break = FALSE])
           l == Latch(b)
           d == DetectTone(l)
           e == TakeFromTape(d, Polled)
           s == ShiftBit(e)
<1>1. PolledRegisters = s
  BY DEF PolledRegisters
<1>2. b \in Registers /\ SameTape(u, b) /\ Seen(b) /\ Counted(b) /\ Apart(b)
      /\ b.bitcount = 0
  <2> DEFINE a == [u EXCEPT !.break = FALSE]
  <2>1. a \in Registers /\ Seen(a) /\ Keeps(u, a)
    BY BreakGood DEF Good
  <2>2. b \in Registers /\ SameTape(u, b) /\ Seen(b)
    BY BegunTape DEF Good
  <2> HIDE DEF a
  <2>3. Keeps(a, b)
    BY <2>1, CountSendGood DEF a
  <2> HIDE DEF b
  <2> QED  BY <2>1, <2>2, <2>3
           DEF Good, Counted, Fresh, Apart, Keeps, BetweenBytes
<1> HIDE DEF b
<1>3. /\ l \in Registers /\ Seen(l) /\ Late(l) /\ Apart(l)
      /\ l.tapedat = AllOnes => "receive" \notin l.isr
  BY <1>2, LatchGood
<1>4. /\ b.tapedat % 4 # 1 => l = b
      /\ b.tapedat % 4 = 1 =>
           l.tapelatch = b.recdat /\ l.latchno = b.recno /\ ~l.clean
      /\ l.recno = b.recno /\ l.tapedat = b.tapedat
  BY <1>2, LatchTape
<1> HIDE DEF l
<1>5. d \in Registers /\ Seen(d)
  BY <1>3, DetectToneGood
<1>6. /\ d.recno = l.recno /\ d.latchno = l.latchno /\ d.clean = l.clean
      /\ d.tapelatch = l.tapelatch
  BY <1>3, DetectToneTape
<1> HIDE DEF d
<1>7. Polled \in Outcome
  BY PolledLeaves
<1>8. e \in Registers
  BY <1>5, <1>7, TakeFromTapeGood
<1>9. /\ e.latchno = d.latchno /\ e.tapelatch = d.tapelatch
      /\ Polled.event.kind = "byte" =>
           /\ e.taperecdat = e.recdat /\ e.bitcount = DataBits + 1
           /\ ~e.hightone /\ e.recno = Polled.tape.given /\ e.clean
      /\ Polled.event.kind # "byte" =>
           e.recno = d.recno /\ e.clean = d.clean
  BY <1>5, <1>7, TakeFromTapeTape
<1> HIDE DEF e
<1>10. /\ s.recdat = e.recdat /\ s.tapelatch = e.tapelatch
       /\ s.bitcount = e.bitcount /\ s.hightone = e.hightone
       /\ s.recno = e.recno /\ s.latchno = e.latchno
       /\ s.clean => e.clean
  BY <1>8, ShiftBitTape
<1>11. ASSUME Polled.event.kind = "byte"  PROVE Matching(s)
  <2>1. ~e.hightone /\ ~tapeout /\ tapeon /\ e.bitcount = DataBits + 1
    BY <1>9, <1>11, PolledLeaves
  <2>2. s.tapedat = (e.tapedat \div 2) + 1 * 2^(WordBits - 1)
        /\ s.taperecdat = e.taperecdat
    <3>1. PICK bit \in {0, 1} :
            /\ s.tapedat = (e.tapedat \div 2) + bit * 2^(WordBits - 1)
            /\ ~e.hightone /\ ~tapeout /\ tapeon /\ e.bitcount = DataBits + 1
                 => bit = 1 /\ s.taperecdat = e.taperecdat
      BY <1>8, ShiftBitTape, Zenon
    <3> HIDE DEF s
    <3> QED  BY <2>1, <3>1
  <2> HIDE DEF s
  <2>3. e.tapedat \in 0..AllOnes
    BY <1>8, RegisterFields
  <2>4. Frame(s.tapedat, s.bitcount, 0)
    <3>1. Frame((e.tapedat \div 2) + 1 * 2^(WordBits - 1), DataBits + 1, 0)
      BY <2>3, FrameBegins
    <3> QED  BY <1>10, <2>1, <2>2, <3>1, Zenon
  <2>5. Parts(s.recdat, s.taperecdat, s.bitcount, 0)
    BY <1>9, <1>10, <1>11, <2>1, <2>2 DEF Parts
  <2>6. 0 \in Nat
    OBVIOUS
  <2> QED  BY <2>4, <2>5, <2>6, Zenon DEF Matching
<1> HIDE DEF s
<1> QED  BY <1>1, <1>2, <1>4, <1>6, <1>9, <1>10, <1>11 DEF SameTape

-----------------------------------------------------------------------------
(* The steps, for the tape *)

(* A byte written to the data register takes the place of the one in the    *)
(* shift register, which is latched at once.  (writeula)                    *)
Overwritten ==
  /\ u'.bitcount = 0 /\ ~u'.clean
  /\ \E val \in Byte : u'.tapedat = val * 4 + 1
  /\ u'.recno = u.recno /\ u'.latchno = u.latchno
  /\ u'.hightone = u.hightone /\ u'.tapelatch = u.tapelatch

(* WriteData overwrites. *)
LEMMA WriteDataTape ==
  ASSUME Good(u), WriteData
  PROVE  Overwritten /\ tape' = tape /\ tapeout' = tapeout
<1> DEFINE full == DataBits + 1
           Sending(val) == [u EXCEPT !.sbitcount = full, !.bitcount = 0,
                                     !.tapedat = val * 4 + 1, !.clean = FALSE]
<1>1. PICK val \in Values :
        u' = IF tapewrite < BitLength THEN Clear(Sending(val), {"send"})
             ELSE Sending(val)
  BY DEF WriteData
<1> DEFINE d == val * 4 + 1
           q == [u EXCEPT !.sbitcount = full, !.bitcount = 0,
                          !.tapedat = d, !.clean = FALSE]
<1>2. u \in Registers /\ val \in Byte
  BY UlaAssumption DEF Good
<1>3. d \in 0..AllOnes
  <2> DEFINE n == 2^DataBits
  <2>1. n \in Nat \ {0} /\ val \in 0..(n - 1) /\ AllOnes = 4 * n - 1
    BY <1>2, Words
  <2> HIDE DEF n
  <2> QED  BY <2>1
<1>4. full \in 1..(DataBits + 1) /\ 0 \in 0..(DataBits + 1)
      /\ FALSE \in BOOLEAN
  BY Words
<1>5. q = Sending(val)
  OBVIOUS
<1> HIDE DEF d, full, Sending
<1>6. q \in Registers
  BY <1>2, <1>3, <1>4, ZenonT(30) DEF Registers
<1>7. /\ q.bitcount = 0 /\ q.clean = FALSE /\ q.tapedat = d
      /\ q.recno = u.recno /\ q.latchno = u.latchno
      /\ q.hightone = u.hightone /\ q.tapelatch = u.tapelatch
  BY <1>2, SMT DEF Registers
<1> HIDE DEF q
<1>8. SameTape(q, Clear(q, {"send"}))
  BY <1>6, ClearTape
<1>9. u' = Clear(q, {"send"}) \/ u' = q
  BY <1>1, <1>5, Zenon
<1>10. /\ u'.bitcount = 0 /\ ~u'.clean /\ u'.tapedat = d
       /\ u'.recno = u.recno /\ u'.latchno = u.latchno
       /\ u'.hightone = u.hightone /\ u'.tapelatch = u.tapelatch
  BY <1>7, <1>8, <1>9 DEF SameTape
<1> QED  BY <1>2, <1>10 DEF Overwritten, WriteData, TapeUnchanged, d

(* What else the CPU, the display and the user do leaves the byte alone.    *)
(* (writeula, readula, resetula, updateulaints)                             *)
LEMMA RegisterTape ==
  ASSUME Good(u),
         WriteEnable \/ WriteClear \/ WriteControl \/ ReadData \/ ResetUla
         \/ RasterInterrupt
  PROVE  /\ SameTape(u, u') /\ tape' = tape
         /\ tapeout' = tapeout \/ tapeout' \in Outputs
<1>1. u \in Registers
  BY DEF Good
<1>2. SameTape(u, u)
  BY DEF SameTape
<1>3. CASE WriteEnable
  <2>1. PICK mask \in Masks : u' = UpdateInts([u EXCEPT !.ier = mask])
    BY <1>3 DEF WriteEnable
  <2> DEFINE q == [u EXCEPT !.ier = mask]
  <2>2. mask \in SUBSET Source
    BY UlaAssumption
  <2>3. q \in Registers
    BY <1>1, <2>2, ZenonT(30) DEF Registers
  <2>4. SameTape(u, q)
    BY <1>1, SMT DEF SameTape, Registers
  <2> HIDE DEF q
  <2>5. SameTape(q, UpdateInts(q))
    BY <2>3, InterruptsTape
  <2>6. u' = UpdateInts(q)
    BY <2>1 DEF q
  <2> QED  BY <1>3, <2>4, <2>5, <2>6 DEF SameTape, WriteEnable, TapeUnchanged
<1>4. CASE WriteClear
  <2>1. \E cleared : u' = Clear(u, cleared)
    BY <1>4 DEF WriteClear
  <2> QED  BY <1>1, <1>4, <2>1, ClearTape DEF WriteClear, TapeUnchanged
<1>5. CASE WriteControl
  BY <1>2, <1>5 DEF WriteControl, TapeUnchanged
<1>6. CASE ReadData
  BY <1>1, <1>6, ClearTape DEF ReadData, TapeUnchanged
<1>7. CASE ResetUla
  <2> DEFINE none == {}
             q == [u EXCEPT !.isr = none, !.ier = none]
  <2>1. u' = q
    BY <1>7 DEF ResetUla
  <2> HIDE DEF none
  <2>2. SameTape(u, q)
    BY <1>1, SMT DEF SameTape, Registers
  <2> HIDE DEF q
  <2> QED  BY <1>7, <2>1, <2>2 DEF ResetUla, TapeUnchanged
<1>8. CASE RasterInterrupt
  <2>1. PICK source \in Raster : u' = Raise(u, source)
    BY <1>8 DEF RasterInterrupt
  <2>2. source \in Source
    BY UlaAssumption DEF Source
  <2> QED  BY <1>1, <1>8, <2>1, <2>2, RaiseTape
           DEF RasterInterrupt, TapeUnchanged
<1> QED  BY <1>3, <1>4, <1>5, <1>6, <1>7, <1>8

(* The kinds of step there are *)
LEMMA TapeSteps ==
  ASSUME UlaInv, [Next]_vars
  PROVE  \/ PollTape /\ tapeout' = tapeout
         \/ Overwritten /\ tape' = tape /\ tapeout' = tapeout
         \/ /\ SameTape(u, u') /\ tape' \in {tape, Opened(tape.pauseit)}
            /\ tapeout' = tapeout \/ tapeout' \in Outputs
<1>1. Good(u) /\ SameTape(u, u)
  BY DEF UlaInv, SameTape
<1>2. CASE UNCHANGED vars
  BY <1>1, <1>2 DEF vars, SameTape
<1>3. CASE CpuLoop
  BY <1>1, <1>3 DEF CpuLoop, Instruction, BeginFast, FastPoll, SameTape,
                    ControlUnchanged
<1>4. CASE Cpu
  BY <1>1, <1>4, WriteDataTape, RegisterTape DEF Cpu
<1>5. CASE Others
  BY <1>1, <1>5, RegisterTape
     DEF Others, SerialInterrupt, LoadTape, CloseTape, SameTape
<1> QED  BY <1>2, <1>3, <1>4, <1>5 DEF Next

(* A pause hands over no byte if the tape is spaced.  (polltape, pauseit) *)
LEMMA PausedTape ==
  ASSUME UlaInv, Steady(tape), Spaced, PollTape, tape.pauseit
  PROVE  /\ u'.recdat = u.recdat /\ u'.taperecdat = u.taperecdat
         /\ u'.tapelatch = u.tapelatch /\ u'.tapedat = u.tapedat
         /\ u'.bitcount = u.bitcount /\ u'.clean = u.clean
         /\ u'.recno = u.recno /\ u'.latchno = u.latchno
         /\ Steady(tape') /\ tape'.given \in {0, tape.given}
<1> DEFINE q == [u EXCEPT !.break = FALSE]
<1>1. u' = TakeFromTape(q, Polled) /\ tape' = Polled.tape
  BY DEF PollTape
<1>2. /\ Polled \in Outcome /\ Steady(Polled.tape)
      /\ Polled.event.kind # "byte"
      /\ Polled.tape.given \in {0, tape.given}
  BY PolledLeaves DEF UlaInv
<1>3. q \in Registers
  BY BreakGood DEF UlaInv, Good
<1>4. SameTape(u, q)
  <2>1. u \in Registers
    BY DEF UlaInv, Good
  <2> QED  BY <2>1, SMT DEF SameTape, Registers
<1> HIDE DEF q
<1>5. LET s == TakeFromTape(q, Polled)
      IN  /\ s.tapedat = q.tapedat /\ s.latchno = q.latchno
          /\ s.tapelatch = q.tapelatch
          /\ s.recdat = q.recdat /\ s.taperecdat = q.taperecdat
          /\ s.bitcount = q.bitcount
          /\ s.recno = q.recno /\ s.clean = q.clean
  BY <1>2, <1>3, TakeFromTapeTape
<1> QED  BY <1>1, <1>2, <1>4, <1>5 DEF SameTape

(* A tape put in, or rewound, is steady. *)
LEMMA OpenedSteady ==
  ASSUME NEW p \in BOOLEAN
  PROVE  Steady(Opened(p)) /\ Opened(p).given = 0 /\ Opened(p).pauseit = p
  BY DEF Opened, Steady, Quiet, Pausing

(* The player is steady on every tape. *)
LEMMA SteadyKept ==
  ASSUME UlaInv, Steady(tape), [Next]_vars
  PROVE  Steady(tape')
<1>1. tape \in Playable /\ tape.pauseit \in BOOLEAN
  BY PlayerFields DEF UlaInv, Playable
<1>2. Steady(Opened(tape.pauseit))
  BY <1>1, OpenedSteady
<1>3. CASE PollTape
  <2>1. tape' \in {tape, Polled.tape}
    BY <1>3 DEF PollTape
  <2> QED  BY <1>1, <2>1, PolledLeaves
<1> QED  BY <1>2, <1>3, TapeSteps

-----------------------------------------------------------------------------
(* A byte is latched in step.  (polltape) *)

(* While nothing but the tape touches the shift register it holds the bits  *)
(* of recdat that have come.                                                *)
StepInv == Steady(tape) /\ (u.clean => Matching(u))

(* Registers of the same bits match alike. *)
LEMMA SameMatching ==
  ASSUME NEW r, NEW s, s.tapedat = r.tapedat, s.bitcount = r.bitcount,
         s.recdat = r.recdat, s.taperecdat = r.taperecdat
  PROVE  Matching(r) => Matching(s)
  BY DEF Matching

(* What matches, with no bit to come, is a start bit with the byte above.   *)
LEMMA MatchingEnds ==
  ASSUME NEW r \in Registers, Matching(r), r.bitcount = 0
  PROVE  r.tapedat % 4 = 1 /\ r.tapedat \div 4 = r.recdat
<1>1. PICK hi \in Nat : /\ Frame(r.tapedat, r.bitcount, hi)
                        /\ Parts(r.recdat, r.taperecdat, r.bitcount, hi)
  BY DEF Matching
<1>2. r.tapedat \in 0..AllOnes /\ r.recdat \in Byte /\ r.taperecdat \in Nat
  BY RegisterFields, Words
<1>3. r.tapedat % 4 = 1 /\ r.tapedat \div 4 = hi
  BY <1>1, <1>2, FrameEnds
<1>4. r.recdat = hi
  BY <1>1, <1>2, PartsEnd
<1> QED  BY <1>3, <1>4

(* Every step of the machine keeps the bits in step with the byte, and a    *)
(* step that latches finds them all there.                                  *)
LEMMA StepKept ==
  ASSUME UlaInv, Spaced, StepInv, [Next]_vars
  PROVE  /\ StepInv'
         /\ u.clean /\ u'.latchno # u.latchno
              => u'.tapelatch = u.tapedat \div 4
<1>1. Steady(tape')
  BY SteadyKept DEF StepInv
<1>2. /\ u \in Registers /\ Good(u) /\ tape \in Playable /\ Steady(tape)
      /\ u.clean => Matching(u)
  BY DEF UlaInv, Good, StepInv
<1> SUFFICES /\ u'.clean => Matching(u')
             /\ u.clean /\ u'.latchno # u.latchno
                  => u'.tapelatch = u.tapedat \div 4
  BY <1>1 DEF StepInv
<1>3. CASE Overwritten
  BY <1>3 DEF Overwritten
<1>4. CASE SameTape(u, u')
  <2>1. Matching(u) => Matching(u')
    BY <1>4, SameMatching DEF SameTape
  <2> QED  BY <1>2, <1>4, <2>1 DEF SameTape
<1>5. CASE PollTape /\ tape.pauseit
  <2>1. /\ u'.recdat = u.recdat /\ u'.taperecdat = u.taperecdat
        /\ u'.tapedat = u.tapedat /\ u'.bitcount = u.bitcount
        /\ u'.clean = u.clean /\ u'.latchno = u.latchno
    BY <1>2, <1>5, PausedTape
  <2>2. Matching(u) => Matching(u')
    BY <2>1, SameMatching
  <2> QED  BY <1>2, <2>1, <2>2
<1>6. CASE PollTape /\ ~tape.pauseit /\ ~BetweenBytes
  <2>1. u' = PolledRegisters
    BY <1>6 DEF PollTape
  <2>2. LET s == PolledRegisters
        IN  /\ s.latchno = u.latchno /\ (s.clean => u.clean)
            /\ Matching(u) /\ s.clean => Matching(s)
    BY <1>2, <1>6, WithinTape
  <2> QED  BY <1>2, <2>1, <2>2
<1>7. CASE PollTape /\ ~tape.pauseit /\ BetweenBytes
  <2>1. u' = PolledRegisters
    BY <1>7 DEF PollTape
  <2>2. LET s == PolledRegisters
        IN  /\ u.tapedat % 4 = 1 =>
                 s.latchno = u.recno /\ s.tapelatch = u.recdat
            /\ u.tapedat % 4 # 1 => s.latchno = u.latchno
            /\ Polled.event.kind = "byte" => Matching(s)
            /\ Polled.event.kind # "byte" =>
                 (s.clean => u.clean /\ u.tapedat % 4 # 1)
    BY <1>2, <1>7, BetweenTape
  <2>3. u.clean => u.tapedat % 4 = 1 /\ u.tapedat \div 4 = u.recdat
    BY <1>2, <1>7, MatchingEnds DEF BetweenBytes
  <2> QED  BY <2>1, <2>2, <2>3
<1> QED  BY <1>3, <1>4, <1>5, <1>6, <1>7, TapeSteps

(* The tape and the registers the ULA starts with *)
LEMMA StepInit == Init => StepInv
<1> SUFFICES ASSUME Init PROVE StepInv
  OBVIOUS
<1>1. Steady(tape)
  BY OpenedSteady DEF Init
<1>2. u.clean = FALSE
  BY DEF Init
<1> QED  BY <1>1, <1>2 DEF StepInv

(* A byte of a spaced tape is latched exactly when its own bits fill the    *)
(* shift register, if nothing but the tape touched it since its first.      *)
(* (polltape: bitcount, taperecdat, tapedat, recdat)                        *)
THEOREM BytesLatchedInStep == ASSUME Spaced PROVE Spec => LatchedInStep
<1> DEFINE Step == u.clean /\ u'.latchno # u.latchno
                     => u'.tapelatch = u.tapedat \div 4
<1>1. UlaInv /\ StepInv /\ [Next]_vars => StepInv' /\ Step
  BY StepKept
<1>2. Init => StepInv
  BY StepInit
<1>3. StepInv /\ UlaInv /\ [Next]_vars => [Step]_vars
  BY <1>1
<1>4. Spec => []StepInv
  BY <1>1, <1>2, UlaInvHolds, PTL DEF Spec
<1>5. Spec => [][Step]_vars
  BY <1>3, <1>4, UlaInvHolds, PTL DEF Spec
<1> QED  BY <1>5 DEF LatchedInStep

-----------------------------------------------------------------------------
(* No byte is skipped.  (polltape, polluef, receive) *)

(* A byte on its way to the latch is the next one, its frame is in the      *)
(* shift register, and no tone or pause stops it; so a poll that takes      *)
(* another has latched it first.                                            *)
NextInv ==
  /\ Steady(tape) /\ tapeout = FALSE
  /\ tape.given \in {0, u.recno}
  /\ u.recno # u.latchno =>
       /\ Upright(u) /\ ~u.hightone /\ ~tape.pauseit
       /\ u.recno \in {1, u.latchno + 1}

(* Registers of the same bits are upright alike. *)
LEMMA SameUpright ==
  ASSUME NEW r, NEW s, s.tapedat = r.tapedat, s.bitcount = r.bitcount
  PROVE  Upright(r) => Upright(s)
  BY DEF Upright

(* An upright frame with no bit to come has its start bit at the end. *)
LEMMA UprightEnds ==
  ASSUME NEW r \in Registers, Upright(r), r.bitcount = 0
  PROVE  r.tapedat % 4 = 1
<1>1. PICK hi \in Nat : Frame(r.tapedat, r.bitcount, hi)
  BY DEF Upright
<1>2. r.tapedat \in 0..AllOnes
  BY RegisterFields
<1> QED  BY <1>1, <1>2, FrameEnds

(* A byte written to the data register is. *)
LEMMA OverwrittenUpright == ASSUME Overwritten PROVE Upright(u')
<1>1. PICK val \in Byte : u'.tapedat = val * 4 + 1
  BY DEF Overwritten
<1>2. val \in Nat
  BY Words
<1>3. 2^0 = 1
  BY PowerAssumption
<1>4. u'.tapedat = 0 + 2^0 * (1 + 4 * val) /\ 0 \in 0..(2^0 - 1)
  BY <1>1, <1>2, <1>3
<1>5. Frame(u'.tapedat, 0, val)
  BY <1>4 DEF Frame
<1> QED  BY <1>2, <1>5 DEF Upright, Overwritten

(* Every step of a machine that never sends keeps it, and a step that       *)
(* latches a byte latches the next.                                         *)
LEMMA NextKept ==
  ASSUME UlaInv, Spaced, Outputs \subseteq {FALSE}, NextInv, [Next]_vars
  PROVE  /\ NextInv'
         /\ u'.latchno # u.latchno => u'.latchno \in {1, u.latchno + 1}
<1>1. Steady(tape')
  BY SteadyKept DEF NextInv
<1>2. tapeout' = FALSE
  BY TapeSteps DEF NextInv
<1>3. /\ u \in Registers /\ Good(u) /\ tape \in Playable /\ Steady(tape)
      /\ tapeout = FALSE /\ tape.given \in {0, u.recno}
      /\ u.recno # u.latchno =>
           /\ Upright(u) /\ ~u.hightone /\ ~tape.pauseit
           /\ u.recno \in {1, u.latchno + 1}
      /\ u.recno \in Nat /\ u.latchno \in Nat
  BY RegisterFields DEF UlaInv, Good, NextInv
<1> SUFFICES
      /\ tape'.given \in {0, u'.recno}
      /\ u'.recno # u'.latchno =>
           /\ Upright(u') /\ ~u'.hightone /\ ~tape'.pauseit
           /\ u'.recno \in {1, u'.latchno + 1}
      /\ u'.latchno # u.latchno => u'.latchno \in {1, u.latchno + 1}
  BY <1>1, <1>2 DEF NextInv
<1>4. CASE Overwritten /\ tape' = tape
  <2>1. Upright(u')
    BY <1>4, OverwrittenUpright
  <2>2. /\ u'.recno = u.recno /\ u'.latchno = u.latchno
        /\ u'.hightone = u.hightone
    BY <1>4 DEF Overwritten
  <2> QED  BY <1>3, <1>4, <2>1, <2>2
<1>5. CASE SameTape(u, u') /\ tape' \in {tape, Opened(tape.pauseit)}
  <2>1. tape.pauseit \in BOOLEAN
    BY <1>3, PlayerFields DEF Playable
  <2>2. /\ tape'.given \in {0, tape.given}
        /\ tape'.pauseit = tape.pauseit
    BY <1>5, <2>1, OpenedSteady
  <2>3. Upright(u) => Upright(u')
    BY <1>5, SameUpright DEF SameTape
  <2>4. /\ u'.recno = u.recno /\ u'.latchno = u.latchno
        /\ u'.hightone = u.hightone
    BY <1>5 DEF SameTape
  <2> QED  BY <1>3, <2>2, <2>3, <2>4
<1>6. CASE PollTape /\ tape.pauseit
  <2>1. /\ u'.recno = u.recno /\ u'.latchno = u.latchno
        /\ tape'.given \in {0, tape.given}
    BY <1>3, <1>6, PausedTape
  <2> QED  BY <1>3, <1>6, <2>1
<1>7. CASE PollTape /\ ~tape.pauseit /\ ~BetweenBytes
  <2>1. u' = PolledRegisters /\ tape' = tape
    BY <1>7 DEF PollTape
  <2>2. LET s == PolledRegisters
        IN  /\ s.recno = u.recno /\ s.latchno = u.latchno
            /\ s.hightone = u.hightone
            /\ Upright(u) /\ ~u.hightone /\ ~tapeout => Upright(s)
    BY <1>3, <1>7, WithinTape
  <2> QED  BY <1>3, <1>7, <2>1, <2>2
<1>8. CASE PollTape /\ ~tape.pauseit /\ BetweenBytes
  <2>1. u' = PolledRegisters /\ tape' = Polled.tape
    BY <1>8 DEF PollTape
  <2>2. LET s == PolledRegisters
        IN  /\ u.tapedat % 4 = 1 => s.latchno = u.recno
            /\ u.tapedat % 4 # 1 => s.latchno = u.latchno
            /\ Polled.event.kind = "byte" =>
                 /\ s.recno = Polled.tape.given /\ ~s.hightone
                 /\ Matching(s)
            /\ Polled.event.kind # "byte" => s.recno = u.recno
    BY <1>3, <1>8, BetweenTape
  <2>3. u.recno # u.latchno => u.tapedat % 4 = 1
    BY <1>3, <1>8, UprightEnds DEF BetweenBytes
  <2>4. u'.latchno = u.recno
    BY <2>1, <2>2, <2>3
  <2>5. CASE Polled.event.kind = "byte"
    <3>1. /\ ~Polled.tape.pauseit
          /\ Polled.tape.given \in {1, tape.given + 1}
      BY <1>3, <2>5, PolledLeaves
    <3>2. Polled.tape.given \in {1, u'.latchno + 1}
      BY <1>3, <2>4, <3>1
    <3>3. Upright(u')
      BY <2>1, <2>2, <2>5 DEF Matching, Upright
    <3> QED  BY <1>3, <2>1, <2>2, <2>4, <2>5, <3>1, <3>2, <3>3
  <2>6. CASE Polled.event.kind # "byte"
    <3>1. Polled.tape.given \in {0, tape.given}
      BY <1>3, <2>6, PolledLeaves
    <3> QED  BY <1>3, <2>1, <2>2, <2>4, <2>6, <3>1
  <2> QED  BY <2>5, <2>6
<1> QED  BY <1>4, <1>5, <1>6, <1>7, <1>8, TapeSteps

(* The tape and the registers the ULA starts with *)
LEMMA NextInit == Init => NextInv
<1> SUFFICES ASSUME Init PROVE NextInv
  OBVIOUS
<1>1. Steady(tape) /\ tape.given = 0
  BY OpenedSteady DEF Init
<1>2. u.recno = 0 /\ u.latchno = 0 /\ tapeout = FALSE
  BY DEF Init
<1> QED  BY <1>1, <1>2 DEF NextInv

(* No byte of a spaced tape is skipped by a machine that does not switch    *)
(* the cassette to output: the one latched next is the one before again,    *)
(* its successor, or the first of the tape started over, however the motor  *)
(* runs and whatever the CPU writes.  (polltape, polluef, receive)          *)
THEOREM BytesNotSkipped ==
  ASSUME Spaced, Outputs \subseteq {FALSE} PROVE Spec => NoByteSkipped
<1> DEFINE Step == u'.latchno # u.latchno => u'.latchno \in {1, u.latchno + 1}
<1>1. UlaInv /\ NextInv /\ [Next]_vars => NextInv' /\ Step
  BY NextKept
<1>2. Init => NextInv
  BY NextInit
<1>3. NextInv /\ UlaInv /\ [Next]_vars => [Step]_vars
  BY <1>1
<1>4. Spec => []NextInv
  BY <1>1, <1>2, UlaInvHolds, PTL DEF Spec
<1>5. Spec => [][Step]_vars
  BY <1>3, <1>4, UlaInvHolds, PTL DEF Spec
<1> QED  BY <1>5 DEF NoByteSkipped

=============================================================================
