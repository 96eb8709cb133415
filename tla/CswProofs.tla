------------------------------ MODULE CswProofs -----------------------------
(***************************************************************************)
(* Proofs about Csw: pollcsw hands over the bytes of a tape in order, for  *)
(* any tapes, bits of a byte, half waves of a poll and times a tape is put *)
(* in.                                                                     *)
(*                                                                         *)
(* An image is laid out by where the things it holds end, a byte by where  *)
(* its bits begin.  The invariant says where on the tape the decoder is:   *)
(* before or in a tone, at a bit of a byte with the bits before it shifted *)
(* into enddat, at a stop bit, or after one.  A half wave leads from one   *)
(* such place to another.                                                  *)
(***************************************************************************)
EXTENDS Csw, TLAPS, WellFoundedInduction, NaturalsInduction

-----------------------------------------------------------------------------
(* Induction and recursion over 0..n *)
(* Induction up to a number, for sets: the numbers are well-founded.        *)
LEMMA UpTo ==
  ASSUME NEW n \in Nat, NEW S, 0 \in S,
         \A k \in 0..(n - 1) : k \in S => k + 1 \in S
  PROVE  \A k \in 0..n : k \in S
<1> DEFINE Less == {ss \in Nat \X Nat : ss[1] < ss[2]}
           T == {k \in 0..n : k \notin S}
<1>1. IsWellFoundedOn(Less, Nat)
  BY NatLessThanWellFounded DEF OpToRel
<1> HIDE DEF Less
<1>2. SUFFICES ASSUME T # {} PROVE FALSE
  OBVIOUS
<1>3. T \subseteq Nat
  OBVIOUS
<1>4. PICK x \in T : \A y \in T : ~(<<y, x>> \in Less)
  BY <1>1, <1>2, <1>3, WFMin
<1>5. x \in Nat /\ x # 0 /\ x <= n /\ x \notin S
  BY <1>4
<1>6. x - 1 \in 0..(n - 1) /\ (x - 1) + 1 = x
  BY <1>5
<1>7. x - 1 \notin S
  BY <1>5, <1>6
<1>8. x - 1 \in T
  BY <1>6, <1>7
<1>9. <<x - 1, x>> \in Less
  BY <1>5, <1>6 DEF Less
<1> QED  BY <1>4, <1>8, <1>9

(* f is what repeated steps make of x0. *)
Iterates(f, n, X, x0, step) ==
  /\ f \in [0..n -> X] /\ f[0] = x0
  /\ \A k \in 1..n : f[k] = step[<<k, f[k - 1]>>]

(* A function that takes a step for each number has all its values.         *)
LEMMA Recursion ==
  ASSUME NEW n \in Nat, NEW X, NEW x0 \in X,
         NEW step \in [(1..n) \X X -> X]
  PROVE  \E f : Iterates(f, n, X, x0, step)
<1> DEFINE Steps(f, m) ==
             /\ f \in [0..m -> X] /\ f[0] = x0
             /\ \A k \in 1..m : f[k] = step[<<k, f[k - 1]>>]
           S == {m \in 0..n : \E f \in [0..m -> X] : Steps(f, m)}
<1>1. 0 \in S
  <2> DEFINE f == [k \in 0..0 |-> x0]
  <2>1. f \in [0..0 -> X] /\ Steps(f, 0)
    OBVIOUS
  <2>2. 0 \in 0..n
    OBVIOUS
  <2> QED  BY <2>1, <2>2
<1>2. ASSUME NEW m \in 0..(n - 1), m \in S PROVE m + 1 \in S
  <2>1. PICK f \in [0..m -> X] : Steps(f, m)
    BY <1>2
  <2> DEFINE g == [k \in 0..(m + 1) |-> IF k <= m THEN f[k] ELSE step[<<m + 1, f[m]>>]]
  <2>2. m + 1 \in 1..n /\ m \in 0..m /\ f[m] \in X
    OBVIOUS
  <2>3. step[<<m + 1, f[m]>>] \in X
    BY <2>2
  <2>4. g \in [0..(m + 1) -> X]
    BY <2>3
  <2>5. g[0] = x0
    BY <2>1
  <2>6. ASSUME NEW k \in 1..(m + 1) PROVE g[k] = step[<<k, g[k - 1]>>]
    <3>1. CASE k <= m
      <4>1. k \in 1..m /\ k - 1 \in 0..(m + 1) /\ k - 1 <= m /\ k \in 0..(m + 1)
        BY <3>1
      <4>2. g[k] = f[k] /\ g[k - 1] = f[k - 1]
        BY <4>1
      <4> QED  BY <4>1, <4>2, <2>1
    <3>2. CASE ~(k <= m)
      <4>1. k = m + 1 /\ k - 1 = m /\ m \in 0..(m + 1) /\ k \in 0..(m + 1)
        BY <3>2
      <4>2. g[k] = step[<<m + 1, f[m]>>] /\ g[k - 1] = f[m]
        BY <4>1, <3>2
      <4> QED  BY <4>1, <4>2
    <3> QED  BY <3>1, <3>2
  <2>7. Steps(g, m + 1)
    BY <2>4, <2>5, <2>6
  <2>8. m + 1 \in 0..n
    OBVIOUS
  <2> QED  BY <2>4, <2>7, <2>8
<1> HIDE DEF S
<1>3. n \in S
  <2>1. \A k \in 0..n : k \in S
    BY <1>1, <1>2, UpTo
  <2> QED  BY <2>1
<1> USE DEF S
<1>4. PICK f \in [0..n -> X] : Steps(f, n)
  BY <1>3
<1> QED  BY <1>4 DEF Iterates

(* What never decreases from one to the next does not between any two. *)
LEMMA Grows ==
  ASSUME NEW n \in Nat, NEW o \in [0..n -> Nat],
         \A k \in 1..n : o[k - 1] <= o[k]
  PROVE  \A k, m \in 0..n : k <= m => o[k] <= o[m]
<1> SUFFICES ASSUME NEW k \in 0..n
             PROVE  \A m \in 0..n : k <= m => o[k] <= o[m]
  OBVIOUS
<1> DEFINE M == {m \in 0..n : k <= m => o[k] <= o[m]}
<1>1. 0 \in M
  OBVIOUS
<1>2. ASSUME NEW m \in 0..(n - 1), m \in M PROVE m + 1 \in M
  <2>1. m + 1 \in 1..n /\ (m + 1) - 1 = m /\ m \in 0..n /\ m + 1 \in 0..n
    OBVIOUS
  <2>2. o[m] <= o[m + 1] /\ o[m] \in Nat /\ o[m + 1] \in Nat /\ o[k] \in Nat
    BY <2>1
  <2>3. k = m + 1 \/ k <= m \/ k > m + 1
    OBVIOUS
  <2> QED  BY <1>2, <2>1, <2>2, <2>3
<1> HIDE DEF M
<1>3. \A m \in 0..n : m \in M
  BY <1>1, <1>2, UpTo
<1> QED  BY <1>3 DEF M

(* DecoderParts of two sequences put together *)
LEMMA Joined ==
  ASSUME NEW S, NEW s \in Seq(S), NEW t \in Seq(S)
  PROVE  /\ s \o t \in Seq(S) /\ Len(s \o t) = Len(s) + Len(t)
         /\ \A j \in 1..Len(s) : (s \o t)[j] = s[j]
         /\ \A j \in 1..Len(t) : (s \o t)[Len(s) + j] = t[j]
  OBVIOUS

-----------------------------------------------------------------------------
(* Flattened sequences, and the bits of a byte as they are shifted in *)
(* o tells after which place of a flattened sequence each part ends. *)
LaidOut(flat, seqs, o) ==
  /\ o \in [0..Len(seqs) -> Nat] /\ o[0] = 0
  /\ \A k \in 1..Len(seqs) : o[k] = o[k - 1] + Len(seqs[k])
  /\ Len(flat) = o[Len(seqs)]
  /\ \A k \in 1..Len(seqs) : \A j \in 1..Len(seqs[k]) :
       flat[o[k - 1] + j] = seqs[k][j]

(* A flattened sequence is its parts, laid one after the other.             *)
LEMMA FlattenLaidOut ==
  ASSUME NEW S, NEW seqs \in Seq(Seq(S))
  PROVE  /\ FlattenSeq(seqs) \in Seq(S)
         /\ \E o : LaidOut(FlattenSeq(seqs), seqs, o)
<1> DEFINE n == Len(seqs)
           step == [kx \in (1..n) \X Seq(S) |-> kx[2] \o seqs[kx[1]]]
<1>1. n \in Nat /\ \A k \in 1..n : seqs[k] \in Seq(S)
  OBVIOUS
<1>2. <<>> \in Seq(S)
  OBVIOUS
<1>3. step \in [(1..n) \X Seq(S) -> Seq(S)]
  BY <1>1
<1> HIDE DEF n
<1>4. PICK F \in [0..n -> Seq(S)] :
        F[0] = <<>> /\ \A k \in 1..n : F[k] = step[<<k, F[k - 1]>>]
  <2> DEFINE X == Seq(S)
             x0 == <<>>
  <2> HIDE DEF step, X, x0
  <2>1. n \in Nat /\ x0 \in X /\ step \in [(1..n) \X X -> X]
    BY <1>1, <1>2, <1>3 DEF X, x0
  <2>2. PICK F : Iterates(F, n, X, x0, step)
    BY <2>1, Recursion
  <2> QED  BY <2>2 DEF X, x0, Iterates
<1>5. F[0] = <<>> /\ \A k \in 1..n : F[k] = F[k - 1] \o seqs[k]
  <2>1. F[0] = <<>>
    BY <1>1, <1>4
  <2>2. ASSUME NEW k \in 1..n PROVE F[k] = F[k - 1] \o seqs[k]
    <3>1. k \in 0..n /\ k # 0 /\ k - 1 \in 0..n /\ F[k - 1] \in Seq(S)
      BY <1>1
    <3>2. F[k] = step[<<k, F[k - 1]>>]
      BY <1>4, <3>1
    <3> QED  BY <3>1, <3>2
  <2> QED  BY <2>1, <2>2
<1> DEFINE o == [k \in 0..n |-> Len(F[k])]
           Has(m) == \A k \in 1..m : \A j \in 1..Len(seqs[k]) :
                       F[m][o[k - 1] + j] = seqs[k][j]
<1>6. o \in [0..n -> Nat] /\ o[0] = 0
  BY <1>1, <1>5
<1>7. \A k \in 1..n : o[k] = o[k - 1] + Len(seqs[k])
  <2> TAKE k \in 1..n
  <2>1. k \in 0..n /\ k - 1 \in 0..n /\ F[k - 1] \in Seq(S) /\ seqs[k] \in Seq(S)
    BY <1>1
  <2>2. o[k] = Len(F[k]) /\ o[k - 1] = Len(F[k - 1])
    BY <2>1
  <2>3. F[k] = F[k - 1] \o seqs[k]
    BY <1>5
  <2> HIDE DEF o
  <2> QED  BY <2>1, <2>2, <2>3
<1>8. \A k, m \in 0..n : k <= m => o[k] <= o[m]
  <2> HIDE DEF o
  <2>1. \A k \in 1..n : o[k - 1] <= o[k]
    <3> TAKE k \in 1..n
    <3>1. k - 1 \in 0..n /\ o[k - 1] \in Nat /\ Len(seqs[k]) \in Nat
      BY <1>1, <1>6
    <3> QED  BY <1>7, <3>1
  <2> QED  BY <1>1, <1>6, <2>1, Grows
<1>9. \A m \in 0..n : Has(m)
  <2> DEFINE M == {m \in 0..n : Has(m)}
  <2>1. 0 \in M
    BY <1>1
  <2>2. \A m \in 0..(n - 1) : m \in M => m + 1 \in M
    <3> HIDE DEF Has
    <3> SUFFICES ASSUME NEW m \in 0..(n - 1), Has(m) PROVE Has(m + 1)
      <4>1. \A m \in 0..(n - 1) : m + 1 \in 0..n
        BY <1>1
      <4> QED  BY <4>1
    <3>1. m + 1 \in 1..n /\ (m + 1) - 1 = m /\ m \in 0..n /\ m + 1 \in 0..n
      BY <1>1
    <3> USE DEF Has
    <3>2. /\ F[m + 1] = F[m] \o seqs[m + 1]
          /\ F[m] \in Seq(S) /\ seqs[m + 1] \in Seq(S) /\ o[m] = Len(F[m])
      BY <1>1, <1>5, <3>1
    <3> SUFFICES ASSUME NEW k \in 1..(m + 1), NEW j \in 1..Len(seqs[k])
                 PROVE  F[m + 1][o[k - 1] + j] = seqs[k][j]
      OBVIOUS
    <3>3. k \in 1..n /\ k - 1 \in 0..n /\ k \in 0..n /\ Len(seqs[k]) \in Nat
      BY <1>1
    <3>4. o[k - 1] \in Nat /\ o[k] = o[k - 1] + Len(seqs[k])
      BY <1>6, <1>7, <3>3
    <3>5. CASE k = m + 1
      <4>1. o[k - 1] = Len(F[m]) /\ seqs[k] = seqs[m + 1]
        BY <3>1, <3>2, <3>5
      <4> HIDE DEF o
      <4>2. j \in 1..Len(seqs[m + 1]) /\ F[m + 1][Len(F[m]) + j] = seqs[m + 1][j]
        <5> DEFINE s == F[m]
                   t == seqs[m + 1]
        <5> HIDE DEF s, t
        <5>1. s \in Seq(S) /\ t \in Seq(S) /\ j \in 1..Len(t)
          BY <3>2, <4>1 DEF s, t
        <5>2. (s \o t)[Len(s) + j] = t[j]
          BY <5>1, Joined
        <5> QED  BY <5>1, <5>2, <3>2 DEF s, t
      <4> QED  BY <4>2, <4>1
    <3>6. CASE k <= m
      <4>1. F[m][o[k - 1] + j] = seqs[k][j]
        <5>1. k \in 1..m
          BY <1>1, <3>6
        <5> HIDE DEF o
        <5> QED  BY <5>1
      <4>2. o[k - 1] + j <= o[m] /\ o[k - 1] + j >= 1
        <5> HIDE DEF o
        <5>1. o[k] <= o[m] /\ o[k] \in Nat /\ o[m] \in Nat
          <6>1. k \in 0..n /\ m \in 0..n /\ k <= m
            BY <3>1, <3>3, <3>6
          <6>2. o[k] \in Nat /\ o[m] \in Nat
            BY <6>1, <1>6
          <6>3. o[k] <= o[m]
            BY <6>1, <1>8
          <6> QED  BY <6>2, <6>3
        <5> DEFINE a == o[k - 1]
                   b == o[k]
                   c == o[m]
                   l == Len(seqs[k])
        <5>2. a \in Nat /\ b = a + l /\ b <= c /\ c \in Nat /\ l \in Nat /\ j \in 1..l
          BY <3>3, <3>4, <5>1
        <5> HIDE DEF a, b, c, l
        <5>3. a + j <= c /\ a + j >= 1
          BY <5>2
        <5> QED  BY <5>3 DEF a, c
      <4>3. o[k - 1] + j \in 1..Len(F[m])
        <5> HIDE DEF o
        <5> QED  BY <4>2, <3>2, <3>4, <3>3
      <4> HIDE DEF o
      <4> DEFINE at == o[k - 1] + j
      <4> HIDE DEF at
      <4>4. at \in 1..Len(F[m])
        BY <4>3 DEF at
      <4>5. (F[m] \o seqs[m + 1])[at] = F[m][at]
        <5> DEFINE s == F[m]
                   t == seqs[m + 1]
        <5> HIDE DEF s, t
        <5>1. s \in Seq(S) /\ t \in Seq(S) /\ at \in 1..Len(s)
          BY <3>2, <4>4 DEF s, t
        <5>2. (s \o t)[at] = s[at]
          BY <5>1, Joined
        <5> QED  BY <5>2 DEF s, t
      <4> QED  BY <4>1, <4>5, <3>2 DEF at
    <3> QED  BY <3>5, <3>6
  <2> HIDE DEF M
  <2>3. \A m \in 0..n : m \in M
    BY <1>1, <2>1, <2>2, UpTo
  <2> QED  BY <2>3 DEF M
<1> HIDE DEF step, o
<1>10. FlattenSeq(seqs) = F[n]
  <2>1. CASE n = 0
    <3>1. seqs = <<>>
      BY <2>1 DEF n
    <3>2. FlattenSeq(seqs) = seqs
      BY <2>1 DEF FlattenSeq, n
    <3> QED  BY <3>1, <3>2, <2>1, <1>5
  <2>2. CASE n # 0
    <3> DEFINE Is(f) == f = [i \in 1..n |-> IF i = 1 THEN seqs[i] ELSE f[i - 1] \o seqs[i]]
               flat == CHOOSE f : Is(f)
               g == [i \in 1..n |-> F[i]]
    <3>1. FlattenSeq(seqs) = flat[n]
      BY <2>2 DEF FlattenSeq, n
    <3>2. Is(g)
      <4> SUFFICES ASSUME NEW i \in 1..n
                   PROVE  g[i] = IF i = 1 THEN seqs[i] ELSE g[i - 1] \o seqs[i]
        OBVIOUS
      <4>1. g[i] = F[i - 1] \o seqs[i] /\ seqs[i] \in Seq(S)
        BY <1>1, <1>5
      <4>2. i = 1 => F[i - 1] = <<>>
        BY <1>5
      <4>3. i # 1 => i - 1 \in 1..n /\ g[i - 1] = F[i - 1]
        BY <1>1
      <4>4. <<>> \o seqs[i] = seqs[i]
        BY <4>1
      <4> QED  BY <4>1, <4>2, <4>3, <4>4
    <3>3. Is(flat)
      <4> HIDE DEF g, Is
      <4> QED  BY <3>2
    <3> HIDE DEF flat
    <3> DEFINE M == {m \in 0..n : m = 0 \/ flat[m] = F[m]}
    <3>4. 0 \in M
      BY <1>1
    <3>5. \A m \in 0..(n - 1) : m \in M => m + 1 \in M
      <4> SUFFICES ASSUME NEW m \in 0..(n - 1), m \in M PROVE m + 1 \in M
        OBVIOUS
      <4>1. m + 1 \in 1..n /\ (m + 1) - 1 = m /\ m \in 0..n /\ m + 1 \in 0..n
            /\ seqs[m + 1] \in Seq(S)
        BY <1>1
      <4>2. F[m + 1] = F[m] \o seqs[m + 1]
        BY <1>5, <4>1
      <4>3. flat[m + 1] = IF m + 1 = 1 THEN seqs[m + 1] ELSE flat[m] \o seqs[m + 1]
        BY <3>3, <4>1
      <4>4. m = 0 => F[m] = <<>> /\ <<>> \o seqs[m + 1] = seqs[m + 1]
        BY <1>5, <4>1
      <4>5. m + 1 = 1 <=> m = 0
        BY <4>1
      <4>6. flat[m + 1] = F[m + 1]
        BY <4>2, <4>3, <4>4, <4>5 DEF M
      <4> QED  BY <4>1, <4>6
    <3> HIDE DEF M
    <3>6. \A m \in 0..n : m \in M
      BY <1>1, <3>4, <3>5, UpTo
    <3>7. n \in M
      BY <1>1, <3>6
    <3> QED  BY <3>1, <3>7, <2>2 DEF M
  <2> QED  BY <2>1, <2>2
<1>11. LaidOut(FlattenSeq(seqs), seqs, o)
  <2>1. n \in 0..n /\ o[n] = Len(F[n])
    BY <1>1 DEF o
  <2> QED  BY <1>6, <1>7, <1>9, <1>10, <2>1 DEF LaidOut, n
<1>12. F[n] \in Seq(S)
  BY <1>1
<1> QED  BY <1>10, <1>11, <1>12

(* The quotient of a number that is given by quotient and remainder *)
LEMMA QuotientIs ==
  ASSUME NEW m \in Nat \ {0}, NEW lo \in 0..(m - 1), NEW hi \in Nat
  PROVE  (lo + m * hi) \div m = hi
<1> DEFINE b == lo + m * hi
           q == b \div m
<1>1. b \in Nat /\ m * hi \in Nat
  OBVIOUS
<1>2. q \in Nat /\ m * q <= b /\ b < m * q + m
  BY <1>1
<1> HIDE DEF q
<1>3. m * q < m * hi + m /\ m * hi < m * q + m
  BY <1>1, <1>2
<1>4. ASSUME q > hi PROVE FALSE
  <2>1. q - hi - 1 \in Nat /\ m * (q - hi - 1) \in Nat
    BY <1>2, <1>4
  <2>2. m * q = m * (q - hi - 1) + m * hi + m
    BY <1>2
  <2> QED  BY <2>1, <2>2, <1>1, <1>3
<1>5. ASSUME hi > q PROVE FALSE
  <2>1. hi - q - 1 \in Nat /\ m * (hi - q - 1) \in Nat
    BY <1>2, <1>5
  <2>2. m * hi = m * (hi - q - 1) + m * q + m
    BY <1>2
  <2>3. m * q \in Nat
    BY <1>2
  <2> QED  BY <2>1, <2>2, <2>3, <1>1, <1>3
<1> QED  BY <1>2, <1>4, <1>5 DEF q

(* What a reader of i bits of a byte has: they are the low ones of the byte *)
(* and the high ones of enddat.                                             *)
Shifted(byte, i, e) ==
  \E lo \in 0..(2^i - 1), hi \in Nat :
    byte = lo + 2^i * hi /\ e = lo * 2^(Bits - i)

(* 2^(Bits - 1) as the bits below and those above i.                        *)
LEMMA PowerSplit ==
  ASSUME NEW i \in 0..(Bits - 1)
  PROVE  2^(Bits - 1) = 2^i * 2^(Bits - 1 - i)
<1> DEFINE S == {j \in 0..(Bits - 1) : 2^(Bits - 1) = 2^j * 2^(Bits - 1 - j)}
<1>1. Bits \in Nat /\ Bits - 1 \in Nat
  BY CswAssumption
<1>2. 0 \in S
  <2>1. Bits - 1 - 0 = Bits - 1 /\ 0 \in 0..(Bits - 1) /\ 2^(Bits - 1) \in Nat
    BY <1>1, CswPowers
  <2>2. 2^(Bits - 1) = 1 * 2^(Bits - 1)
    BY <2>1
  <2> QED  BY <2>1, <2>2, CswPowers
<1>3. ASSUME NEW j \in 0..((Bits - 1) - 1), j \in S PROVE j + 1 \in S
  <2> DEFINE r == Bits - 1 - (j + 1)
  <2>1. /\ j \in 0..(Bits - 1) /\ j + 1 \in 0..(Bits - 1) /\ r \in 0..(Bits - 1)
        /\ Bits - 1 - j = r + 1 /\ j \in 0..Bits /\ r \in 0..Bits
    BY <1>1
  <2> HIDE DEF r
  <2>2. 2^j \in Nat /\ 2^r \in Nat /\ 2^(j + 1) = 2 * 2^j /\ 2^(r + 1) = 2 * 2^r
    BY <2>1, CswPowers
  <2>3. 2^(Bits - 1) = 2^j * 2^(r + 1)
    BY <1>3, <2>1
  <2> DEFINE x == 2^j
             y == 2^r
  <2> HIDE DEF x, y
  <2>4. x * (2 * y) = (2 * x) * y
    BY <2>2 DEF x, y
  <2>5. 2^(Bits - 1) = 2^(j + 1) * 2^r
    BY <2>2, <2>3, <2>4 DEF x, y
  <2> QED  BY <2>1, <2>5 DEF r
<1> HIDE DEF S
<1>4. i \in S
  BY <1>1, <1>2, <1>3, UpTo
<1> QED  BY <1>4 DEF S

(* Another bit read into enddat: shifted down, the new one on top.  (pollcsw) *)
LEMMA ShiftedMore ==
  ASSUME NEW byte \in Nat, NEW i \in 0..(Bits - 1), NEW e, Shifted(byte, i, e)
  PROVE  Shifted(byte, i + 1,
                 (e \div 2) + (IF Bit(byte, i) = 0 THEN 0 ELSE 2^(Bits - 1)))
<1>0. Bits \in Nat /\ Bits # 0
  BY CswAssumption
<1> DEFINE m == 2^i
           w == 2^(Bits - 1 - i)
<1>1. m \in Nat \ {0} /\ w \in Nat /\ 2^(i + 1) = 2 * m /\ 2^(Bits - i) = 2 * w
  <2>1. i \in 0..Bits /\ Bits - 1 - i \in 0..(Bits - 1) /\ Bits - 1 - i \in 0..Bits
        /\ (Bits - 1 - i) + 1 = Bits - i
    BY <1>0
  <2> QED  BY <2>1, CswPowers
<1>2. PICK lo \in 0..(m - 1), hi \in Nat : byte = lo + m * hi /\ e = lo * (2 * w)
  BY <1>1 DEF Shifted
<1>3. 2^(Bits - 1) = m * w
  BY PowerSplit
<1>4. 2^(Bits - (i + 1)) = w
  <2>1. Bits - (i + 1) = Bits - 1 - i
    BY <1>0
  <2> QED  BY <2>1
<1> HIDE DEF m, w
<1>5. byte \div m = hi
  BY <1>1, <1>2, QuotientIs
<1>6. Bit(byte, i) = hi % 2
  BY <1>5 DEF Bit, m
<1>7. e \div 2 = lo * w
  <2>1. lo * w \in Nat /\ e = 2 * (lo * w)
    BY <1>1, <1>2
  <2> QED  BY <2>1
<1> DEFINE h == hi \div 2
           bit == hi % 2
<1>8. h \in Nat /\ bit \in {0, 1} /\ hi = 2 * h + bit
  BY <1>2
<1> HIDE DEF h, bit
<1>9. CASE bit = 0
  <2>1. byte = lo + (2 * m) * h
    BY <1>1, <1>2, <1>8, <1>9
  <2>2. lo \in 0..(2 * m - 1) /\ lo * w \in Nat
    BY <1>1, <1>2
  <2>3. Shifted(byte, i + 1, lo * w)
    BY <1>1, <1>4, <1>8, <2>1, <2>2 DEF Shifted
  <2>4. (e \div 2) + (IF Bit(byte, i) = 0 THEN 0 ELSE 2^(Bits - 1)) = lo * w
    BY <1>6, <1>7, <1>9, <2>2 DEF bit
  <2> QED  BY <2>3, <2>4
<1>10. CASE bit = 1
  <2> DEFINE up == lo + m
  <2>1. byte = up + (2 * m) * h
    BY <1>1, <1>2, <1>8, <1>10
  <2>2. up \in 0..(2 * m - 1)
    BY <1>1, <1>2
  <2>3. up * w = lo * w + m * w
    BY <1>1, <1>2
  <2> HIDE DEF up
  <2>4. Shifted(byte, i + 1, up * w)
    BY <1>1, <1>4, <1>8, <2>1, <2>2 DEF Shifted
  <2>5. (e \div 2) + (IF Bit(byte, i) = 0 THEN 0 ELSE 2^(Bits - 1)) = up * w
    BY <1>3, <1>6, <1>7, <1>10, <2>3 DEF bit
  <2> QED  BY <2>4, <2>5
<1> QED  BY <1>8, <1>9, <1>10

(* A decoder that begins has none of the bits.                              *)
LEMMA ShiftedNone ==
  ASSUME NEW byte \in Nat PROVE Shifted(byte, 0, 0)
<1>1. /\ 2^0 = 1 /\ 0 \in 0..(1 - 1) /\ byte = 0 + 1 * byte
      /\ Bits \in Nat /\ Bits - 0 = Bits /\ Bits \in 0..Bits
  BY CswAssumption, CswPowers
<1>2. 0 * 2^(Bits - 0) = 0
  BY <1>1, CswPowers
<1> QED  BY <1>1, <1>2 DEF Shifted

(* A decoder that has all the bits has the byte.                            *)
LEMMA ShiftedAll ==
  ASSUME NEW byte \in TapeByte, NEW e, Shifted(byte, Bits, e) PROVE e = byte
<1>1. Bits \in Nat /\ Bits - Bits = 0 /\ 2^0 = 1 /\ Bits \in 0..Bits
  BY CswAssumption, CswPowers
<1> DEFINE m == 2^Bits
<1>2. m \in Nat \ {0}
  BY <1>1, CswPowers
<1>3. PICK lo \in 0..(m - 1), hi \in Nat : byte = lo + m * hi /\ e = lo * 1
  BY <1>1 DEF Shifted
<1>4. byte \in 0..(m - 1)
  BY DEF TapeByte
<1> HIDE DEF m
<1>5. hi = 0
  <2>1. hi >= 1 => m * hi = m * (hi - 1) + m /\ m * (hi - 1) \in Nat
    BY <1>2, <1>3
  <2> QED  BY <1>2, <1>3, <1>4, <2>1
<1> QED  BY <1>2, <1>3, <1>5

-----------------------------------------------------------------------------
(* The waves of a byte *)
Lengths == {"long", "short"}

(* A 0 is two long half waves, a 1 four short ones.                         *)
LEMMA HalfWavesType ==
  ASSUME NEW bit \in {0, 1}
  PROVE  /\ HalfWaves(bit) \in Seq(Lengths)
         /\ Len(HalfWaves(bit)) = IF bit = 0 THEN 2 ELSE 4
         /\ \A j \in 1..Len(HalfWaves(bit)) :
              HalfWaves(bit)[j] = IF bit = 0 THEN "long" ELSE "short"
<1>1. CASE bit = 0
  <2>1. HalfWaves(bit) = <<"long", "long">>
    BY <1>1 DEF HalfWaves
  <2>2. /\ <<"long", "long">> \in Seq(Lengths) /\ Len(<<"long", "long">>) = 2
        /\ \A j \in 1..2 : <<"long", "long">>[j] = "long"
    BY DEF Lengths
  <2> QED  BY <1>1, <2>1, <2>2
<1>2. CASE bit = 1
  <2> DEFINE s == [i \in 1..4 |-> "short"]
  <2>1. HalfWaves(bit) = s
    BY <1>2 DEF HalfWaves
  <2>2. s \in Seq(Lengths) /\ Len(s) = 4 /\ \A j \in 1..4 : s[j] = "short"
    BY DEF Lengths
  <2> HIDE DEF s
  <2> QED  BY <1>2, <2>1, <2>2
<1> QED  BY <1>1, <1>2

(* A bit is 0 or 1.                                                         *)
LEMMA BitType == ASSUME NEW byte \in Nat, NEW i \in 0..Bits PROVE Bit(byte, i) \in {0, 1}
<1>1. 2^i \in Nat \ {0}
  BY CswPowers
<1>2. byte \div 2^i \in Nat
  BY <1>1
<1> QED  BY <1>2 DEF Bit

(* p tells before which half wave each bit of an encoded byte begins. *)
ByteLaidOut(waves, byte, p) ==
  /\ waves \in Seq(Lengths) /\ p \in [0..Bits -> Nat]
  /\ p[0] = 2 /\ waves[1] = "long"
  /\ \A i \in 0..(Bits - 1) :
       /\ p[i + 1] = p[i] + (IF Bit(byte, i) = 0 THEN 2 ELSE 4)
       /\ waves[p[i] + 1] = IF Bit(byte, i) = 0 THEN "long" ELSE "short"
  /\ Len(waves) = p[Bits] + 4 /\ waves[p[Bits] + 1] = "short"

(* The waves of a byte: a start bit, the bits, and the stop bit.            *)
LEMMA EncodedByteLaidOut ==
  ASSUME NEW byte \in Nat
  PROVE  \E p : ByteLaidOut(EncodedByte(byte), byte, p)
<1> DEFINE bw == BitWaves(byte)
           flat == FlattenSeq(bw)
           head == HalfWaves(0)
           last == HalfWaves(1)
<1>0. Bits \in Nat /\ Bits # 0
  BY CswAssumption
<1>1. bw \in Seq(Seq(Lengths)) /\ Len(bw) = Bits
      /\ \A i \in 1..Bits : bw[i] = HalfWaves(Bit(byte, i - 1))
  <2>1. \A i \in 1..Bits : HalfWaves(Bit(byte, i - 1)) \in Seq(Lengths)
    <3> TAKE i \in 1..Bits
    <3>1. i - 1 \in 0..Bits
      BY <1>0
    <3> QED  BY <3>1, BitType, HalfWavesType
  <2> QED  BY <1>0, <2>1 DEF BitWaves
<1> HIDE DEF bw
<1>2. flat \in Seq(Lengths) /\ \E o : LaidOut(flat, bw, o)
  BY <1>1, FlattenLaidOut
<1>3. PICK o : LaidOut(flat, bw, o)
  BY <1>2
<1> HIDE DEF flat
<1>4. /\ o \in [0..Bits -> Nat] /\ o[0] = 0 /\ Len(flat) = o[Bits]
      /\ \A k \in 1..Bits : o[k] = o[k - 1] + Len(bw[k])
      /\ \A k \in 1..Bits : \A j \in 1..Len(bw[k]) : flat[o[k - 1] + j] = bw[k][j]
  BY <1>1, <1>3 DEF LaidOut
<1>5. /\ head \in Seq(Lengths) /\ Len(head) = 2 /\ head[1] = "long"
      /\ last \in Seq(Lengths) /\ Len(last) = 4 /\ last[1] = "short"
  BY HalfWavesType
<1> HIDE DEF head, last
<1> DEFINE s == head \o flat
           waves == s \o last
           p == [i \in 0..Bits |-> o[i] + 2]
<1>6. /\ s \in Seq(Lengths) /\ Len(s) = 2 + Len(flat) /\ s[1] = "long"
      /\ \A j \in 1..Len(flat) : s[2 + j] = flat[j]
  <2>1. /\ s \in Seq(Lengths) /\ Len(s) = Len(head) + Len(flat)
        /\ \A j \in 1..Len(head) : s[j] = head[j]
        /\ \A j \in 1..Len(flat) : s[Len(head) + j] = flat[j]
    <3>1. head \in Seq(Lengths) /\ flat \in Seq(Lengths)
      BY <1>2, <1>5
    <3> QED  BY <3>1, Joined
  <2>2. 1 \in 1..Len(head)
    BY <1>5
  <2> HIDE DEF s
  <2> QED  BY <1>5, <2>1, <2>2
<1> HIDE DEF s
<1>7. /\ waves \in Seq(Lengths) /\ Len(waves) = Len(s) + 4
      /\ \A j \in 1..Len(s) : waves[j] = s[j]
      /\ waves[Len(s) + 1] = "short"
  <2>1. /\ waves \in Seq(Lengths) /\ Len(waves) = Len(s) + Len(last)
        /\ \A j \in 1..Len(s) : waves[j] = s[j]
        /\ \A j \in 1..Len(last) : waves[Len(s) + j] = last[j]
    <3>1. s \in Seq(Lengths) /\ last \in Seq(Lengths)
      BY <1>5, <1>6
    <3> QED  BY <3>1, Joined
  <2>2. 1 \in 1..Len(last)
    BY <1>5
  <2> HIDE DEF waves
  <2> QED  BY <1>5, <2>1, <2>2
<1> HIDE DEF waves
<1>8. Len(flat) \in Nat
  BY <1>2
<1>9. waves[1] = "long" /\ \A j \in 1..Len(flat) : waves[2 + j] = flat[j]
  <2>1. 1 \in 1..Len(s) /\ \A j \in 1..Len(flat) : 2 + j \in 1..Len(s)
    BY <1>6, <1>8
  <2> QED  BY <1>6, <1>7, <2>1
<1>10. /\ p \in [0..Bits -> Nat] /\ p[0] = 2 /\ p[Bits] = 2 + Len(flat)
  BY <1>0, <1>4
<1>11. \A i \in 0..(Bits - 1) :
         /\ p[i + 1] = p[i] + (IF Bit(byte, i) = 0 THEN 2 ELSE 4)
         /\ waves[p[i] + 1] = IF Bit(byte, i) = 0 THEN "long" ELSE "short"
  <2> TAKE i \in 0..(Bits - 1)
  <2> DEFINE k == i + 1
             bit == Bit(byte, i)
  <2>1. k \in 1..Bits /\ k - 1 = i /\ i \in 0..Bits /\ k \in 0..Bits
    BY <1>0
  <2>2. bit \in {0, 1}
    BY <2>1, BitType
  <2>3. bw[k] = HalfWaves(bit)
    BY <1>1, <2>1
  <2>4. p[i] = o[i] + 2 /\ p[k] = o[k] + 2 /\ o[i] \in Nat /\ o[k] \in Nat
    BY <1>4, <2>1
  <2> HIDE DEF k, bit, p
  <2>5. /\ Len(bw[k]) = IF bit = 0 THEN 2 ELSE 4
        /\ bw[k][1] = IF bit = 0 THEN "long" ELSE "short"
    <3>1. Len(HalfWaves(bit)) = IF bit = 0 THEN 2 ELSE 4
      BY <2>2, HalfWavesType
    <3>2. 1 \in 1..Len(HalfWaves(bit))
      BY <3>1
    <3> QED  BY <2>2, <2>3, <3>1, <3>2, HalfWavesType
  <2>6. o[k] = o[i] + Len(bw[k]) /\ flat[o[i] + 1] = bw[k][1]
    <3>1. 1 \in 1..Len(bw[k])
      BY <2>5
    <3> QED  BY <1>4, <2>1, <3>1
  <2>7. o[k] <= Len(flat)
    <3>1. \A j \in 1..Bits : o[j - 1] <= o[j]
      <4> TAKE j \in 1..Bits
      <4>1. j - 1 \in 0..Bits /\ o[j - 1] \in Nat
        BY <1>0, <1>4
      <4>2. bw[j] \in Seq(Lengths)
        BY <1>1
      <4>3. Len(bw[j]) \in Nat
        BY <4>2
      <4> QED  BY <1>4, <4>1, <4>3
    <3>2. \A a, b \in 0..Bits : a <= b => o[a] <= o[b]
      BY <1>0, <1>4, <3>1, Grows
    <3> QED  BY <1>0, <1>4, <2>1, <3>2
  <2>8. o[i] + 1 \in 1..Len(flat)
    BY <2>4, <2>5, <2>6, <2>7, <1>8
  <2>9. waves[2 + (o[i] + 1)] = flat[o[i] + 1]
    BY <1>9, <2>8
  <2>10. 2 + (o[i] + 1) = p[i] + 1 /\ p[k] = p[i] + Len(bw[k])
    BY <2>4, <2>5, <2>6
  <2> QED  BY <2>5, <2>6, <2>9, <2>10 DEF k, bit
<1> HIDE DEF p
<1>12. EncodedByte(byte) = waves
  BY DEF EncodedByte, waves, s, head, last, flat, bw
<1>13. Len(waves) = p[Bits] + 4 /\ waves[p[Bits] + 1] = "short"
  BY <1>6, <1>7, <1>8, <1>10
<1>14. ByteLaidOut(waves, byte, p)
  BY <1>7, <1>9, <1>10, <1>11, <1>13 DEF ByteLaidOut
<1> QED  BY <1>12, <1>14

-----------------------------------------------------------------------------
(* The image of a tape *)
Wave(held, i) == IF i <= Len(Image[held]) THEN Image[held][i] ELSE "short"

(* What a tape of the model holds.                                          *)
LEMMA TapesAre ==
  ASSUME NEW held \in Tapes
  PROVE  /\ held \in Seq(Item) /\ Len(held) \in Nat
         /\ \A k \in 1..Len(held) :
              /\ held[k] \in Item /\ held[k].tone \in BOOLEAN
              /\ held[k].byte \in TapeByte /\ held[k].byte \in Nat
<1>1. held \in Seq(Item)
  BY CswAssumption
<1>2. \A k \in 1..Len(held) : held[k] \in Item
  BY <1>1
<1>3. Bits \in 0..Bits /\ 2^Bits \in Nat
  BY CswAssumption, CswPowers
<1>4. TapeByte \subseteq Nat
  BY <1>3 DEF TapeByte
<1>5. \A h \in Item : h.tone \in BOOLEAN /\ h.byte \in TapeByte
  BY DEF Item
<1>6. Len(held) \in Nat
  BY <1>1
<1> QED  BY <1>1, <1>2, <1>4, <1>5, <1>6

(* The waves of a byte are long or short.                                   *)
LEMMA EncodedByteType ==
  ASSUME NEW byte \in Nat
  PROVE  EncodedByte(byte) \in Seq(Lengths)
BY EncodedByteLaidOut DEF ByteLaidOut

(* Each thing a tape holds is waves: a tone's or a byte's.                  *)
LEMMA ItemWavesType ==
  ASSUME NEW held \in Tapes
  PROVE  /\ ItemWaves(held) \in Seq(Seq(Lengths))
         /\ Len(ItemWaves(held)) = Len(held)
         /\ \A k \in 1..Len(held) :
              ItemWaves(held)[k] = IF held[k].tone THEN [j \in 1..6 |-> "short"]
                                   ELSE EncodedByte(held[k].byte)
<1> DEFINE tone == [j \in 1..6 |-> "short"]
           it == [ k \in 1..Len(held) |-> IF held[k].tone THEN tone
                                          ELSE EncodedByte(held[k].byte) ]
<1>1. tone \in Seq(Lengths)
  BY DEF Lengths
<1> HIDE DEF tone
<1>2. \A k \in 1..Len(held) : it[k] \in Seq(Lengths)
  BY <1>1, TapesAre, EncodedByteType
<1>3. held \in Seq(Item) /\ Len(held) \in Nat /\ DOMAIN held = 1..Len(held)
  BY TapesAre
<1>4. ItemWaves(held) = it
  BY <1>3 DEF ItemWaves, tone
<1>5. it \in Seq(Seq(Lengths)) /\ Len(it) = Len(held)
  BY <1>2, <1>3
<1> QED  BY <1>4, <1>5 DEF tone

(* Where the things a tape holds end, and where the bits of a byte begin *)
ItemEnds(held) == CHOOSE o : LaidOut(Image[held], ItemWaves(held), o)
ByteStarts(byte) == CHOOSE p : ByteLaidOut(EncodedByte(byte), byte, p)

(* The image of a tape is the waves of what it holds, one after the other.  *)
LEMMA ImageLaidOut ==
  ASSUME NEW held \in Tapes
  PROVE  /\ Image[held] \in Seq(Lengths)
         /\ LaidOut(Image[held], ItemWaves(held), ItemEnds(held))
<1>1. Image[held] = FlattenSeq(ItemWaves(held))
  BY DEF Image
<1>2. /\ FlattenSeq(ItemWaves(held)) \in Seq(Lengths)
      /\ \E o : LaidOut(FlattenSeq(ItemWaves(held)), ItemWaves(held), o)
  <2> DEFINE seqs == ItemWaves(held)
             S == Lengths
  <2>1. seqs \in Seq(Seq(S))
    BY ItemWavesType
  <2> HIDE DEF seqs, S
  <2>2. FlattenSeq(seqs) \in Seq(S) /\ \E o : LaidOut(FlattenSeq(seqs), seqs, o)
    BY <2>1, FlattenLaidOut
  <2> QED  BY <2>2 DEF seqs, S
<1> QED  BY <1>1, <1>2 DEF ItemEnds

(* The bits of an encoded byte begin where ByteStarts says.                 *)
LEMMA ByteStartsAre ==
  ASSUME NEW byte \in Nat
  PROVE  ByteLaidOut(EncodedByte(byte), byte, ByteStarts(byte))
BY EncodedByteLaidOut DEF ByteStarts

(* The bits of a byte begin before its stop bit. *)
LEMMA StartsBeforeStop ==
  ASSUME NEW byte \in Nat
  PROVE  /\ ByteStarts(byte) \in [0..Bits -> Nat]
         /\ \A i \in 0..(Bits - 1) : ByteStarts(byte)[i] + 1 <= ByteStarts(byte)[Bits]
<1> DEFINE p == ByteStarts(byte)
           bit(i) == Bit(byte, i)
<1>0. Bits \in Nat /\ Bits # 0
  BY CswAssumption
<1>1. /\ p \in [0..Bits -> Nat]
      /\ \A i \in 0..(Bits - 1) : p[i + 1] = p[i] + (IF bit(i) = 0 THEN 2 ELSE 4)
  BY ByteStartsAre DEF ByteLaidOut
<1> HIDE DEF p, bit
<1>2. \A i \in 0..(Bits - 1) : p[i] + 1 <= p[i + 1]
  <2> TAKE i \in 0..(Bits - 1)
  <2>1. i \in 0..Bits
    BY <1>0
  <2>2. p[i] \in Nat
    BY <1>1, <2>1
  <2> QED  BY <1>1, <2>2
<1>3. \A i \in 1..Bits : p[i - 1] <= p[i]
  <2> TAKE i \in 1..Bits
  <2>1. i - 1 \in 0..(Bits - 1) /\ (i - 1) + 1 = i /\ i - 1 \in 0..Bits /\ i \in 0..Bits
    BY <1>0
  <2>2. p[i - 1] \in Nat /\ p[i] \in Nat /\ p[i - 1] + 1 <= p[i]
    BY <1>1, <1>2, <2>1
  <2> QED  BY <2>2
<1>4. \A k, m \in 0..Bits : k <= m => p[k] <= p[m]
  BY <1>0, <1>1, <1>3, Grows
<1>5. ASSUME NEW i \in 0..(Bits - 1) PROVE p[i] + 1 <= p[Bits]
  <2>1. i \in 0..Bits /\ i + 1 \in 0..Bits /\ Bits \in 0..Bits /\ i + 1 <= Bits
    BY <1>0
  <2>2. p[i + 1] <= p[Bits]
    BY <1>4, <2>1
  <2>3. p[i] \in Nat /\ p[i + 1] \in Nat /\ p[Bits] \in Nat
    BY <1>1, <2>1
  <2> QED  BY <1>2, <2>2, <2>3
<1> QED  BY <1>1, <1>5 DEF p

(* The last thing on a tape ends where the image does.                      *)
LEMMA ItemEndsType ==
  ASSUME NEW held \in Tapes
  PROVE  /\ ItemEnds(held) \in [0..Len(held) -> Nat] /\ ItemEnds(held)[0] = 0
         /\ Len(Image[held]) = ItemEnds(held)[Len(held)]
BY ImageLaidOut, ItemWavesType DEF LaidOut

(* The things are laid one after the other. *)
LEMMA ItemAt ==
  ASSUME NEW held \in Tapes, NEW k \in 0..(Len(held) - 1)
  PROVE  /\ ItemEnds(held)[k + 1] = ItemEnds(held)[k] + Len(ItemWaves(held)[k + 1])
         /\ ItemWaves(held)[k + 1] \in Seq(Lengths)
         /\ \A j \in 1..Len(ItemWaves(held)[k + 1]) :
              Image[held][ItemEnds(held)[k] + j] = ItemWaves(held)[k + 1][j]
<1>1. Len(held) \in Nat
  BY TapesAre
<1>2. k + 1 \in 1..Len(held) /\ (k + 1) - 1 = k
  BY <1>1
<1> DEFINE o == ItemEnds(held)
           seqs == ItemWaves(held)
           n == Len(held)
           flat == Image[held]
<1>3. /\ \A m \in 1..n : o[m] = o[m - 1] + Len(seqs[m])
      /\ \A m \in 1..n : \A j \in 1..Len(seqs[m]) : flat[o[m - 1] + j] = seqs[m][j]
  <2>1. LaidOut(flat, seqs, o) /\ Len(seqs) = n
    BY ImageLaidOut, ItemWavesType
  <2> HIDE DEF o, seqs, n, flat
  <2> QED  BY <2>1 DEF LaidOut
<1>4. seqs \in Seq(Seq(Lengths)) /\ Len(seqs) = n
  BY ItemWavesType
<1> HIDE DEF o, seqs, n, flat
<1>5. seqs[k + 1] \in Seq(Lengths)
  BY <1>2, <1>4 DEF n
<1>6. o[k + 1] = o[k] + Len(seqs[k + 1])
  BY <1>2, <1>3 DEF n
<1>7. \A j \in 1..Len(seqs[k + 1]) : flat[o[k] + j] = seqs[k + 1][j]
  BY <1>2, <1>3 DEF n
<1> QED  BY <1>5, <1>6, <1>7 DEF o, seqs, flat

(* What comes later on a tape ends later.                                   *)
LEMMA ItemEndsGrow ==
  ASSUME NEW held \in Tapes
  PROVE  \A k, m \in 0..Len(held) : k <= m => ItemEnds(held)[k] <= ItemEnds(held)[m]
<1> DEFINE o == ItemEnds(held)
           n == Len(held)
<1>1. n \in Nat /\ o \in [0..n -> Nat]
  BY TapesAre, ItemEndsType
<1>2. \A k \in 1..n : o[k - 1] <= o[k]
  <2> TAKE k \in 1..n
  <2> DEFINE l == Len(ItemWaves(held)[(k - 1) + 1])
  <2>1. k - 1 \in 0..(n - 1) /\ (k - 1) + 1 = k /\ k - 1 \in 0..n
    BY <1>1
  <2>2. o[(k - 1) + 1] = o[k - 1] + l /\ ItemWaves(held)[(k - 1) + 1] \in Seq(Lengths)
    BY <2>1, ItemAt
  <2>3. l \in Nat /\ o[k - 1] \in Nat
    BY <1>1, <2>1, <2>2
  <2> HIDE DEF l, o
  <2> QED  BY <2>1, <2>2, <2>3
<1> HIDE DEF o, n
<1>3. \A k, m \in 0..n : k <= m => o[k] <= o[m]
  BY <1>1, <1>2, Grows
<1> QED  BY <1>3 DEF o, n

(* What the head meets in the things a tape holds *)
LEMMA WaveAt ==
  ASSUME NEW held \in Tapes, NEW k \in 0..(Len(held) - 1),
         NEW j \in 1..Len(ItemWaves(held)[k + 1])
  PROVE  Wave(held, ItemEnds(held)[k] + j) = ItemWaves(held)[k + 1][j]
<1> DEFINE o == ItemEnds(held)
           n == Len(held)
           l == Len(ItemWaves(held)[k + 1])
<1>1. n \in Nat /\ o \in [0..n -> Nat] /\ Len(Image[held]) = o[n]
  BY TapesAre, ItemEndsType
<1>2. k \in 0..n /\ k + 1 \in 0..n /\ n \in 0..n /\ k + 1 <= n
  BY <1>1
<1>3. o[k + 1] <= o[n]
  BY <1>2, ItemEndsGrow
<1>4. o[k + 1] = o[k] + l /\ ItemWaves(held)[k + 1] \in Seq(Lengths)
      /\ Image[held][o[k] + j] = ItemWaves(held)[k + 1][j]
  BY ItemAt
<1>5. l \in Nat /\ j \in 1..l
  BY <1>4
<1>6. o[k] \in Nat /\ o[k + 1] \in Nat /\ o[n] \in Nat
  BY <1>1, <1>2
<1> HIDE DEF l, o
<1>7. o[k] + j <= o[n]
  BY <1>3, <1>4, <1>5, <1>6
<1> QED  BY <1>1, <1>4, <1>7 DEF Wave, o

(* In a tone the head meets short half waves.                               *)
LEMMA ToneAt ==
  ASSUME NEW held \in Tapes, NEW k \in 0..(Len(held) - 1), held[k + 1].tone
  PROVE  /\ ItemEnds(held)[k + 1] = ItemEnds(held)[k] + 6
         /\ \A j \in 1..6 : Wave(held, ItemEnds(held)[k] + j) = "short"
<1> DEFINE tone == [j \in 1..6 |-> "short"]
<1>1. k + 1 \in 1..Len(held)
  BY TapesAre
<1>2. ItemWaves(held)[k + 1] = tone
  BY <1>1, ItemWavesType
<1>3. Len(tone) = 6 /\ \A j \in 1..6 : tone[j] = "short"
  OBVIOUS
<1> HIDE DEF tone
<1>4. ItemEnds(held)[k + 1] = ItemEnds(held)[k] + Len(ItemWaves(held)[k + 1])
  BY ItemAt
<1> QED  BY <1>2, <1>3, <1>4, WaveAt

(* In a byte the head meets a long half wave, the first of each of its bits *)
(* where it begins, and a short one where the stop bit begins.              *)
LEMMA ByteAt ==
  ASSUME NEW held \in Tapes, NEW k \in 0..(Len(held) - 1), ~held[k + 1].tone,
         NEW byte, byte = held[k + 1].byte
  PROVE  /\ byte \in TapeByte /\ byte \in Nat
         /\ ByteStarts(byte) \in [0..Bits -> Nat] /\ ByteStarts(byte)[0] = 2
         /\ ItemEnds(held)[k + 1] = ItemEnds(held)[k] + ByteStarts(byte)[Bits] + 4
         /\ Wave(held, ItemEnds(held)[k] + 1) = "long"
         /\ \A i \in 0..(Bits - 1) :
              /\ ByteStarts(byte)[i + 1]
                   = ByteStarts(byte)[i] + (IF Bit(byte, i) = 0 THEN 2 ELSE 4)
              /\ ByteStarts(byte)[i] + 1 <= ByteStarts(byte)[Bits]
              /\ Wave(held, ItemEnds(held)[k] + (ByteStarts(byte)[i] + 1))
                   = IF Bit(byte, i) = 0 THEN "long" ELSE "short"
         /\ Wave(held, ItemEnds(held)[k] + (ByteStarts(byte)[Bits] + 1)) = "short"
<1>1. k + 1 \in 1..Len(held)
  BY TapesAre
<1>2. byte \in TapeByte /\ byte \in Nat
  BY <1>1, TapesAre
<1> DEFINE waves == EncodedByte(byte)
           p == ByteStarts(byte)
           o == ItemEnds(held)
<1>3. ItemWaves(held)[k + 1] = waves
  BY <1>1, ItemWavesType
<1>4. ByteLaidOut(waves, byte, p)
  BY <1>2, ByteStartsAre
<1>5. p \in [0..Bits -> Nat] /\ \A i \in 0..(Bits - 1) : p[i] + 1 <= p[Bits]
  BY <1>2, StartsBeforeStop
<1>6. o[k + 1] = o[k] + Len(waves) /\ \A j \in 1..Len(waves) : Wave(held, o[k] + j) = waves[j]
  BY <1>3, ItemAt, WaveAt
<1>7. o[k] \in Nat
  <2>1. k \in 0..Len(held)
    BY TapesAre
  <2> QED  BY <2>1, ItemEndsType
<1> HIDE DEF waves, p, o
<1>8. /\ p[0] = 2 /\ waves[1] = "long"
      /\ \A i \in 0..(Bits - 1) :
           /\ p[i + 1] = p[i] + (IF Bit(byte, i) = 0 THEN 2 ELSE 4)
           /\ waves[p[i] + 1] = IF Bit(byte, i) = 0 THEN "long" ELSE "short"
      /\ Len(waves) = p[Bits] + 4 /\ waves[p[Bits] + 1] = "short"
  BY <1>4 DEF ByteLaidOut
<1>9. Bits \in Nat /\ Bits \in 0..Bits /\ p[Bits] \in Nat
  BY <1>5, CswAssumption
<1>10. 1 \in 1..Len(waves) /\ p[Bits] + 1 \in 1..Len(waves)
  BY <1>8, <1>9
<1>11. \A i \in 0..(Bits - 1) : p[i] + 1 \in 1..Len(waves)
  <2> TAKE i \in 0..(Bits - 1)
  <2>1. i \in 0..Bits
    BY <1>9
  <2>2. p[i] \in Nat /\ p[i] + 1 <= p[Bits]
    BY <1>5, <2>1
  <2> DEFINE a == p[i]
             c == p[Bits]
  <2>3. a \in Nat /\ a + 1 <= c /\ c \in Nat /\ Len(waves) = c + 4
    BY <1>8, <1>9, <2>2
  <2> HIDE DEF a, c
  <2>4. a + 1 \in 1..Len(waves)
    BY <2>3
  <2> QED  BY <2>4 DEF a
<1>12. o[k + 1] = o[k] + p[Bits] + 4
  BY <1>6, <1>7, <1>8, <1>9
<1>13. /\ Wave(held, o[k] + 1) = "long"
       /\ \A i \in 0..(Bits - 1) :
            Wave(held, o[k] + (p[i] + 1)) = IF Bit(byte, i) = 0 THEN "long" ELSE "short"
       /\ Wave(held, o[k] + (p[Bits] + 1)) = "short"
  BY <1>6, <1>8, <1>10, <1>11
<1> QED  BY <1>2, <1>5, <1>8, <1>12, <1>13 DEF p, o

(* Behind the image the head meets short half waves.                        *)
LEMMA PastTheEnd ==
  ASSUME NEW held \in Tapes, NEW i \in Nat, i > ItemEnds(held)[Len(held)]
  PROVE  Wave(held, i) = "short"
<1>1. Len(held) \in 0..Len(held)
  BY TapesAre
<1>2. Len(Image[held]) = ItemEnds(held)[Len(held)] /\ ItemEnds(held)[Len(held)] \in Nat
  BY <1>1, ItemEndsType
<1>3. ~(i <= Len(Image[held]))
  BY <1>2
<1> QED  BY <1>3 DEF Wave

-----------------------------------------------------------------------------
(* Where the decoder is on a tape (cswpoint, cintone, datbits, enddat) *)
LEMMA BytesUpToAre ==
  ASSUME NEW held \in Tapes
  PROVE  /\ BytesUpTo(held) \in [0..Len(held) -> Seq(TapeByte)]
         /\ BytesUpTo(held)[0] = <<>>
         /\ \A k \in 0..(Len(held) - 1) :
              BytesUpTo(held)[k + 1]
                = IF held[k + 1].tone THEN BytesUpTo(held)[k]
                  ELSE Append(BytesUpTo(held)[k], held[k + 1].byte)
<1> DEFINE n == Len(held)
           X == Seq(TapeByte)
           next(k, b) == IF held[k].tone THEN b ELSE Append(b, held[k].byte)
           step == [kx \in (1..n) \X X |-> next(kx[1], kx[2])]
           Is(f) == f = [k \in 0..n |->
                           IF k = 0 THEN <<>>
                           ELSE IF held[k].tone THEN f[k - 1]
                           ELSE Append(f[k - 1], held[k].byte)]
           B == CHOOSE f : Is(f)
<1>1. n \in Nat /\ <<>> \in X
  BY TapesAre
<1>2. step \in [(1..n) \X X -> X]
  <2>1. \A k \in 1..n, b \in X : next(k, b) \in X
    BY TapesAre
  <2> HIDE DEF next, X, n
  <2> QED  BY <2>1
<1>3. PICK g : Iterates(g, n, X, <<>>, step)
  <2> DEFINE x0 == <<>>
  <2>1. n \in Nat /\ x0 \in X /\ step \in [(1..n) \X X -> X]
    BY <1>1, <1>2
  <2> HIDE DEF step, X, x0, n
  <2>2. \E f : Iterates(f, n, X, x0, step)
    BY <2>1, Recursion
  <2> QED  BY <2>2 DEF x0
<1>4. g \in [0..n -> X] /\ g[0] = <<>> /\ \A k \in 1..n : g[k] = next(k, g[k - 1])
  <2> HIDE DEF next, X, n
  <2>1. g \in [0..n -> X] /\ g[0] = <<>>
    BY <1>3 DEF Iterates
  <2>2. ASSUME NEW k \in 1..n PROVE g[k] = next(k, g[k - 1])
    <3>1. k - 1 \in 0..n /\ g[k - 1] \in X
      BY <1>1, <2>1
    <3>2. g[k] = step[<<k, g[k - 1]>>]
      BY <1>3 DEF Iterates
    <3>3. <<k, g[k - 1]>> \in (1..n) \X X
      BY <3>1
    <3> QED  BY <3>2, <3>3
  <2> QED  BY <2>1, <2>2
<1> HIDE DEF step, X
<1>5. Is(g)
  <2>1. \A k \in 0..n : g[k] = IF k = 0 THEN <<>>
                                ELSE IF held[k].tone THEN g[k - 1]
                                ELSE Append(g[k - 1], held[k].byte)
    <3> TAKE k \in 0..n
    <3>1. k # 0 => k \in 1..n
      BY <1>1
    <3> QED  BY <1>4, <3>1
  <2>2. g = [k \in 0..n |-> g[k]]
    BY <1>4
  <2> QED  BY <2>1, <2>2
<1>6. Is(B)
  <2> HIDE DEF Is
  <2> QED  BY <1>5
<1>7. BytesUpTo(held) = B
  BY DEF BytesUpTo
<1> HIDE DEF B
<1>8. \A k \in 0..n : B[k] = g[k]
  <2> DEFINE S == {k \in 0..n : B[k] = g[k]}
  <2>1. 0 \in S
    <3>1. 0 \in 0..n
      BY <1>1
    <3> QED  BY <3>1, <1>4, <1>6
  <2>2. ASSUME NEW k \in 0..(n - 1), k \in S PROVE k + 1 \in S
    <3>1. k + 1 \in 0..n /\ k + 1 \in 1..n /\ k + 1 # 0 /\ (k + 1) - 1 = k
      BY <1>1
    <3>2. B[k + 1] = IF held[k + 1].tone THEN B[k] ELSE Append(B[k], held[k + 1].byte)
      BY <1>6, <3>1
    <3>3. g[k + 1] = IF held[k + 1].tone THEN g[k] ELSE Append(g[k], held[k + 1].byte)
      BY <1>4, <3>1
    <3> QED  BY <2>2, <3>1, <3>2, <3>3
  <2> HIDE DEF S, n
  <2>3. \A k \in 0..n : k \in S
    BY <1>1, <2>1, <2>2, UpTo
  <2> QED  BY <2>3 DEF S
<1>9. DOMAIN B = 0..n /\ B = [k \in 0..n |-> B[k]]
  BY <1>6
<1>10. B = g
  BY <1>4, <1>8, <1>9
<1>11. \A k \in 0..(n - 1) : g[k + 1] = next(k + 1, g[k])
  <2> TAKE k \in 0..(n - 1)
  <2>1. k + 1 \in 1..n /\ (k + 1) - 1 = k
    BY <1>1
  <2> HIDE DEF next
  <2> QED  BY <1>4, <2>1
<1> QED  BY <1>4, <1>7, <1>10, <1>11 DEF X

(* Where the decoder is on a tape, and what it has handed over *)
InTone(held, point, got) ==
  \E k \in 0..Len(held) :
    /\ got = BytesUpTo(held)[k]
    /\ \/ point = ItemEnds(held)[k] + 1
       \/ /\ k < Len(held) /\ held[k + 1].tone
          /\ \E j \in 1..6 : point = ItemEnds(held)[k] + j
       \/ k = Len(held) /\ point > ItemEnds(held)[k]

InByte(held, point, bits, byte, got) ==
  \E k \in 0..(Len(held) - 1) :
    /\ ~held[k + 1].tone /\ got = BytesUpTo(held)[k]
    /\ bits \in 0..(Bits - 1) /\ Shifted(held[k + 1].byte, bits, byte)
    /\ point = ItemEnds(held)[k] + (ByteStarts(held[k + 1].byte)[bits] + 1)

AtStop(held, point, got) ==
  \E k \in 0..(Len(held) - 1) :
    /\ ~held[k + 1].tone /\ got = BytesUpTo(held)[k + 1]
    /\ point = ItemEnds(held)[k] + (ByteStarts(held[k + 1].byte)[Bits] + 1)

AtNext(held, point, got) ==
  \E k \in 0..Len(held) :
    got = BytesUpTo(held)[k] /\ point = ItemEnds(held)[k] + 1

(* A decoder before the next thing may as well be in a tone.                *)
LEMMA NextIsTone ==
  ASSUME NEW held, NEW point, NEW got, AtNext(held, point, got)
  PROVE  InTone(held, point, got)
BY DEF AtNext, InTone

(* A short half wave leaves a decoder in its tone.                          *)
LEMMA ToneShort ==
  ASSUME NEW held \in Tapes, NEW point \in Nat, NEW got, InTone(held, point, got),
         Wave(held, point) # "long"
  PROVE  InTone(held, point + 1, got)
<1> DEFINE n == Len(held)
           o == ItemEnds(held)
           B == BytesUpTo(held)
<1>1. PICK k \in 0..n :
        /\ got = B[k]
        /\ \/ point = o[k] + 1
           \/ /\ k < n /\ held[k + 1].tone
              /\ \E j \in 1..6 : point = o[k] + j
           \/ k = n /\ point > o[k]
  BY DEF InTone
<1>2. n \in Nat /\ o \in [0..n -> Nat] /\ o[k] \in Nat
  BY TapesAre, ItemEndsType
<1>3. CASE k = n
  <2>1. point + 1 > o[k]
    <3> HIDE DEF o, n, B
    <3> QED  BY <1>1, <1>2, <1>3
  <2> QED  BY <1>1, <1>3, <2>1 DEF InTone
<1>4. CASE k # n
  <2>1. k \in 0..(n - 1) /\ k + 1 \in 0..n /\ k < n
    <3> HIDE DEF n
    <3> QED  BY <1>2, <1>4
  <2>2. CASE held[k + 1].tone
    <3>1. PICK j \in 1..6 : point = o[k] + j
      BY <1>1, <1>4
    <3>2. o[k + 1] = o[k] + 6
      BY <2>1, <2>2, ToneAt
    <3>3. CASE j = 6
      <4>1. point + 1 = o[k + 1] + 1
        <5> HIDE DEF o
        <5> QED  BY <3>1, <3>2, <3>3, <1>2
      <4>2. B[k + 1] = got
        BY <1>1, <2>1, <2>2, BytesUpToAre
      <4> QED  BY <4>1, <4>2, <2>1 DEF InTone
    <3>4. CASE j # 6
      <4>1. j + 1 \in 1..6 /\ point + 1 = o[k] + (j + 1)
        <5> HIDE DEF o
        <5> QED  BY <3>1, <3>4, <1>2
      <4> QED  BY <4>1, <1>1, <2>1, <2>2 DEF InTone
    <3> QED  BY <3>3, <3>4
  <2>3. CASE ~held[k + 1].tone
    <3>1. Wave(held, o[k] + 1) = "long"
      BY <2>1, <2>3, ByteAt
    <3>2. point = o[k] + 1
      BY <1>1, <1>4, <2>3
    <3> QED  BY <3>1, <3>2
  <2> QED  BY <2>2, <2>3
<1> QED  BY <1>3, <1>4

(* A long half wave in a tone begins the next byte.                         *)
LEMMA ToneLong ==
  ASSUME NEW held \in Tapes, NEW point \in Nat, NEW got, InTone(held, point, got),
         Wave(held, point) = "long"
  PROVE  InByte(held, point + 2, 0, 0, got)
<1> DEFINE n == Len(held)
           o == ItemEnds(held)
           B == BytesUpTo(held)
<1>1. PICK k \in 0..n :
        /\ got = B[k]
        /\ \/ point = o[k] + 1
           \/ /\ k < n /\ held[k + 1].tone
              /\ \E j \in 1..6 : point = o[k] + j
           \/ k = n /\ point > o[k]
  BY DEF InTone
<1>2. n \in Nat /\ o \in [0..n -> Nat] /\ o[k] \in Nat
  BY TapesAre, ItemEndsType
<1>3. k # n
  <2> SUFFICES ASSUME k = n PROVE FALSE
    OBVIOUS
  <2>1. point > o[n]
    <3> HIDE DEF o, n, B
    <3> QED  BY <1>1, <1>2
  <2> QED  BY <2>1, PastTheEnd
<1>4. k \in 0..(n - 1) /\ k < n
  <2> HIDE DEF n
  <2> QED  BY <1>2, <1>3
<1>5. ~held[k + 1].tone
  <2> SUFFICES ASSUME held[k + 1].tone PROVE FALSE
    OBVIOUS
  <2>1. PICK j \in 1..6 : point = o[k] + j
    BY <1>1, <1>3
  <2> QED  BY <2>1, <1>4, ToneAt
<1>6. point = o[k] + 1
  BY <1>1, <1>3, <1>5
<1> DEFINE byte == held[k + 1].byte
           p == ByteStarts(byte)
<1>7. byte \in Nat /\ p[0] = 2
  BY <1>4, <1>5, ByteAt
<1>8. Shifted(byte, 0, 0) /\ 0 \in 0..(Bits - 1)
  BY <1>7, ShiftedNone, CswAssumption
<1>9. point + 2 = o[k] + (p[0] + 1)
  <2> HIDE DEF o, p
  <2> QED  BY <1>2, <1>6, <1>7
<1> QED  BY <1>1, <1>4, <1>5, <1>8, <1>9 DEF InByte

(* The first half wave of a bit brings the byte one bit on; the last of     *)
(* them makes it the byte of the tape, and the stop bit is next.            *)
LEMMA BitStep ==
  ASSUME NEW held \in Tapes, NEW point \in Nat, NEW bits, NEW e, NEW got,
         InByte(held, point, bits, e, got),
         NEW more, more = (e \div 2) + (IF Wave(held, point) = "long" THEN 0
                                        ELSE 2^(Bits - 1)),
         NEW next, next = point + (IF Wave(held, point) = "long" THEN 2 ELSE 4)
  PROVE  /\ bits + 1 # Bits => InByte(held, next, bits + 1, more, got)
         /\ bits + 1 = Bits => AtStop(held, next, got \o <<more>>)
<1> DEFINE n == Len(held)
           o == ItemEnds(held)
           B == BytesUpTo(held)
<1>1. PICK k \in 0..(n - 1) :
        /\ ~held[k + 1].tone /\ got = B[k]
        /\ bits \in 0..(Bits - 1) /\ Shifted(held[k + 1].byte, bits, e)
        /\ point = o[k] + (ByteStarts(held[k + 1].byte)[bits] + 1)
  BY DEF InByte
<1> DEFINE byte == held[k + 1].byte
           p == ByteStarts(byte)
<1>2. n \in Nat /\ k \in 0..n /\ Bits \in Nat /\ Bits # 0 /\ o[k] \in Nat
  <2>1. n \in Nat /\ k \in 0..n
    BY TapesAre
  <2> QED  BY <2>1, ItemEndsType, CswAssumption
<1>3. /\ byte \in TapeByte /\ byte \in Nat
      /\ p \in [0..Bits -> Nat]
      /\ p[bits + 1] = p[bits] + (IF Bit(byte, bits) = 0 THEN 2 ELSE 4)
      /\ Wave(held, point) = IF Bit(byte, bits) = 0 THEN "long" ELSE "short"
  BY <1>1, ByteAt
<1>4. Wave(held, point) = "long" <=> Bit(byte, bits) = 0
  BY <1>3
<1>5. Shifted(byte, bits + 1, more)
  <2>1. more = (e \div 2) + (IF Bit(byte, bits) = 0 THEN 0 ELSE 2^(Bits - 1))
    BY <1>4
  <2> HIDE DEF byte
  <2>2. Shifted(byte, bits, e)
    BY <1>1 DEF byte
  <2> QED  BY <1>1, <1>3, <2>1, <2>2, ShiftedMore
<1>6. next = o[k] + (p[bits + 1] + 1)
  <2>1. next = point + (IF Bit(byte, bits) = 0 THEN 2 ELSE 4)
    BY <1>4
  <2>2. bits \in 0..Bits /\ p[bits] \in Nat
    BY <1>1, <1>2, <1>3
  <2>3. point = o[k] + (p[bits] + 1)
    BY <1>1
  <2> DEFINE a == o[k]
             b == p[bits]
             c == p[bits + 1]
             w == IF Bit(byte, bits) = 0 THEN 2 ELSE 4
  <2>4. next = point + w /\ point = a + (b + 1) /\ c = b + w
        /\ a \in Nat /\ b \in Nat /\ w \in Nat
    BY <1>2, <1>3, <2>1, <2>2, <2>3
  <2> HIDE DEF a, b, c, w
  <2>5. next = a + (c + 1)
    BY <2>4
  <2> QED  BY <2>5 DEF a, c
<1>7. CASE bits + 1 # Bits
  <2>1. bits + 1 \in 0..(Bits - 1)
    BY <1>1, <1>2, <1>7
  <2> QED  BY <1>1, <1>5, <1>6, <1>7, <2>1 DEF InByte
<1>8. CASE bits + 1 = Bits
  <2>1. more = byte
    <3>1. Shifted(byte, Bits, more)
      BY <1>5, <1>8
    <3> HIDE DEF byte
    <3> QED  BY <1>3, <3>1, ShiftedAll
  <2>2. B[k + 1] = Append(B[k], byte) /\ B[k] \in Seq(TapeByte)
    BY <1>1, <1>2, BytesUpToAre
  <2>3. got \o <<more>> = B[k + 1]
    <3> HIDE DEF B, byte
    <3> QED  BY <1>1, <1>3, <2>1, <2>2
  <2> QED  BY <1>1, <1>6, <1>8, <2>3 DEF AtStop
<1> QED  BY <1>7, <1>8

(* The stop bit is short, and after it the next thing begins.               *)
LEMMA StopStep ==
  ASSUME NEW held \in Tapes, NEW point \in Nat, NEW got, AtStop(held, point, got)
  PROVE  Wave(held, point) # "long" /\ AtNext(held, point + 4, got)
<1> DEFINE n == Len(held)
           o == ItemEnds(held)
           B == BytesUpTo(held)
<1>1. PICK k \in 0..(n - 1) :
        /\ ~held[k + 1].tone /\ got = B[k + 1]
        /\ point = o[k] + (ByteStarts(held[k + 1].byte)[Bits] + 1)
  BY DEF AtStop
<1> DEFINE byte == held[k + 1].byte
           p == ByteStarts(byte)
<1>2. k + 1 \in 0..n /\ o[k] \in Nat
  <2>1. n \in Nat /\ k \in 0..n /\ k + 1 \in 0..n
    BY TapesAre
  <2> QED  BY <2>1, ItemEndsType
<1>3. /\ p \in [0..Bits -> Nat] /\ Wave(held, point) = "short"
      /\ o[k + 1] = o[k] + p[Bits] + 4
  BY <1>1, ByteAt
<1>4. p[Bits] \in Nat
  BY <1>3, CswAssumption
<1>5. point + 4 = o[k + 1] + 1
  <2>1. point = o[k] + (p[Bits] + 1)
    BY <1>1
  <2> HIDE DEF o, p
  <2> QED  BY <2>1, <1>2, <1>3, <1>4
<1> QED  BY <1>1, <1>2, <1>3, <1>5 DEF AtNext

-----------------------------------------------------------------------------
(* A half wave of pollcsw *)
DecoderStates ==
  [ point : Nat \ {0}, skip : 0..12, tone : BOOLEAN, data : BOOLEAN,
    bits : 0..ToneNext, byte : TapeByte, got : Seq(TapeByte), over : BOOLEAN ]

(* The numbers datbits goes through are different.                          *)
LEMMA BitsAre ==
  /\ Bits \in Nat /\ Bits # 0 /\ StopNext \in Nat /\ ToneNext \in Nat
  /\ StopNext = Bits + 1 /\ ToneNext = Bits + 2 /\ 0 \in TapeByte
<1>1. Bits \in Nat /\ Bits # 0
  BY CswAssumption
<1>2. 2^Bits \in Nat \ {0}
  BY <1>1, CswPowers
<1> QED  BY <1>1, <1>2 DEF StopNext, ToneNext, TapeByte

(* Shifting keeps a byte a byte.                                            *)
LEMMA ShiftedType ==
  ASSUME NEW e \in TapeByte
  PROVE  /\ (e \div 2) \in TapeByte /\ (e \div 2) + 0 \in TapeByte
         /\ (e \div 2) + 2^(Bits - 1) \in TapeByte
<1> DEFINE m == 2^(Bits - 1)
<1>1. Bits - 1 \in 0..(Bits - 1) /\ Bits - 1 \in 0..Bits /\ (Bits - 1) + 1 = Bits
  BY CswAssumption
<1>2. m \in Nat /\ 2^Bits = 2 * m
  BY <1>1, CswPowers
<1> HIDE DEF m
<1>3. e \in 0..(2 * m - 1)
  BY <1>2 DEF TapeByte
<1>4. (e \div 2) \in 0..(m - 1)
  BY <1>2, <1>3
<1> QED  BY <1>2, <1>4 DEF TapeByte, m

(* The waves that are skipped, none of them at normal speed.                *)
LEMMA FastType ==
  /\ Fast(6) \in 0..12 /\ Fast(12) \in 0..12
  /\ ~tapefast => Fast(6) = 0 /\ Fast(12) = 0
BY DEF Fast

(* A decoder by its parts *)
DecoderNames == {"point", "skip", "tone", "data", "bits", "byte", "got", "over"}

DecoderParts(d, point, skip, tone, data, bits, byte, got, over) ==
  /\ d = [i \in DecoderNames |-> d[i]]
  /\ d.point = point /\ d.skip = skip /\ d.tone = tone /\ d.data = data
  /\ d.bits = bits /\ d.byte = byte /\ d.got = got /\ d.over = over

(* A decoder has its parts.                                                 *)
LEMMA PartsOf ==
  ASSUME NEW d \in DecoderStates
  PROVE  DecoderParts(d, d.point, d.skip, d.tone, d.data, d.bits, d.byte, d.got, d.over)
BY DEF DecoderParts, DecoderNames, DecoderStates

(* The head moves on by one half wave.                                      *)
LEMMA PartsMoved ==
  ASSUME NEW d, NEW p, NEW s, NEW t, NEW da, NEW bi, NEW by, NEW g, NEW ov,
         DecoderParts(d, p, s, t, da, bi, by, g, ov)
  PROVE  DecoderParts([d EXCEPT !.point = @ + 1], p + 1, s, t, da, bi, by, g, ov)
BY DEF DecoderParts, DecoderNames

(* BitPassed moves the head behind the bit and sets what is skipped.        *)
LEMMA PartsPassed ==
  ASSUME NEW d, NEW p, NEW s, NEW t, NEW da, NEW bi, NEW by, NEW g, NEW ov,
         DecoderParts(d, p, s, t, da, bi, by, g, ov), NEW long
  PROVE  DecoderParts(BitPassed(d, long), p + (IF long THEN 1 ELSE 3),
               Fast(IF long THEN 6 ELSE 12), t, da, bi, by, g, ov)
BY DEF DecoderParts, DecoderNames, BitPassed

(* A skipped half wave is counted.                                          *)
LEMMA PartsSkipped ==
  ASSUME NEW d, NEW p, NEW s, NEW t, NEW da, NEW bi, NEW by, NEW g, NEW ov,
         DecoderParts(d, p, s, t, da, bi, by, g, ov)
  PROVE  DecoderParts([d EXCEPT !.skip = @ - 1], p, s - 1, t, da, bi, by, g, ov)
BY DEF DecoderParts, DecoderNames

(* The beginning of a byte leaves the tone with no bits read.               *)
LEMMA PartsStart ==
  ASSUME NEW d, NEW p, NEW s, NEW t, NEW da, NEW bi, NEW by, NEW g, NEW ov,
         DecoderParts(d, p, s, t, da, bi, by, g, ov)
  PROVE  DecoderParts([d EXCEPT !.tone = FALSE, !.data = TRUE, !.bits = 0, !.byte = 0],
               p, s, FALSE, TRUE, 0, 0, g, ov)
BY DEF DecoderParts, DecoderNames

(* A bit is shifted into the byte and counted.                              *)
LEMMA PartsShifted ==
  ASSUME NEW d, NEW p, NEW s, NEW t, NEW da, NEW bi, NEW by, NEW g, NEW ov,
         DecoderParts(d, p, s, t, da, bi, by, g, ov), NEW x
  PROVE  DecoderParts([d EXCEPT !.byte = (@ \div 2) + x, !.bits = @ + 1],
               p, s, t, da, bi + 1, (by \div 2) + x, g, ov)
BY DEF DecoderParts, DecoderNames

(* The last bit hands the byte over and ends the poll.                      *)
LEMMA PartsHanded ==
  ASSUME NEW d, NEW p, NEW s, NEW t, NEW da, NEW bi, NEW by, NEW g, NEW ov,
         DecoderParts(d, p, s, t, da, bi, by, g, ov)
  PROVE  DecoderParts([d EXCEPT !.bits = StopNext, !.got = <<d.byte>>, !.over = TRUE],
               p, s, t, da, StopNext, by, <<by>>, TRUE)
BY DEF DecoderParts, DecoderNames

(* After the stop bit the next thing is a tone or a byte.                   *)
LEMMA PartsStopped ==
  ASSUME NEW d, NEW p, NEW s, NEW t, NEW da, NEW bi, NEW by, NEW g, NEW ov,
         DecoderParts(d, p, s, t, da, bi, by, g, ov)
  PROVE  DecoderParts([d EXCEPT !.bits = ToneNext], p, s, t, da, ToneNext, by, g, ov)
BY DEF DecoderParts, DecoderNames

(* BackInTone is in a tone again and ends the poll.                         *)
LEMMA PartsBack ==
  ASSUME NEW d, NEW p, NEW s, NEW t, NEW da, NEW bi, NEW by, NEW g, NEW ov,
         DecoderParts(d, p, s, t, da, bi, by, g, ov)
  PROVE  DecoderParts(BackInTone(d), p, s, TRUE, FALSE, 0, by, g, TRUE)
BY DEF DecoderParts, DecoderNames, BackInTone

(* pollcsw, a half wave to be skipped: the head moves and nothing else.     *)
LEMMA SkipWave ==
  ASSUME NEW d \in DecoderStates, d.skip > 0
  PROVE  DecoderParts(HalfWave(d), d.point + 1, d.skip - 1, d.tone, d.data, d.bits,
               d.byte, d.got, d.over)
<1> DEFINE m == [d EXCEPT !.point = @ + 1]
<1>1. d.skip # 0
  BY DEF DecoderStates
<1>2. HalfWave(d) = [m EXCEPT !.skip = @ - 1]
  BY <1>1 DEF HalfWave
<1>3. DecoderParts(m, d.point + 1, d.skip, d.tone, d.data, d.bits, d.byte, d.got, d.over)
  BY PartsOf, PartsMoved
<1> HIDE DEF m
<1> QED  BY <1>2, <1>3, PartsSkipped

(* What the half wave that begins a byte makes of a decoder *)
Started(d, h) ==
  DecoderParts(h, d.point + 2, Fast(6), FALSE, TRUE, 0, 0, d.got, d.over)

(* StartBit begins a byte two half waves on.                                *)
LEMMA StartBitIs ==
  ASSUME NEW d \in DecoderStates
  PROVE  Started(d, StartBit([d EXCEPT !.point = @ + 1]))
<1> DEFINE m == [d EXCEPT !.point = @ + 1]
           b == BitPassed(m, TRUE)
<1>1. DecoderParts(m, d.point + 1, d.skip, d.tone, d.data, d.bits, d.byte, d.got, d.over)
  BY PartsOf, PartsMoved
<1>2. d.point + 1 + 1 = d.point + 2
  BY DEF DecoderStates
<1> HIDE DEF m
<1>3. DecoderParts(b, (d.point + 1) + (IF TRUE THEN 1 ELSE 3), Fast(IF TRUE THEN 6 ELSE 12),
            d.tone, d.data, d.bits, d.byte, d.got, d.over)
  BY <1>1, PartsPassed
<1>4. DecoderParts(b, d.point + 2, Fast(6), d.tone, d.data, d.bits, d.byte, d.got, d.over)
  <2> HIDE DEF b
  <2> QED  BY <1>2, <1>3
<1>5. StartBit(m) = [b EXCEPT !.tone = FALSE, !.data = TRUE, !.bits = 0, !.byte = 0]
  BY DEF StartBit
<1> HIDE DEF b
<1>6. Started(d, [b EXCEPT !.tone = FALSE, !.data = TRUE, !.bits = 0, !.byte = 0])
  BY <1>4, PartsStart DEF Started
<1>7. Started(d, StartBit(m))
  BY <1>5, <1>6
<1> QED  BY <1>7 DEF m

(* pollcsw, in a tone: a long half wave begins a byte, a short one does not. *)
LEMMA ToneWave ==
  ASSUME NEW d \in DecoderStates, d.skip = 0, d.tone
  PROVE  /\ At(d.point) = "long" => Started(d, HalfWave(d))
         /\ At(d.point) # "long" =>
              DecoderParts(HalfWave(d), d.point + 1, d.skip, d.tone, d.data, d.bits,
                    d.byte, d.got, d.over)
<1> DEFINE m == [d EXCEPT !.point = @ + 1]
<1>1. ~(d.skip > 0)
  BY DEF DecoderStates
<1>2. HalfWave(d) = IF At(d.point) = "long" THEN StartBit(m) ELSE m
  BY <1>1 DEF HalfWave
<1>3. DecoderParts(m, d.point + 1, d.skip, d.tone, d.data, d.bits, d.byte, d.got, d.over)
  BY PartsOf, PartsMoved
<1>4. Started(d, StartBit(m))
  BY StartBitIs
<1> HIDE DEF m
<1> QED  BY <1>2, <1>3, <1>4

(* One more bit of a byte *)
Shifting(d) ==
  (d.byte \div 2) + (IF At(d.point) = "long" THEN 0 ELSE 2^(Bits - 1))
PointAfter(d) == d.point + (IF At(d.point) = "long" THEN 2 ELSE 4)
SkipAfter(d) == Fast(IF At(d.point) = "long" THEN 6 ELSE 12)

(* After any bit the head is where the next one begins.                     *)
LEMMA PassedOn ==
  ASSUME NEW d \in DecoderStates
  PROVE  DecoderParts(BitPassed([d EXCEPT !.point = @ + 1], At(d.point) = "long"),
               PointAfter(d), SkipAfter(d), d.tone, d.data, d.bits, d.byte, d.got, d.over)
<1> DEFINE long == At(d.point) = "long"
           m == [d EXCEPT !.point = @ + 1]
           q == (d.point + 1) + (IF long THEN 1 ELSE 3)
           f == Fast(IF long THEN 6 ELSE 12)
<1>1. q = PointAfter(d) /\ f = SkipAfter(d)
  BY DEF PointAfter, SkipAfter, DecoderStates
<1>2. DecoderParts(m, d.point + 1, d.skip, d.tone, d.data, d.bits, d.byte, d.got, d.over)
  BY PartsOf, PartsMoved
<1> HIDE DEF long, m
<1>3. DecoderParts(BitPassed(m, long), q, f, d.tone, d.data, d.bits, d.byte, d.got, d.over)
  BY <1>2, PartsPassed
<1> HIDE DEF q, f
<1> QED  BY <1>1, <1>3 DEF long, m

(* What a bit of the byte makes of a decoder, and what its last one does *)
MoreBits(d, h) ==
  DecoderParts(h, PointAfter(d), SkipAfter(d), d.tone, d.data, d.bits + 1, Shifting(d), d.got, d.over)
LastBit(d, h) ==
  DecoderParts(h, PointAfter(d), SkipAfter(d), d.tone, d.data, StopNext, Shifting(d), <<Shifting(d)>>, TRUE)

(* pollcsw, in a byte: a bit more, and after the last the byte.             *)
LEMMA BitWave ==
  ASSUME NEW d \in DecoderStates, d.skip = 0, ~d.tone, d.data, d.bits < StopNext
  PROVE  /\ d.bits + 1 = Bits => LastBit(d, HalfWave(d))
         /\ d.bits + 1 # Bits => MoreBits(d, HalfWave(d))
<1> DEFINE long == At(d.point) = "long"
           m == [d EXCEPT !.point = @ + 1]
           b == BitPassed(m, long)
           h == DataBit(m, long)
           x == IF long THEN 0 ELSE 2^(Bits - 1)
<1>1. ~(d.skip > 0)
  BY DEF DecoderStates
<1>2. HalfWave(d) = HandOver(h)
  <2>1. ~(d.skip > 0) /\ d.skip = 0 /\ ~d.tone /\ d.data /\ d.bits < StopNext
        /\ d.bits # StopNext /\ d.bits # ToneNext
    BY <1>1, BitsAre DEF DecoderStates
  <2>2. HalfWave(d) = HandOver(DataBit(m, long))
    BY <2>1 DEF HalfWave
  <2> QED  BY <2>2 DEF h
<1>3. DecoderParts(b, PointAfter(d), SkipAfter(d), d.tone, d.data, d.bits, d.byte, d.got, d.over)
  BY PassedOn
<1>4. h = [b EXCEPT !.byte = (@ \div 2) + x, !.bits = @ + 1]
  BY DEF DataBit
<1>5. Shifting(d) = (d.byte \div 2) + x
  BY DEF Shifting
<1> HIDE DEF b, x, h, m, long
<1>6. DecoderParts(h, PointAfter(d), SkipAfter(d), d.tone, d.data, d.bits + 1, (d.byte \div 2) + x,
            d.got, d.over)
  BY <1>3, <1>4, PartsShifted
<1>7. MoreBits(d, h)
  BY <1>5, <1>6 DEF MoreBits
<1>8. h.bits = d.bits + 1 /\ h.byte = Shifting(d)
  BY <1>7 DEF MoreBits, DecoderParts
<1>9. LastBit(d, [h EXCEPT !.bits = StopNext, !.got = <<h.byte>>, !.over = TRUE])
  BY <1>7, PartsHanded DEF MoreBits, LastBit
<1> QED  BY <1>2, <1>7, <1>8, <1>9 DEF HandOver

AfterStop(d, h) ==
  DecoderParts(h, PointAfter(d), SkipAfter(d), d.tone, d.data, ToneNext, d.byte, d.got, d.over)

(* pollcsw, at the stop bit: it is passed whatever it is.                   *)
LEMMA StopWave ==
  ASSUME NEW d \in DecoderStates, d.skip = 0, ~d.tone, d.data, d.bits = StopNext
  PROVE  AfterStop(d, HalfWave(d))
<1> DEFINE m == [d EXCEPT !.point = @ + 1]
           b == BitPassed(m, At(d.point) = "long")
<1>1. ~(d.skip > 0) /\ ~(d.bits < StopNext)
  BY BitsAre DEF DecoderStates
<1>2. HalfWave(d) = StopBit(m, At(d.point) = "long")
  BY <1>1, BitsAre DEF HalfWave
<1>3. StopBit(m, At(d.point) = "long") = [b EXCEPT !.bits = ToneNext]
  BY DEF StopBit
<1>4. DecoderParts(b, PointAfter(d), SkipAfter(d), d.tone, d.data, d.bits, d.byte, d.got, d.over)
  BY PassedOn
<1> DEFINE h == StopBit(m, At(d.point) = "long")
<1> HIDE DEF b
<1>5. AfterStop(d, h)
  <2> HIDE DEF h
  <2>1. h = [b EXCEPT !.bits = ToneNext]
    BY <1>3 DEF h
  <2> QED  BY <2>1, <1>4, PartsStopped DEF AfterStop
<1> HIDE DEF h, m
<1> QED  BY <1>2, <1>5 DEF h

InToneAgain(d, h) == DecoderParts(h, d.point + 1, d.skip, TRUE, FALSE, 0, d.byte, d.got, TRUE)

(* pollcsw, after a stop bit: a byte begins, or the tone is back.           *)
LEMMA NextWave ==
  ASSUME NEW d \in DecoderStates, d.skip = 0, ~d.tone, d.data, d.bits = ToneNext
  PROVE  /\ At(d.point) = "long" => Started(d, HalfWave(d))
         /\ At(d.point) # "long" => InToneAgain(d, HalfWave(d))
<1> DEFINE m == [d EXCEPT !.point = @ + 1]
<1>1. ~(d.skip > 0) /\ ~(d.bits < StopNext) /\ d.bits # StopNext
  BY BitsAre DEF DecoderStates
<1>2. HalfWave(d) = IF At(d.point) = "long" THEN StartBit(m) ELSE BackInTone(m)
  BY <1>1 DEF HalfWave
<1>3. DecoderParts(m, d.point + 1, d.skip, d.tone, d.data, d.bits, d.byte, d.got, d.over)
  BY PartsOf, PartsMoved
<1>4. Started(d, StartBit(m))
  BY StartBitIs
<1> HIDE DEF m
<1>5. InToneAgain(d, BackInTone(m))
  BY <1>3, PartsBack DEF InToneAgain
<1> QED  BY <1>2, <1>4, <1>5

Follows(held, point, tone, bits, byte, got) ==
  \/ tone /\ InTone(held, point, got)
  \/ (~tone) /\ bits < Bits /\ InByte(held, point, bits, byte, got)
  \/ (~tone) /\ bits = StopNext /\ AtStop(held, point, got)
  \/ (~tone) /\ bits = ToneNext /\ AtNext(held, point, got)

SoundDecoder(d) ==
  /\ d \in DecoderStates /\ (d.data <=> ~d.tone)
  /\ ~tapefast => d.skip = 0
  /\ ~d.over => d.got = <<>>

OnTape(d) ==
  ~tapefast /\ clean =>
    Follows(tape, d.point, d.tone, d.bits, d.byte, received \o d.got)

(* All that SoundDecoder asks of a decoder, field by field *)
SoundFields(d) ==
  /\ d = [i \in DecoderNames |-> d[i]]
  /\ d.point \in Nat \ {0} /\ d.skip \in 0..12 /\ d.tone \in BOOLEAN
  /\ d.data \in BOOLEAN /\ d.bits \in 0..ToneNext /\ d.byte \in TapeByte
  /\ d.got \in Seq(TapeByte) /\ d.over \in BOOLEAN
  /\ (d.data <=> ~d.tone)
  /\ (~tapefast => d.skip = 0)
  /\ (~d.over => d.got = <<>>)

(* A decoder with such fields is sound.                                     *)
LEMMA KeptSound ==
  ASSUME NEW d, SoundFields(d) PROVE SoundDecoder(d)
<1>1. d \in DecoderStates
  BY DEF SoundFields, DecoderNames, DecoderStates
<1> QED  BY <1>1 DEF SoundFields, SoundDecoder

(* A half wave leaves a sound decoder sound.                                *)
LEMMA HalfWaveSound ==
  ASSUME NEW d, SoundDecoder(d), ~d.over PROVE SoundDecoder(HalfWave(d))
<1>1. d \in DecoderStates /\ d.got = <<>> /\ (d.data <=> ~d.tone) /\ (~tapefast => d.skip = 0)
  BY DEF SoundDecoder
<1>2. /\ d.point \in Nat \ {0} /\ d.skip \in 0..12 /\ d.bits \in 0..ToneNext
      /\ d.byte \in TapeByte /\ d.tone \in BOOLEAN /\ d.data \in BOOLEAN
      /\ d.got \in Seq(TapeByte) /\ d.over \in BOOLEAN
  BY <1>1 DEF DecoderStates
<1>3. Shifting(d) \in TapeByte /\ SkipAfter(d) \in 0..12 /\ PointAfter(d) \in Nat \ {0}
      /\ (~tapefast => SkipAfter(d) = 0) /\ <<Shifting(d)>> \in Seq(TapeByte)
      /\ d.point + 1 \in Nat \ {0} /\ d.point + 2 \in Nat \ {0}
  <2>1. Shifting(d) \in TapeByte
    BY <1>2, ShiftedType DEF Shifting
  <2>2. SkipAfter(d) \in 0..12 /\ (~tapefast => SkipAfter(d) = 0)
    BY FastType DEF SkipAfter
  <2>3. PointAfter(d) \in Nat \ {0} /\ d.point + 1 \in Nat \ {0} /\ d.point + 2 \in Nat \ {0}
    BY <1>2 DEF PointAfter
  <2> QED  BY <2>1, <2>2, <2>3
<1>4. 0 \in 0..ToneNext /\ StopNext \in 0..ToneNext /\ ToneNext \in 0..ToneNext
      /\ 0 \in TapeByte
  BY BitsAre
<1>5. ASSUME NEW h, Started(d, h) PROVE SoundDecoder(h)
  BY <1>1, <1>2, <1>3, <1>4, FastType, <1>5, KeptSound DEF Started, DecoderParts, SoundFields
<1>6. CASE d.skip > 0
  <2>1. d.skip - 1 \in 0..12 /\ tapefast
    BY <1>1, <1>2, <1>6
  <2> QED  BY <1>1, <1>2, <1>3, <1>6, <2>1, SkipWave, KeptSound DEF DecoderParts,
              SoundFields
<1>7. CASE d.skip = 0 /\ d.tone
  BY <1>1, <1>2, <1>3, <1>5, <1>7, ToneWave, KeptSound DEF DecoderParts, SoundFields
<1>8. CASE d.skip = 0 /\ ~d.tone /\ d.bits < StopNext
  <2>1. ASSUME NEW h, LastBit(d, h) PROVE SoundDecoder(h)
    BY <1>1, <1>2, <1>3, <1>4, <2>1, KeptSound DEF LastBit, DecoderParts, SoundFields
  <2>2. d.bits + 1 \in 0..ToneNext
    BY <1>2, <1>8, BitsAre
  <2>3. ASSUME NEW h, MoreBits(d, h) PROVE SoundDecoder(h)
    BY <1>1, <1>2, <1>3, <2>2, <2>3, KeptSound DEF MoreBits, DecoderParts, SoundFields
  <2> QED  BY <1>1, <1>8, <2>1, <2>3, BitWave
<1>9. CASE d.skip = 0 /\ ~d.tone /\ d.bits = StopNext
  <2>1. ASSUME NEW h, AfterStop(d, h) PROVE SoundDecoder(h)
    BY <1>1, <1>2, <1>3, <1>4, <2>1, KeptSound DEF AfterStop, DecoderParts, SoundFields
  <2> QED  BY <1>1, <1>9, <2>1, StopWave
<1>10. CASE d.skip = 0 /\ ~d.tone /\ d.bits = ToneNext
  <2>1. ASSUME NEW h, InToneAgain(d, h) PROVE SoundDecoder(h)
    BY <1>1, <1>2, <1>3, <1>4, <2>1, KeptSound DEF InToneAgain, DecoderParts, SoundFields
  <2> QED  BY <1>1, <1>5, <1>10, <2>1, NextWave
<1>11. d.skip = 0 \/ d.skip > 0
  BY <1>2
<1>12. d.bits < StopNext \/ d.bits = StopNext \/ d.bits = ToneNext
  BY <1>2, BitsAre
<1> QED  BY <1>6, <1>7, <1>8, <1>9, <1>10, <1>11, <1>12

(* A half wave leaves a decoder in step with its tape.                      *)
LEMMA HalfWaveOnTape ==
  ASSUME NEW d, SoundDecoder(d), ~d.over, OnTape(d), tape \in Tapes,
         received \in Seq(TapeByte)
  PROVE  OnTape(HalfWave(d))
<1> SUFFICES ASSUME ~tapefast, clean
             PROVE  OnTape(HalfWave(d))
  BY DEF OnTape
<1>1. /\ d \in DecoderStates /\ d.got = <<>> /\ (d.data <=> ~d.tone) /\ d.skip = 0
      /\ d.point \in Nat /\ d.bits \in 0..ToneNext
  BY DEF SoundDecoder, DecoderStates
<1>2. /\ Follows(tape, d.point, d.tone, d.bits, d.byte, received)
      /\ received \o <<>> = received
  BY <1>1 DEF OnTape
<1>3. At(d.point) = Wave(tape, d.point)
  BY DEF At, Wave
<1>4. ASSUME InTone(tape, d.point, received), At(d.point) = "long"
             , NEW h, Started(d, h)
      PROVE  OnTape(h)
  <2>1. InByte(tape, d.point + 2, 0, 0, received)
    BY <1>1, <1>3, <1>4, ToneLong
  <2>2. /\ h.point = d.point + 2 /\ (~h.tone)
        /\ h.bits = 0 /\ h.byte = 0 /\ h.got = <<>>
    BY <1>1, <1>4 DEF Started, DecoderParts
  <2> QED  BY <1>2, <2>1, <2>2, BitsAre DEF OnTape, Follows
<1>5. CASE d.tone
  <2>1. InTone(tape, d.point, received)
    BY <1>2, <1>5 DEF Follows
  <2>2. CASE At(d.point) = "long"
    BY <1>1, <1>4, <1>5, <2>1, <2>2, ToneWave
  <2>3. CASE At(d.point) # "long"
    <3> DEFINE h == HalfWave(d)
    <3>1. DecoderParts(h, d.point + 1, d.skip, d.tone, d.data, d.bits, d.byte, d.got, d.over)
      BY <1>1, <1>5, <2>3, ToneWave
    <3>2. h.point = d.point + 1 /\ h.tone /\ h.got = <<>>
      BY <1>1, <1>5, <3>1 DEF DecoderParts
    <3>3. InTone(tape, d.point + 1, received)
      BY <1>1, <1>3, <2>1, <2>3, ToneShort
    <3> HIDE DEF h
    <3> QED  BY <1>2, <3>1, <3>2, <3>3 DEF OnTape, Follows, h
  <2> QED  BY <2>2, <2>3
<1>6. CASE ~d.tone /\ d.bits < Bits
  <2>1. InByte(tape, d.point, d.bits, d.byte, received)
    BY <1>1, <1>2, <1>6, BitsAre DEF Follows
  <2>2. d.bits < StopNext /\ d.data
    BY <1>1, <1>6, BitsAre
  <2>3. /\ d.bits + 1 # Bits => InByte(tape, PointAfter(d), d.bits + 1, Shifting(d), received)
        /\ d.bits + 1 = Bits => AtStop(tape, PointAfter(d), received \o <<Shifting(d)>>)
    BY <1>1, <1>3, <2>1, BitStep DEF PointAfter, Shifting
  <2>4. CASE d.bits + 1 = Bits
    <3> DEFINE h == HalfWave(d)
    <3>1. LastBit(d, h)
      BY <1>1, <1>6, <2>2, <2>4, BitWave
    <3>2. h.point = PointAfter(d) /\ (h.tone <=> d.tone) /\ h.bits = StopNext
          /\ h.got = <<Shifting(d)>>
      BY <1>1, <3>1 DEF LastBit, MoreBits, InToneAgain, DecoderParts
    <3> HIDE DEF h
    <3> QED  BY <1>6, <2>3, <2>4, <3>1, <3>2 DEF OnTape, Follows, h
  <2>5. CASE d.bits + 1 # Bits
    <3> DEFINE h == HalfWave(d)
    <3>1. MoreBits(d, h)
      BY <1>1, <1>6, <2>2, <2>5, BitWave
    <3>2. h.point = PointAfter(d) /\ (h.tone <=> d.tone) /\ h.bits = d.bits + 1
          /\ h.got = <<>> /\ h.byte = Shifting(d)
      BY <1>1, <3>1 DEF LastBit, MoreBits, InToneAgain, DecoderParts
    <3>3. d.bits + 1 < Bits
      BY <1>1, <1>6, <2>5, BitsAre
    <3> HIDE DEF h
    <3> QED  BY <1>2, <1>6, <2>3, <2>5, <3>1, <3>2, <3>3 DEF OnTape, Follows, h
  <2> QED  BY <2>4, <2>5
<1>7. CASE ~d.tone /\ d.bits = StopNext
  <2>1. AtStop(tape, d.point, received)
    BY <1>2, <1>7, BitsAre DEF Follows
  <2>2. At(d.point) # "long" /\ AtNext(tape, d.point + 4, received)
    BY <1>1, <1>3, <2>1, StopStep
  <2>3. PointAfter(d) = d.point + 4
    BY <2>2 DEF PointAfter
  <2> DEFINE h == HalfWave(d)
  <2>4. AfterStop(d, h)
    BY <1>1, <1>7, StopWave
  <2>5. h.point = PointAfter(d) /\ (h.tone <=> d.tone) /\ h.bits = ToneNext /\ h.got = <<>>
    BY <1>1, <2>4 DEF AfterStop, DecoderParts
  <2> HIDE DEF h
  <2> QED  BY <1>2, <1>7, <2>2, <2>3, <2>4, <2>5 DEF OnTape, Follows, h
<1>8. CASE ~d.tone /\ d.bits = ToneNext
  <2>1. InTone(tape, d.point, received)
    BY <1>2, <1>8, BitsAre, NextIsTone DEF Follows
  <2>2. CASE At(d.point) = "long"
    BY <1>1, <1>4, <1>8, <2>1, <2>2, NextWave
  <2>3. CASE At(d.point) # "long"
    <3> DEFINE h == HalfWave(d)
    <3>1. InToneAgain(d, h)
      BY <1>1, <1>8, <2>3, NextWave
    <3>2. h.point = d.point + 1 /\ h.tone /\ h.got = <<>>
      BY <1>1, <3>1 DEF LastBit, MoreBits, InToneAgain, DecoderParts
    <3>3. InTone(tape, d.point + 1, received)
      BY <1>1, <1>3, <2>1, <2>3, ToneShort
    <3> HIDE DEF h
    <3> QED  BY <1>2, <3>1, <3>2, <3>3 DEF OnTape, Follows, h
  <2> QED  BY <2>2, <2>3
<1>9. d.tone \/ d.bits < Bits \/ d.bits = StopNext \/ d.bits = ToneNext
  BY <1>2 DEF Follows
<1> QED  BY <1>5, <1>6, <1>7, <1>8, <1>9

-----------------------------------------------------------------------------
(* A poll, another tape, and the invariant *)
CswInv ==
  /\ CswTypeOK
  /\ ~tapefast => cswskip = 0
  /\ ~tapefast /\ clean =>
       Follows(tape, cswpoint, cintone, datbits, enddat, received)

(* The rest of a poll leaves a decoder sound and in step, over or not.      *)
LEMMA ContinueSound ==
  ASSUME NEW d, SoundDecoder(d), OnTape(d), tape \in Tapes, received \in Seq(TapeByte)
  PROVE  SoundDecoder(Continue(d)) /\ OnTape(Continue(d))
BY HalfWaveSound, HalfWaveOnTape DEF Continue

(* A poll as a whole *)
LEMMA PollSound ==
  ASSUME SoundDecoder(Decoder), OnTape(Decoder), tape \in Tapes, received \in Seq(TapeByte)
  PROVE  SoundDecoder(AfterWaves[Waves]) /\ OnTape(AfterWaves[Waves])
<1> DEFINE X == {d \in DecoderStates : SoundDecoder(d) /\ OnTape(d)}
           step == [kx \in (1..Waves) \X X |-> Continue(kx[2])]
           x0 == Decoder
           Is(f) == f = [i \in 0..Waves |-> IF i = 0 THEN Decoder ELSE Continue(f[i - 1])]
           W == CHOOSE f : Is(f)
<1>1. Waves \in Nat
  BY CswAssumption
<1>2. \A d \in X : Continue(d) \in X
  <2> TAKE d \in X
  <2>1. SoundDecoder(Continue(d)) /\ OnTape(Continue(d))
    BY ContinueSound
  <2> QED  BY <2>1 DEF SoundDecoder
<1>3. x0 \in X
  BY DEF SoundDecoder
<1>4. PICK g : Iterates(g, Waves, X, x0, step)
  <2> HIDE DEF X, x0
  <2>1. step \in [(1..Waves) \X X -> X]
    BY <1>2
  <2> HIDE DEF step
  <2> QED  BY <1>1, <1>3, <2>1, Recursion
<1>5. g \in [0..Waves -> X] /\ g[0] = Decoder
      /\ \A i \in 1..Waves : g[i] = Continue(g[i - 1])
  <2> HIDE DEF X
  <2>1. g \in [0..Waves -> X] /\ g[0] = Decoder
    BY <1>4 DEF Iterates
  <2>2. ASSUME NEW i \in 1..Waves PROVE g[i] = Continue(g[i - 1])
    <3>1. i - 1 \in 0..Waves /\ g[i - 1] \in X
      BY <1>1, <2>1
    <3>2. g[i] = step[<<i, g[i - 1]>>]
      BY <1>4 DEF Iterates
    <3> QED  BY <3>1, <3>2
  <2> QED  BY <2>1, <2>2
<1> HIDE DEF X, step, x0
<1>6. Is(g)
  <2>1. \A i \in 0..Waves : g[i] = IF i = 0 THEN Decoder ELSE Continue(g[i - 1])
    <3> TAKE i \in 0..Waves
    <3>1. i # 0 => i \in 1..Waves
      BY <1>1
    <3> QED  BY <1>5, <3>1
  <2>2. g = [i \in 0..Waves |-> g[i]]
    BY <1>5
  <2> QED  BY <2>1, <2>2
<1>7. Is(W)
  <2> HIDE DEF Is
  <2> QED  BY <1>6
<1>8. AfterWaves = W
  BY DEF AfterWaves
<1> HIDE DEF W
<1>9. \A i \in 0..Waves : W[i] = g[i]
  <2> DEFINE S == {i \in 0..Waves : W[i] = g[i]}
  <2>1. 0 \in S
    <3>1. 0 \in 0..Waves
      BY <1>1
    <3> QED  BY <3>1, <1>5, <1>7
  <2>2. ASSUME NEW i \in 0..(Waves - 1), i \in S PROVE i + 1 \in S
    <3>1. i + 1 \in 0..Waves /\ i + 1 \in 1..Waves /\ i + 1 # 0 /\ (i + 1) - 1 = i
      BY <1>1
    <3>2. W[i + 1] = Continue(W[i])
      BY <1>7, <3>1
    <3>3. g[i + 1] = Continue(g[i])
      BY <1>5, <3>1
    <3> QED  BY <2>2, <3>1, <3>2, <3>3
  <2> HIDE DEF S
  <2>3. \A i \in 0..Waves : i \in S
    BY <1>1, <2>1, <2>2, UpTo
  <2> QED  BY <2>3 DEF S
<1>10. W[Waves] \in X
  <2>1. Waves \in 0..Waves
    BY <1>1
  <2> QED  BY <1>5, <1>9, <2>1
<1> QED  BY <1>8, <1>10 DEF X

(* A tape that is put in begins at its first half wave. *)
LEMMA AtStart ==
  ASSUME NEW held \in Tapes, NEW tone, tone, NEW bits, NEW byte
  PROVE  Follows(held, 1, tone, bits, byte, <<>>)
<1>1. /\ 0 \in 0..Len(held) /\ BytesUpTo(held)[0] = <<>> /\ ItemEnds(held)[0] = 0
      /\ 0 + 1 = 1
  BY TapesAre, BytesUpToAre, ItemEndsType
<1>2. InTone(held, 1, <<>>)
  BY <1>1 DEF InTone
<1> QED  BY <1>2 DEF Follows

(* The decoder begins in a tone, with nothing handed over.                  *)
LEMMA CswInvInit == CswInit => CswInv
<1> SUFFICES ASSUME CswInit PROVE CswInv
  OBVIOUS
<1>1. CswTypeOK
  <2>1. cindat = ~cintone
    BY DEF CswInit
  <2>2. <<>> \in Seq(TapeByte)
    OBVIOUS
  <2>3. 0 \in 0..ToneNext /\ 0 \in 0..MaxOpened /\ 0 \in TapeByte /\ 0 \in 0..12
    BY BitsAre, CswAssumption
  <2> QED  BY <2>1, <2>2, <2>3 DEF CswInit, CswTypeOK
<1>2. Follows(tape, cswpoint, cintone, datbits, enddat, received)
  BY AtStart DEF CswInit
<1> QED  BY <1>1, <1>2 DEF CswInv, CswInit

(* A poll keeps in step with the tape; another tape begins at its first     *)
(* half wave.                                                               *)
LEMMA CswInvNext == CswInv /\ [CswNext]_csw => CswInv'
<1> SUFFICES ASSUME CswInv, [CswNext]_csw PROVE CswInv'
  OBVIOUS
<1> USE DEF CswInv
<1>1. CASE PollCsw
  <2>1. CASE cswfresh
    <3>1. CswTypeOK'
      BY <1>1, <2>1 DEF PollCsw, CswTypeOK
    <3> QED  BY <1>1, <2>1, <3>1 DEF PollCsw
  <2>2. CASE ~cswfresh
    <3> DEFINE d == AfterWaves[Waves]
    <3>1. tape \in Tapes /\ received \in Seq(TapeByte)
      BY DEF CswTypeOK
    <3>2. Decoder.got = <<>> /\ received \o <<>> = received
      BY <3>1 DEF Decoder
    <3>3. SoundDecoder(Decoder)
      <4>1. Decoder \in DecoderStates
        BY DEF CswTypeOK, Decoder, DecoderStates
      <4> QED  BY <4>1 DEF CswTypeOK, Decoder, SoundDecoder
    <3>4. OnTape(Decoder)
      BY <3>2 DEF OnTape, Decoder
    <3>5. SoundDecoder(d) /\ OnTape(d)
      BY <3>1, <3>3, <3>4, PollSound
    <3> HIDE DEF d
    <3>6. /\ cswpoint' = d.point /\ cswskip' = d.skip
          /\ cintone' = d.tone /\ cindat' = d.data
          /\ datbits' = d.bits /\ enddat' = d.byte
          /\ received' = received \o d.got
          /\ UNCHANGED <<cswfresh, tape, tapefast, clean, opened>>
      BY <1>1, <2>2 DEF PollCsw, d
    <3>7. /\ d.point \in Nat \ {0} /\ d.skip \in 0..12 /\ d.tone \in BOOLEAN
          /\ d.data \in BOOLEAN /\ (d.data <=> ~d.tone)
          /\ d.bits \in 0..ToneNext /\ d.byte \in TapeByte /\ d.got \in Seq(TapeByte)
      BY <3>5 DEF SoundDecoder, DecoderStates
    <3>8. received' \in Seq(TapeByte)
      BY <3>1, <3>6, <3>7
    <3>9. CswTypeOK'
      BY <3>6, <3>7, <3>8 DEF CswTypeOK
    <3>10. (~tapefast => cswskip = 0)'
      BY <3>5, <3>6 DEF SoundDecoder
    <3>11. (~tapefast /\ clean =>
              Follows(tape, cswpoint, cintone, datbits, enddat, received))'
      BY <3>5, <3>6 DEF OnTape
    <3> QED  BY <3>9, <3>10, <3>11
  <2> QED  BY <2>1, <2>2
<1>2. CASE OpenCsw
  <2>1. PICK held \in Tapes : Opened(held)
    BY <1>2 DEF OpenCsw
  <2>2. CswTypeOK'
    <3>1. <<>> \in Seq(TapeByte)
      OBVIOUS
    <3>2. opened' \in 0..MaxOpened
      BY <1>2, CswAssumption DEF OpenCsw, CswTypeOK
    <3>3. (cindat = ~cintone)'
      BY <2>1 DEF Opened, CswTypeOK
    <3>4. /\ tape' \in Tapes /\ received' = <<>> /\ clean' \in BOOLEAN
          /\ cswpoint' \in Nat \ {0} /\ cswfresh' \in BOOLEAN
      BY <2>1 DEF Opened, CswTypeOK
    <3>5. UNCHANGED <<tapefast, cswskip, cintone, cindat, datbits, enddat>>
      BY <2>1 DEF Opened
    <3> QED  BY <3>1, <3>2, <3>3, <3>4, <3>5 DEF CswTypeOK
  <2>3. (~tapefast => cswskip = 0)'
    BY <2>1 DEF Opened
  <2>4. (~tapefast /\ clean =>
           Follows(tape, cswpoint, cintone, datbits, enddat, received))'
    <3> SUFFICES ASSUME clean'
                 PROVE  Follows(held, 1, cintone, datbits, enddat, <<>>)
      BY <2>1 DEF Opened
    <3>1. cintone
      BY <2>1 DEF Opened
    <3> QED  BY <3>1, AtStart
  <2> QED  BY <2>2, <2>3, <2>4
<1>3. CASE RunOut \/ UNCHANGED csw
  <2>1. UNCHANGED csw
    BY <1>3 DEF RunOut
  <2>2. CswTypeOK'
    BY <2>1 DEF csw, CswTypeOK
  <2> QED  BY <2>1, <2>2 DEF csw
<1> QED  BY <1>1, <1>2, <1>3 DEF CswNext

(* What has been handed over is the beginning of what the tape holds. *)
LEMMA BytesPrefix ==
  ASSUME NEW held \in Tapes, NEW k \in 0..Len(held)
  PROVE  IsPrefix(BytesUpTo(held)[k], BytesOf(held))
<1> DEFINE n == Len(held)
           B == BytesUpTo(held)
           M == {m \in 0..n : k <= m => IsPrefix(B[k], B[m])}
<1>1. n \in Nat /\ k \in 0..n /\ B \in [0..n -> Seq(TapeByte)]
  BY TapesAre, BytesUpToAre
<1>2. \A b \in Seq(TapeByte) : IsPrefix(b, b)
  BY DEF IsPrefix
<1>3. ASSUME NEW b \in Seq(TapeByte), NEW c \in Seq(TapeByte), IsPrefix(b, c), NEW x
      PROVE  IsPrefix(b, Append(c, x))
  <2>1. Len(b) \in Nat /\ Len(c) \in Nat /\ Len(b) <= Len(c)
        /\ SubSeq(b, 1, Len(b)) = SubSeq(c, 1, Len(b))
    BY <1>3 DEF IsPrefix
  <2> DEFINE S == TapeByte \cup {x}
  <2>2. c \in Seq(S) /\ x \in S /\ Len(Append(c, x)) = Len(c) + 1
    OBVIOUS
  <2>3. SubSeq(Append(c, x), 1, Len(b)) = SubSeq(c, 1, Len(b))
    BY <2>1, <2>2
  <2> QED  BY <2>1, <2>2, <2>3 DEF IsPrefix
<1>4. 0 \in M
  BY <1>1, <1>2
<1>5. ASSUME NEW m \in 0..(n - 1), m \in M PROVE m + 1 \in M
  <2>1. m \in 0..n /\ m + 1 \in 0..n /\ B[m] \in Seq(TapeByte) /\ B[k] \in Seq(TapeByte)
    BY <1>1
  <2>2. B[m + 1] = IF held[m + 1].tone THEN B[m] ELSE Append(B[m], held[m + 1].byte)
    BY BytesUpToAre
  <2>3. CASE k <= m
    <3>1. IsPrefix(B[k], B[m])
      BY <1>5, <2>3
    <3> HIDE DEF B
    <3>2. IsPrefix(B[k], B[m + 1])
      BY <1>3, <2>1, <2>2, <3>1
    <3> QED  BY <2>1, <3>2
  <2>4. CASE k = m + 1
    <3> HIDE DEF B
    <3>1. IsPrefix(B[k], B[m + 1])
      BY <1>2, <2>1, <2>4
    <3> QED  BY <2>1, <3>1
  <2>5. CASE ~(k <= m + 1)
    BY <2>1, <2>5
  <2>6. k <= m \/ k = m + 1 \/ ~(k <= m + 1)
    BY <1>1
  <2> QED  BY <2>3, <2>4, <2>5, <2>6
<1> HIDE DEF M
<1>6. \A m \in 0..n : m \in M
  BY <1>1, <1>4, <1>5, UpTo
<1>7. n \in M /\ k <= n
  BY <1>1, <1>6
<1> QED  BY <1>7 DEF M, BytesOf

(* Only behind the image the decoder is past the last thing there is. *)
LEMMA PastEnd ==
  ASSUME NEW held \in Tapes, NEW point \in Nat, NEW tone, NEW bits, NEW byte, NEW got,
         Follows(held, point, tone, bits, byte, got)
  PROVE  /\ IsPrefix(got, BytesOf(held))
         /\ point > Len(Image[held]) => got = BytesOf(held)
<1> DEFINE n == Len(held)
           o == ItemEnds(held)
           B == BytesUpTo(held)
<1>0. n \in Nat /\ o \in [0..n -> Nat] /\ Len(Image[held]) = o[n]
  BY TapesAre, ItemEndsType
<1>1. ASSUME NEW k \in 0..(n - 1)
      PROVE  /\ k \in 0..n /\ k + 1 \in 0..n /\ o[k] \in Nat /\ o[k + 1] <= o[n]
             /\ o[k + 1] \in Nat /\ o[n] \in Nat
  <2>1. k \in 0..n /\ k + 1 \in 0..n /\ n \in 0..n /\ k + 1 <= n
    BY <1>0
  <2>2. o[k + 1] <= o[n]
    BY <2>1, ItemEndsGrow
  <2> HIDE DEF o
  <2> QED  BY <1>0, <2>1, <2>2
<1>2. ASSUME NEW k \in 0..(n - 1), ~held[k + 1].tone, NEW byt, byt = held[k + 1].byte
      PROVE  /\ o[k + 1] = o[k] + ByteStarts(byt)[Bits] + 4
             /\ ByteStarts(byt)[Bits] \in Nat
             /\ \A i \in 0..(Bits - 1) : ByteStarts(byt)[i] \in Nat
                                        /\ ByteStarts(byt)[i] + 1 <= ByteStarts(byt)[Bits]
  <2>1. ByteStarts(byt) \in [0..Bits -> Nat]
    BY <1>2, ByteAt
  <2>2. \A i \in 0..(Bits - 1) : i \in 0..Bits
    BY BitsAre
  <2>3. Bits \in 0..Bits
    BY BitsAre
  <2>4. o[k + 1] = o[k] + ByteStarts(byt)[Bits] + 4
    BY <1>2, ByteAt
  <2>5. \A i \in 0..(Bits - 1) : ByteStarts(byt)[i] + 1 <= ByteStarts(byt)[Bits]
    BY <1>2, ByteAt
  <2> QED  BY <2>1, <2>2, <2>3, <2>4, <2>5
<1>3. CASE InTone(held, point, got)
  <2>1. PICK k \in 0..n :
          /\ got = B[k]
          /\ \/ point = o[k] + 1
             \/ /\ k < n /\ held[k + 1].tone
                /\ \E j \in 1..6 : point = o[k] + j
             \/ k = n /\ point > o[k]
    BY <1>3 DEF InTone
  <2>2. CASE k = n
    BY <2>1, <2>2, BytesPrefix DEF BytesOf
  <2>3. CASE k # n
    <3>1. k \in 0..(n - 1)
      BY <1>0, <2>3
    <3>2. ASSUME held[k + 1].tone PROVE ~(point > o[n])
      <4>1. o[k + 1] = o[k] + 6
        BY <3>1, <3>2, ToneAt
      <4>2. \E j \in 1..6 : point = o[k] + j
        BY <2>1, <2>3
      <4> HIDE DEF o
      <4> QED  BY <4>1, <4>2, <1>1, <3>1
    <3>3. ASSUME ~held[k + 1].tone PROVE ~(point > o[n])
      <4>1. point = o[k] + 1
        BY <2>1, <2>3, <3>3
      <4> DEFINE s == ByteStarts(held[k + 1].byte)[Bits]
      <4>2. o[k + 1] = o[k] + s + 4 /\ s \in Nat
        BY <1>2, <3>1, <3>3
      <4> HIDE DEF o, s
      <4> QED  BY <4>1, <4>2, <1>1, <3>1
    <3> QED  BY <1>0, <2>1, <3>2, <3>3, BytesPrefix
  <2> QED  BY <2>2, <2>3
<1>4. CASE InByte(held, point, bits, byte, got)
  <2>1. PICK k \in 0..(n - 1) :
          /\ ~held[k + 1].tone /\ got = B[k]
          /\ bits \in 0..(Bits - 1)
          /\ point = o[k] + (ByteStarts(held[k + 1].byte)[bits] + 1)
    BY <1>4 DEF InByte
  <2> DEFINE p == ByteStarts(held[k + 1].byte)
             a == p[bits]
             b == p[Bits]
  <2>2. o[k + 1] = o[k] + b + 4 /\ b \in Nat /\ a \in Nat /\ a + 1 <= b
    BY <1>2, <2>1
  <2>3. point = o[k] + (a + 1)
    BY <2>1
  <2> HIDE DEF o, a, b
  <2>4. ~(point > o[n])
    BY <1>1, <2>1, <2>2, <2>3
  <2> QED  BY <1>0, <1>1, <2>1, <2>4, BytesPrefix
<1>5. CASE AtStop(held, point, got)
  <2>1. PICK k \in 0..(n - 1) :
          /\ ~held[k + 1].tone /\ got = B[k + 1]
          /\ point = o[k] + (ByteStarts(held[k + 1].byte)[Bits] + 1)
    BY <1>5 DEF AtStop
  <2> DEFINE p == ByteStarts(held[k + 1].byte)
             b == p[Bits]
  <2>2. o[k + 1] = o[k] + b + 4 /\ b \in Nat
    BY <1>2, <2>1
  <2>3. point = o[k] + (b + 1)
    BY <2>1
  <2> HIDE DEF o, b
  <2>4. ~(point > o[n])
    BY <1>1, <2>1, <2>2, <2>3
  <2> QED  BY <1>0, <1>1, <2>1, <2>4, BytesPrefix
<1>6. CASE AtNext(held, point, got)
  BY <1>6, <1>3, NextIsTone
<1> QED  BY <1>3, <1>4, <1>5, <1>6 DEF Follows

(* Between polls the decoder is where the tape says, in the tone or byte it *)
(* is in, and what it has handed over is what came before.  (pollcsw)       *)
THEOREM CswInvariant == CswSpec => []CswInv
BY CswInvInit, CswInvNext, PTL DEF CswSpec

(* The variables of csw.c keep their types, for bytes of any length, polls  *)
(* of any length and any tapes.                                             *)
THEOREM CswTypeCorrect == CswSpec => []CswTypeOK
<1>1. CswInv => CswTypeOK
  BY DEF CswInv
<1> QED  BY <1>1, CswInvariant, PTL

(* pollcsw: at normal speed any tape gives its bytes in order, wherever in  *)
(* a poll they begin, and all of them by its end.                           *)
THEOREM CswBytesInOrder == CswSpec => []CswInOrder
<1>1. CswInv => CswInOrder
  <2> SUFFICES ASSUME CswInv, ~tapefast, clean
               PROVE  /\ IsPrefix(received, BytesOf(tape))
                      /\ cswpoint > Len(Image[tape]) => received = BytesOf(tape)
    BY DEF CswInOrder
  <2>1. tape \in Tapes /\ cswpoint \in Nat
    BY DEF CswInv, CswTypeOK
  <2>2. Follows(tape, cswpoint, cintone, datbits, enddat, received)
    BY DEF CswInv
  <2> QED  BY <2>1, <2>2, PastEnd
<1> QED  BY <1>1, CswInvariant, PTL
=============================================================================
