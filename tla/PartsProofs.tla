----------------------------- MODULE PartsProofs ----------------------------
(***************************************************************************)
(* Proofs about three parts of the program that nothing else acts on: the  *)
(* adder of ADC and SBC, the command line and the settings, and the memory *)
(* map with its saved states.                                              *)
(*                                                                         *)
(* The adder, for a byte of any width: what ADC and SBC leave in the       *)
(* accumulator and the flags is what arithmetic on numbers without and with*)
(* a sign says.                                                            *)
(*                                                                         *)
(* The command line, for any files and numbers and a line of any length:   *)
(* between two options the parser of initelk waits for nothing, so each    *)
(* option gets the value behind it.  No setting's name begins the line of  *)
(* an earlier one, so what saveconfig writes loadconfig finds.             *)
(*                                                                         *)
(* The memory, for all configurations, sideways banks and lengths of       *)
(* behaviours: every write, reset and selection leaves a memory; the pieces*)
(* of a file are found where savememstate put them; so what was saved is   *)
(* restored, and read again where the wiring is the same.                  *)
(***************************************************************************)
EXTENDS Adder, Startup, Memory, TLAPS, WellFoundedInduction, NaturalsInduction

-----------------------------------------------------------------------------
(* The adder (6502.c) *)
(* The number a byte is with a sign. *)
SignedByte(n) == IF n >= Sign THEN n - 2 * Sign ELSE n
SignedBytes == (-Sign)..(Sign - 1)

(* Addition: the carry and the accumulator together are the sum, z and n    *)
(* say what the accumulator is, and v is set exactly when the sum of the    *)
(* signed numbers is no signed byte.  (ADC)                                 *)
THEOREM AdditionRight ==
  ASSUME NEW a \in Byte, NEW operand \in Byte, NEW c \in 0..1
  PROVE  LET r == AdcBinary(a, operand, c)
         IN  /\ r.a \in Byte
             /\ a + operand + c = r.a + (IF r.c THEN 2 * Sign ELSE 0)
             /\ r.z <=> r.a = 0
             /\ r.n <=> SignedByte(r.a) < 0
             /\ r.v <=> SignedByte(a) + SignedByte(operand) + c \notin SignedBytes
<1>1. Sign \in Nat \ {0} /\ a \in 0..(2 * Sign - 1) /\ operand \in 0..(2 * Sign - 1)
  BY SignAssumption DEF Byte
<1> DEFINE wide == a + operand + c
           sum == Low(wide)
           r == AdcBinary(a, operand, c)
<1>2. /\ r.a = sum
      /\ r.c <=> wide >= 2 * Sign
      /\ r.z <=> sum = 0
      /\ r.n <=> Neg(sum)
      /\ r.v <=> (Neg(a) <=> Neg(operand)) /\ ~(Neg(a) <=> Neg(wide))
  <2>1. r = [ a |-> sum, c |-> wide >= 2 * Sign, z |-> sum = 0, n |-> Neg(sum),
              v |-> Neg(a) = Neg(operand) /\ Neg(a) # Neg(wide) ]
    BY DEF AdcBinary
  <2>2. /\ r.a = sum /\ r.c = (wide >= 2 * Sign) /\ r.z = (sum = 0)
        /\ r.n = Neg(sum) /\ r.v = (Neg(a) = Neg(operand) /\ Neg(a) # Neg(wide))
    BY <2>1
  <2>3. /\ Neg(a) \in BOOLEAN /\ Neg(operand) \in BOOLEAN /\ Neg(wide) \in BOOLEAN
    BY DEF Neg
  <2>4. (Neg(a) = Neg(operand) <=> (Neg(a) <=> Neg(operand)))
        /\ (Neg(a) = Neg(wide) <=> (Neg(a) <=> Neg(wide)))
    BY <2>3, Zenon
  <2> HIDE DEF r, sum, wide
  <2> QED  BY <2>2, <2>4, Zenon
<1>3. wide \in 0..(4 * Sign - 1)
  BY <1>1
<1>4. sum = IF wide >= 2 * Sign THEN wide - 2 * Sign ELSE wide
  BY <1>1, <1>3 DEF Low
<1>5. sum \in 0..(2 * Sign - 1)
  BY <1>1, <1>3, <1>4
<1>6. /\ Neg(a) <=> a >= Sign
      /\ Neg(operand) <=> operand >= Sign
      /\ Neg(sum) <=> sum >= Sign
  BY <1>1, <1>5 DEF Neg, Low
<1>7. Neg(wide) <=> sum >= Sign
  BY <1>1, <1>3, <1>4 DEF Neg, Low
<1> HIDE DEF wide, sum, r
<1>8. a + operand + c = wide
  BY DEF wide
<1>9. r.a \in Byte /\ wide = r.a + (IF r.c THEN 2 * Sign ELSE 0)
  <2>1. sum \in Byte /\ wide = sum + (IF wide >= 2 * Sign THEN 2 * Sign ELSE 0)
    BY <1>1, <1>3, <1>4, <1>5 DEF Byte
  <2> QED  BY <1>2, <2>1, Zenon
<1>10. (r.z <=> r.a = 0) /\ (r.n <=> SignedByte(r.a) < 0)
  <2>1. sum >= Sign <=> SignedByte(sum) < 0
    BY <1>1, <1>5 DEF SignedByte
  <2> QED  BY <1>2, <1>6, <2>1, Zenon
<1>11. r.v <=> SignedByte(a) + SignedByte(operand) + c \notin SignedBytes
  <2>1. r.v <=> (a >= Sign <=> operand >= Sign) /\ ~(a >= Sign <=> sum >= Sign)
    BY <1>2, <1>6, <1>7, Zenon
  <2>2. CASE a >= Sign /\ operand >= Sign
    BY <1>1, <1>4, <1>5, <1>8, <2>1, <2>2 DEF SignedByte, SignedBytes
  <2>3. CASE a < Sign /\ operand < Sign
    BY <1>1, <1>4, <1>5, <1>8, <2>1, <2>3 DEF SignedByte, SignedBytes
  <2>4. CASE ~(a >= Sign <=> operand >= Sign)
    BY <1>1, <1>8, <2>1, <2>4 DEF SignedByte, SignedBytes
  <2> QED  BY <1>1, <2>2, <2>3, <2>4
<1> QED  BY <1>8, <1>9, <1>10, <1>11 DEF r

(* Subtraction: the carry is set when nothing is borrowed, and the          *)
(* accumulator is the difference; v is right too, but when the borrow turns *)
(* the largest positive operand into a negative one.  (SBC)                 *)
THEOREM SubtractionRight ==
  ASSUME NEW a \in Byte, NEW operand \in Byte, NEW c \in 0..1
  PROVE  LET r == SbcBinary(a, operand, c)
         IN  /\ r.a \in Byte
             /\ a - operand - (1 - c) = r.a - (IF r.c THEN 0 ELSE 2 * Sign)
             /\ r.z <=> r.a = 0
             /\ r.n <=> SignedByte(r.a) < 0
             /\ operand # Sign - 1 \/ c = 1 =>
                  (r.v <=> SignedByte(a) - SignedByte(operand) - (1 - c) \notin SignedBytes)
<1>1. Sign \in Nat \ {0} /\ a \in 0..(2 * Sign - 1) /\ operand \in 0..(2 * Sign - 1)
  BY SignAssumption DEF Byte
<1> DEFINE taken == operand + 1 - c
           wide == a - taken
           difference == Low(wide)
           r == SbcBinary(a, operand, c)
<1>2. /\ r.a = difference
      /\ r.c <=> wide >= 0
      /\ r.z <=> difference = 0
      /\ r.n <=> Neg(difference)
      /\ r.v <=> ~(Neg(a) <=> Neg(taken)) /\ ~(Neg(a) <=> Neg(difference))
  <2>1. r = [ a |-> difference, c |-> wide >= 0,
              z |-> difference = 0, n |-> Neg(difference),
              v |-> Neg(a) # Neg(taken) /\ Neg(a) # Neg(difference) ]
    BY DEF SbcBinary
  <2>2. /\ r.a = difference /\ r.c = (wide >= 0) /\ r.z = (difference = 0)
        /\ r.n = Neg(difference)
        /\ r.v = (Neg(a) # Neg(taken) /\ Neg(a) # Neg(difference))
    BY <2>1
  <2>3. /\ Neg(a) \in BOOLEAN /\ Neg(taken) \in BOOLEAN
        /\ Neg(difference) \in BOOLEAN
    BY DEF Neg
  <2>4. (Neg(a) = Neg(taken) <=> (Neg(a) <=> Neg(taken)))
        /\ (Neg(a) = Neg(difference) <=> (Neg(a) <=> Neg(difference)))
    BY <2>3, Zenon
  <2> HIDE DEF r, difference, wide, taken
  <2> QED  BY <2>2, <2>4, Zenon
<1>3. wide \in (-2 * Sign)..(2 * Sign - 1) /\ taken \in 0..(2 * Sign)
  BY <1>1
<1>4. difference = IF wide < 0 THEN wide + 2 * Sign ELSE wide
  BY <1>1, <1>3 DEF Low
<1>5. difference \in 0..(2 * Sign - 1)
  BY <1>1, <1>3, <1>4
<1>6. /\ Neg(a) <=> a >= Sign
      /\ Neg(difference) <=> difference >= Sign
      /\ Neg(taken) <=> taken >= Sign /\ taken < 2 * Sign
  BY <1>1, <1>3, <1>5 DEF Neg, Low
<1>7. taken = operand + 1 - c /\ wide = a - taken
  OBVIOUS
<1> HIDE DEF taken, wide, difference, r
<1>8. r.a \in Byte /\ a - operand - (1 - c) = r.a - (IF r.c THEN 0 ELSE 2 * Sign)
  <2>1. /\ difference \in Byte
        /\ a - operand - (1 - c) = difference - (IF wide >= 0 THEN 0 ELSE 2 * Sign)
    BY <1>1, <1>3, <1>4, <1>5, <1>7 DEF Byte
  <2> QED  BY <1>2, <2>1, Zenon
<1>9. (r.z <=> r.a = 0) /\ (r.n <=> SignedByte(r.a) < 0)
  <2>1. difference >= Sign <=> SignedByte(difference) < 0
    BY <1>1, <1>5 DEF SignedByte
  <2> QED  BY <1>2, <1>6, <2>1, Zenon
<1>10. ASSUME operand # Sign - 1 \/ c = 1
       PROVE  r.v <=> SignedByte(a) - SignedByte(operand) - (1 - c) \notin SignedBytes
  <2>1. r.v <=> /\ ~(a >= Sign <=> taken >= Sign /\ taken < 2 * Sign)
                /\ ~(a >= Sign <=> difference >= Sign)
    BY <1>2, <1>6, Zenon
  <2>2. CASE operand >= Sign /\ taken < 2 * Sign
    BY <1>1, <1>3, <1>4, <1>5, <1>7, <2>1, <2>2 DEF SignedByte, SignedBytes
  <2>3. CASE operand >= Sign /\ taken = 2 * Sign
    BY <1>1, <1>3, <1>4, <1>5, <1>7, <2>1, <2>3 DEF SignedByte, SignedBytes
  <2>4. CASE operand < Sign
    BY <1>1, <1>3, <1>4, <1>5, <1>7, <1>10, <2>1, <2>4 DEF SignedByte, SignedBytes
  <2> QED  BY <1>1, <1>3, <2>2, <2>3, <2>4
<1> QED  BY <1>8, <1>9, <1>10 DEF r

-----------------------------------------------------------------------------
(* The command line (main.c) *)
(* Induction up to a number, for sets: the numbers are well-founded.        *)
LEMMA UpTo ==
  ASSUME NEW n \in Nat, NEW S, 0 \in S,
         \A k \in 0..(n - 1) : k \in S => k + 1 \in S
  PROVE  \A k \in 0..n : k \in S
<1> DEFINE Less == {ss \in Nat \X Nat : ss[1] < ss[2]}
           T == {k \in 0..n : k \notin S}
<1>1. IsWellFoundedOn(Less, Nat)
  BY NatLessThanWellFounded DEF OpToRel
<1> HIDE DEF Less
<1>2. SUFFICES ASSUME T # {} PROVE FALSE
  OBVIOUS
<1>3. T \subseteq Nat
  OBVIOUS
<1>4. PICK x \in T : \A y \in T : ~(<<y, x>> \in Less)
  BY <1>1, <1>2, <1>3, WFMin
<1>5. x \in Nat /\ x # 0 /\ x <= n /\ x \notin S
  BY <1>4
<1>6. x - 1 \in 0..(n - 1) /\ (x - 1) + 1 = x
  BY <1>5
<1>7. x - 1 \notin S
  BY <1>5, <1>6
<1>8. x - 1 \in T
  BY <1>6, <1>7
<1>9. <<x - 1, x>> \in Less
  BY <1>5, <1>6 DEF Less
<1> QED  BY <1>4, <1>8, <1>9

(* f is what the parser makes of the arguments, one after the other. *)
Parses(f, args, n) ==
  /\ DOMAIN f = 0..n /\ f[0] = Parser
  /\ \A k \in 1..n : f[k] = Take(f[k - 1], args[k])

(* For any arguments there is such an f.                                    *)
LEMMA ParsesExists ==
  ASSUME NEW args, NEW n \in Nat
  PROVE  \E f : Parses(f, args, n)
<1> DEFINE S == {mm \in 0..n : \E f : Parses(f, args, mm)}
<1>1. 0 \in S
  <2> DEFINE f == [k \in 0..0 |-> Parser]
  <2>1. Parses(f, args, 0)
    BY DEF Parses
  <2> HIDE DEF f
  <2> QED  BY <2>1
<1>2. ASSUME NEW mm \in 0..(n - 1), mm \in S PROVE mm + 1 \in S
  <2>1. PICK f : Parses(f, args, mm)
    BY <1>2
  <2> DEFINE last == Take(f[mm], args[mm + 1])
             g == [k \in 0..(mm + 1) |-> IF k <= mm THEN f[k] ELSE last]
  <2> HIDE DEF last
  <2>2. 0 \in 0..(mm + 1) /\ 0 <= mm
    OBVIOUS
  <2>3. DOMAIN g = 0..(mm + 1) /\ g[0] = Parser
    BY <2>1, <2>2 DEF Parses
  <2>4. ASSUME NEW k \in 1..(mm + 1) PROVE g[k] = Take(g[k - 1], args[k])
    <3>1. CASE k <= mm
      <4>1. k \in 1..mm /\ k - 1 \in 0..(mm + 1) /\ k - 1 <= mm /\ k \in 0..(mm + 1)
        BY <3>1
      <4>2. g[k] = f[k] /\ g[k - 1] = f[k - 1]
        BY <4>1
      <4> HIDE DEF g
      <4> QED  BY <4>1, <4>2, <2>1 DEF Parses
    <3>2. CASE ~(k <= mm)
      <4>1. k = mm + 1 /\ k - 1 = mm /\ mm \in 0..(mm + 1) /\ k \in 0..(mm + 1) /\ mm <= mm
        BY <3>2
      <4>2. g[k] = last /\ g[k - 1] = f[mm]
        BY <4>1, <3>2
      <4> HIDE DEF g
      <4> QED  BY <4>1, <4>2 DEF last
    <3> QED  BY <3>1, <3>2
  <2> HIDE DEF g
  <2>5. Parses(g, args, mm + 1)
    BY <2>3, <2>4 DEF Parses
  <2>6. mm + 1 \in 0..n
    OBVIOUS
  <2> QED  BY <2>5, <2>6
<1> HIDE DEF S
<1>3. n \in S
  <2>1. \A k \in 0..n : k \in S
    BY <1>1, <1>2, UpTo
  <2> QED  BY <2>1
<1> QED  BY <1>3 DEF S

(* There is one such, and what the parser is after them is its last. *)
LEMMA ParserAfterIs ==
  ASSUME NEW args, Len(args) \in Nat, NEW f, Parses(f, args, Len(args))
  PROVE  ParserAfter(args) = f[Len(args)]
<1> DEFINE n == Len(args)
           Is(h) == h = [k \in 0..n |-> IF k = 0 THEN Parser ELSE Take(h[k - 1], args[k])]
           g == CHOOSE h : Is(h)
           f2 == [k \in 0..n |-> f[k]]
<1>0. /\ f[0] = Parser /\ \A k \in 1..n : f[k] = Take(f[k - 1], args[k])
  BY DEF Parses
<1>1. Is(f2)
  <2> SUFFICES ASSUME NEW k \in 0..n
               PROVE  f2[k] = IF k = 0 THEN Parser ELSE Take(f2[k - 1], args[k])
    OBVIOUS
  <2>1. k # 0 => k \in 1..n /\ k - 1 \in 0..n
    OBVIOUS
  <2>2. f2[k] = f[k] /\ (k # 0 => f2[k - 1] = f[k - 1])
    BY <2>1
  <2> HIDE DEF f2
  <2>3. CASE k = 0
    BY <1>0, <2>2, <2>3
  <2>4. CASE k # 0
    BY <1>0, <2>1, <2>2, <2>4
  <2> QED  BY <2>3, <2>4
<1>2. Is(g)
  <2> HIDE DEF Is, f2
  <2> QED  BY <1>1
<1>3. ParserAfter(args) = g[n]
  BY DEF ParserAfter
<1> HIDE DEF g
<1> DEFINE S == {k \in 0..n : g[k] = f[k]}
<1>4. 0 \in S
  <2>1. 0 \in 0..n
    OBVIOUS
  <2>2. g[0] = Parser
    BY <1>2, <2>1
  <2> QED  BY <1>0, <2>1, <2>2
<1>5. ASSUME NEW k \in 0..(n - 1), k \in S PROVE k + 1 \in S
  <2>1. k + 1 \in 0..n /\ k + 1 \in 1..n /\ k + 1 # 0 /\ (k + 1) - 1 = k
    OBVIOUS
  <2>2. g[k + 1] = Take(g[(k + 1) - 1], args[k + 1])
    BY <1>2, <2>1
  <2>3. f[k + 1] = Take(f[(k + 1) - 1], args[k + 1])
    BY <1>0, <2>1
  <2>4. g[(k + 1) - 1] = f[(k + 1) - 1]
    BY <1>5, <2>1
  <2> QED  BY <2>1, <2>2, <2>3, <2>4
<1> HIDE DEF S
<1>6. \A k \in 0..n : k \in S
  BY <1>4, <1>5, UpTo
<1>7. n \in S
  BY <1>6
<1> QED  BY <1>3, <1>7 DEF S

(* Without arguments the parser is as initelk begins.                       *)
LEMMA ParserAfterNone == ParserAfter(<<>>) = Parser
<1>1. Len(<<>>) = 0
  OBVIOUS
<1>2. PICK f : Parses(f, <<>>, 0)
  BY ParsesExists
<1> QED  BY <1>1, <1>2, ParserAfterIs DEF Parses

(* OnePart more argument is taken after the others.                             *)
LEMMA ParserAfterOne ==
  ASSUME NEW S, NEW args \in Seq(S), NEW arg \in S
  PROVE  ParserAfter(Append(args, arg)) = Take(ParserAfter(args), arg)
<1> DEFINE n == Len(args)
           more == Append(args, arg)
<1>1. n \in Nat /\ Len(more) = n + 1 /\ more[n + 1] = arg
      /\ \A k \in 1..n : more[k] = args[k]
  OBVIOUS
<1> HIDE DEF more, n
<1>2. PICK f : Parses(f, more, n + 1)
  <2>1. n + 1 \in Nat
    BY <1>1
  <2> QED  BY <2>1, ParsesExists
<1>3. ParserAfter(more) = f[n + 1]
  BY <1>1, <1>2, ParserAfterIs
<1> DEFINE g == [k \in 0..n |-> f[k]]
<1>4. Parses(g, args, n)
  <2>1. 0 \in 0..n /\ DOMAIN g = 0..n /\ g[0] = Parser
    BY <1>1, <1>2 DEF Parses
  <2>2. ASSUME NEW k \in 1..n PROVE g[k] = Take(g[k - 1], args[k])
    <3>1. k \in 0..n /\ k - 1 \in 0..n /\ k \in 1..(n + 1)
      BY <1>1
    <3>2. g[k] = f[k] /\ g[k - 1] = f[k - 1]
      BY <3>1
    <3> HIDE DEF g
    <3>3. f[k] = Take(f[k - 1], more[k])
      BY <1>2, <3>1 DEF Parses
    <3> QED  BY <1>1, <3>2, <3>3
  <2> HIDE DEF g
  <2> QED  BY <2>1, <2>2 DEF Parses
<1>5. ParserAfter(args) = f[n]
  <2>1. n \in 0..n /\ g[n] = f[n]
    BY <1>1
  <2> HIDE DEF g
  <2>2. ParserAfter(args) = g[Len(args)]
    BY <1>1, <1>4, ParserAfterIs DEF n
  <2> QED  BY <2>1, <2>2 DEF n
<1>6. f[n + 1] = Take(f[n], arg)
  <2>1. n + 1 \in 1..(n + 1) /\ (n + 1) - 1 = n
    BY <1>1
  <2>2. f[n + 1] = Take(f[(n + 1) - 1], more[n + 1])
    BY <1>2, <2>1 DEF Parses
  <2> QED  BY <1>1, <2>1, <2>2
<1> QED  BY <1>3, <1>5, <1>6 DEF more

(* What the parser waits for: a tape, a disc, a bank or its file, and the   *)
(* option whose value comes next                                            *)
Waits(s, to, tape, disc, rom, next) ==
  /\ DOMAIN s = {"to", "tapenext", "discnext", "romnext", "parallelnext",
                 "serialnext", "debugnext"}
  /\ s.to = to /\ s.tapenext = tape /\ s.discnext = disc /\ s.romnext = rom
  /\ s.parallelnext <=> next = "parallel"
  /\ s.serialnext <=> next = "serial"
  /\ s.debugnext <=> next = "serialdebug"

Quiet(s, to) == Waits(s, to, 0, 0, -2, "")

(* initelk begins with nothing to wait for.                                 *)
LEMMA ParserQuiet == Quiet(Parser, NoFiles)
BY DEF Parser, Quiet, Waits

(* What an option, a name and a number are.                                 *)
LEMMA ArgumentsAre ==
  ASSUME NEW name, NEW path, NEW k
  PROVE  /\ Option(name).option = name
         /\ File(path).option = "" /\ File(path).file = path
         /\ Number(k).option = "" /\ Number(k).number = k
BY DEF Option, File, Number

(* What is left of tapenext after an argument.                              *)
LEMMA TicksTo ==
  ASSUME NEW t,
         NEW u, u = [t EXCEPT !.tapenext = IF @ > 0 THEN @ - 1 ELSE 0]
  PROVE  /\ t.tapenext = 0 => u = [t EXCEPT !.tapenext = 0]
         /\ t.tapenext = 1 => u = [t EXCEPT !.tapenext = 0]
         /\ t.tapenext = 2 => u = [t EXCEPT !.tapenext = 1]
<1> DEFINE n == IF t.tapenext > 0 THEN t.tapenext - 1 ELSE 0
<1>1. /\ t.tapenext = 0 => n = 0
      /\ t.tapenext = 1 => n = 0
      /\ t.tapenext = 2 => n = 1
  OBVIOUS
<1>2. u = [t EXCEPT !.tapenext = n]
  OBVIOUS
<1> HIDE DEF n
<1> QED  BY <1>1, <1>2

(* What each option makes of the parser.                                    *)
LEMMA OptionsAre ==
  ASSUME NEW s
  PROVE  /\ TakeOption(s, "tape") = [s EXCEPT !.tapenext = 2]
         /\ TakeOption(s, "disc") = [s EXCEPT !.discnext = 1]
         /\ TakeOption(s, "disc1") = [s EXCEPT !.discnext = 2]
         /\ TakeOption(s, "rom") = [s EXCEPT !.romnext = -1]
         /\ TakeOption(s, "parallel") = [s EXCEPT !.parallelnext = TRUE]
         /\ TakeOption(s, "serial") = [s EXCEPT !.serialnext = TRUE]
         /\ TakeOption(s, "serialdebug") = [s EXCEPT !.debugnext = TRUE]
         /\ TakeOption(s, "debug") = [s EXCEPT !.to.debug = TRUE]
BY DEF TakeOption

(* An option is taken, and tapenext counts.                                 *)
LEMMA TakeAnOption ==
  ASSUME NEW s, NEW name, name # "", NEW t, t = TakeOption(s, name)
  PROVE  Take(s, Option(name)) = [t EXCEPT !.tapenext = IF @ > 0 THEN @ - 1 ELSE 0]
BY DEF Take, Option

(* A value is taken, and tapenext counts.                                   *)
LEMMA TakeAValue ==
  ASSUME NEW s, NEW arg, arg.option = "", NEW t, t = TakeValue(s, arg)
  PROVE  Take(s, arg) = [t EXCEPT !.tapenext = IF @ > 0 THEN @ - 1 ELSE 0]
BY DEF Take

(* initelk: after an option a parser that waited for nothing waits for its  *)
(* value and nothing else.                                                  *)
LEMMA TakeOptionWaits ==
  ASSUME NEW s, NEW to, Quiet(s, to)
  PROVE  /\ Waits(Take(s, Option("tape")), to, 1, 0, -2, "")
         /\ Waits(Take(s, Option("disc")), to, 0, 1, -2, "")
         /\ Waits(Take(s, Option("disc1")), to, 0, 2, -2, "")
         /\ Waits(Take(s, Option("rom")), to, 0, 0, -1, "")
         /\ Waits(Take(s, Option("parallel")), to, 0, 0, -2, "parallel")
         /\ Waits(Take(s, Option("serial")), to, 0, 0, -2, "serial")
         /\ Waits(Take(s, Option("serialdebug")), to, 0, 0, -2, "serialdebug")
         /\ Quiet(Take(s, Option("debug")), [to EXCEPT !.debug = TRUE])
<1>1. Waits(Take(s, Option("tape")), to, 1, 0, -2, "")
  <2> DEFINE t == TakeOption(s, "tape")
             u == Take(s, Option("tape"))
  <2>1. t = [s EXCEPT !.tapenext = 2]
    BY OptionsAre
  <2>2. u = [t EXCEPT !.tapenext = IF @ > 0 THEN @ - 1 ELSE 0]
    BY TakeAnOption
  <2> HIDE DEF t, u
  <2>3. Waits(t, to, 2, 0, -2, "")
    BY <2>1 DEF Waits, Quiet
  <2>4. u = [t EXCEPT !.tapenext = 1]
    <3>1. t.tapenext = 2
      BY <2>3 DEF Waits
    <3> QED  BY <2>2, <3>1, TicksTo
  <2>5. Waits(u, to, 1, 0, -2, "")
    BY <2>3, <2>4 DEF Waits
  <2> QED  BY <2>5 DEF u
<1>2. Waits(Take(s, Option("disc")), to, 0, 1, -2, "")
  <2> DEFINE t == TakeOption(s, "disc")
             u == Take(s, Option("disc"))
  <2>1. t = [s EXCEPT !.discnext = 1]
    BY OptionsAre
  <2>2. u = [t EXCEPT !.tapenext = IF @ > 0 THEN @ - 1 ELSE 0]
    BY TakeAnOption
  <2> HIDE DEF t, u
  <2>3. Waits(t, to, 0, 1, -2, "")
    BY <2>1 DEF Waits, Quiet
  <2>4. u = [t EXCEPT !.tapenext = 0]
    <3>1. t.tapenext = 0
      BY <2>3 DEF Waits
    <3> QED  BY <2>2, <3>1, TicksTo
  <2>5. Waits(u, to, 0, 1, -2, "")
    BY <2>3, <2>4 DEF Waits
  <2> QED  BY <2>5 DEF u
<1>3. Waits(Take(s, Option("disc1")), to, 0, 2, -2, "")
  <2> DEFINE t == TakeOption(s, "disc1")
             u == Take(s, Option("disc1"))
  <2>1. t = [s EXCEPT !.discnext = 2]
    BY OptionsAre
  <2>2. u = [t EXCEPT !.tapenext = IF @ > 0 THEN @ - 1 ELSE 0]
    BY TakeAnOption
  <2> HIDE DEF t, u
  <2>3. Waits(t, to, 0, 2, -2, "")
    BY <2>1 DEF Waits, Quiet
  <2>4. u = [t EXCEPT !.tapenext = 0]
    <3>1. t.tapenext = 0
      BY <2>3 DEF Waits
    <3> QED  BY <2>2, <3>1, TicksTo
  <2>5. Waits(u, to, 0, 2, -2, "")
    BY <2>3, <2>4 DEF Waits
  <2> QED  BY <2>5 DEF u
<1>4. Waits(Take(s, Option("rom")), to, 0, 0, -1, "")
  <2> DEFINE t == TakeOption(s, "rom")
             u == Take(s, Option("rom"))
  <2>1. t = [s EXCEPT !.romnext = -1]
    BY OptionsAre
  <2>2. u = [t EXCEPT !.tapenext = IF @ > 0 THEN @ - 1 ELSE 0]
    BY TakeAnOption
  <2> HIDE DEF t, u
  <2>3. Waits(t, to, 0, 0, -1, "")
    BY <2>1 DEF Waits, Quiet
  <2>4. u = [t EXCEPT !.tapenext = 0]
    <3>1. t.tapenext = 0
      BY <2>3 DEF Waits
    <3> QED  BY <2>2, <3>1, TicksTo
  <2>5. Waits(u, to, 0, 0, -1, "")
    BY <2>3, <2>4 DEF Waits
  <2> QED  BY <2>5 DEF u
<1>5. Waits(Take(s, Option("parallel")), to, 0, 0, -2, "parallel")
  <2> DEFINE t == TakeOption(s, "parallel")
             u == Take(s, Option("parallel"))
  <2>1. t = [s EXCEPT !.parallelnext = TRUE]
    BY OptionsAre
  <2>2. u = [t EXCEPT !.tapenext = IF @ > 0 THEN @ - 1 ELSE 0]
    BY TakeAnOption
  <2> HIDE DEF t, u
  <2>3. Waits(t, to, 0, 0, -2, "parallel")
    BY <2>1 DEF Waits, Quiet
  <2>4. u = [t EXCEPT !.tapenext = 0]
    <3>1. t.tapenext = 0
      BY <2>3 DEF Waits
    <3> QED  BY <2>2, <3>1, TicksTo
  <2>5. Waits(u, to, 0, 0, -2, "parallel")
    BY <2>3, <2>4 DEF Waits
  <2> QED  BY <2>5 DEF u
<1>6. Waits(Take(s, Option("serial")), to, 0, 0, -2, "serial")
  <2> DEFINE t == TakeOption(s, "serial")
             u == Take(s, Option("serial"))
  <2>1. t = [s EXCEPT !.serialnext = TRUE]
    BY OptionsAre
  <2>2. u = [t EXCEPT !.tapenext = IF @ > 0 THEN @ - 1 ELSE 0]
    BY TakeAnOption
  <2> HIDE DEF t, u
  <2>3. Waits(t, to, 0, 0, -2, "serial")
    BY <2>1 DEF Waits, Quiet
  <2>4. u = [t EXCEPT !.tapenext = 0]
    <3>1. t.tapenext = 0
      BY <2>3 DEF Waits
    <3> QED  BY <2>2, <3>1, TicksTo
  <2>5. Waits(u, to, 0, 0, -2, "serial")
    BY <2>3, <2>4 DEF Waits
  <2> QED  BY <2>5 DEF u
<1>7. Waits(Take(s, Option("serialdebug")), to, 0, 0, -2, "serialdebug")
  <2> DEFINE t == TakeOption(s, "serialdebug")
             u == Take(s, Option("serialdebug"))
  <2>1. t = [s EXCEPT !.debugnext = TRUE]
    BY OptionsAre
  <2>2. u = [t EXCEPT !.tapenext = IF @ > 0 THEN @ - 1 ELSE 0]
    BY TakeAnOption
  <2> HIDE DEF t, u
  <2>3. Waits(t, to, 0, 0, -2, "serialdebug")
    BY <2>1 DEF Waits, Quiet
  <2>4. u = [t EXCEPT !.tapenext = 0]
    <3>1. t.tapenext = 0
      BY <2>3 DEF Waits
    <3> QED  BY <2>2, <3>1, TicksTo
  <2>5. Waits(u, to, 0, 0, -2, "serialdebug")
    BY <2>3, <2>4 DEF Waits
  <2> QED  BY <2>5 DEF u
<1>8. Quiet(Take(s, Option("debug")), [to EXCEPT !.debug = TRUE])
  <2> DEFINE t == TakeOption(s, "debug")
             u == Take(s, Option("debug"))
             more == [to EXCEPT !.debug = TRUE]
  <2>1. t = [s EXCEPT !.to = more]
    BY OptionsAre DEF Quiet, Waits
  <2>2. u = [t EXCEPT !.tapenext = IF @ > 0 THEN @ - 1 ELSE 0]
    BY TakeAnOption
  <2> HIDE DEF t, u, more
  <2>3. Waits(t, more, 0, 0, -2, "")
    BY <2>1 DEF Waits, Quiet
  <2>4. u = [t EXCEPT !.tapenext = 0]
    <3>1. t.tapenext = 0
      BY <2>3 DEF Waits
    <3> QED  BY <2>2, <3>1, TicksTo
  <2>5. Waits(u, more, 0, 0, -2, "")
    BY <2>3, <2>4 DEF Waits
  <2> QED  BY <2>5 DEF u, more, Quiet
<1> QED  BY <1>1, <1>2, <1>3, <1>4, <1>5, <1>6, <1>7, <1>8

(* initelk: the value goes where the option says, and the parser waits for  *)
(* nothing again; after a bank it waits for the bank's file.                *)
LEMMA TakeValueWaits ==
  ASSUME NEW s, NEW to, NEW path, NEW k \in 0..15
  PROVE  /\ Waits(s, to, 1, 0, -2, "")
           => Quiet(Take(s, File(path)), [to EXCEPT !.tape = path])
         /\ Waits(s, to, 0, 1, -2, "")
           => Quiet(Take(s, File(path)), [to EXCEPT !.disc = path])
         /\ Waits(s, to, 0, 2, -2, "")
           => Quiet(Take(s, File(path)), [to EXCEPT !.disc1 = path])
         /\ Waits(s, to, 0, 0, -2, "parallel")
           => Quiet(Take(s, File(path)), [to EXCEPT !.parallel = path])
         /\ Waits(s, to, 0, 0, -2, "serial")
           => Quiet(Take(s, File(path)), [to EXCEPT !.serial = path])
         /\ Waits(s, to, 0, 0, k, "")
           => Quiet(Take(s, File(path)), [to EXCEPT !.roms[k] = path])
         /\ Waits(s, to, 0, 0, -2, "serialdebug")
           => Quiet(Take(s, Number(k)), [to EXCEPT !.serialdebug = k])
         /\ Waits(s, to, 0, 0, -1, "")
           => Waits(Take(s, Number(k)), to, 0, 0, k, "")
<1>1. ASSUME Waits(s, to, 1, 0, -2, "")
      PROVE  Quiet(Take(s, File(path)), [to EXCEPT !.tape = path])
  <2> DEFINE arg == File(path)
             t == TakeValue(s, arg)
             u == Take(s, arg)
             more == [s.to EXCEPT !.tape = arg.file]
  <2>0. arg.option = "" /\ arg.file = path
    BY ArgumentsAre
  <2> HIDE DEF arg
  <2>a. s.to = to /\ s.tapenext = 1 /\ s.discnext =  0 /\ s.romnext =  -2
        /\ (s.parallelnext <=>  "" = "parallel")
        /\ (s.serialnext <=>  "" = "serial")
        /\ (s.debugnext <=>  "" = "serialdebug")
    BY <1>1 DEF Waits
  <2>1. t = [s EXCEPT !.to = more]
    BY <2>a DEF TakeValue, TakeDisc, TakeRom
  <2>b. more = [to EXCEPT !.tape = path]
    BY <2>0, <2>a
  <2>2. u = [t EXCEPT !.tapenext = IF @ > 0 THEN @ - 1 ELSE 0]
    BY <2>0, TakeAValue
  <2> HIDE DEF t, u, more
  <2>3. Waits(t, more, 1, 0, -2, "")
    BY <1>1, <2>0, <2>1 DEF Waits
  <2>4. u = [t EXCEPT !.tapenext = 0]
    <3>1. t.tapenext = 1
      BY <2>3 DEF Waits
    <3> QED  BY <2>2, <3>1, TicksTo
  <2>5. Waits(u, more, 0, 0, -2, "")
    BY <2>3, <2>4 DEF Waits
  <2> QED  BY <2>5, <2>b DEF u, arg, Quiet
<1>2. ASSUME Waits(s, to, 0, 1, -2, "")
      PROVE  Quiet(Take(s, File(path)), [to EXCEPT !.disc = path])
  <2> DEFINE arg == File(path)
             t == TakeValue(s, arg)
             u == Take(s, arg)
             more == [s.to EXCEPT !.disc = arg.file]
  <2>0. arg.option = "" /\ arg.file = path
    BY ArgumentsAre
  <2> HIDE DEF arg
  <2>a. s.to = to /\ s.tapenext = 0 /\ s.discnext =  1 /\ s.romnext =  -2
        /\ (s.parallelnext <=>  "" = "parallel")
        /\ (s.serialnext <=>  "" = "serial")
        /\ (s.debugnext <=>  "" = "serialdebug")
    BY <1>2 DEF Waits
  <2>1. t = [s EXCEPT !.to = more, !.discnext = 0]
    BY <2>a DEF TakeValue, TakeDisc, TakeRom
  <2>b. more = [to EXCEPT !.disc = path]
    BY <2>0, <2>a
  <2>2. u = [t EXCEPT !.tapenext = IF @ > 0 THEN @ - 1 ELSE 0]
    BY <2>0, TakeAValue
  <2> HIDE DEF t, u, more
  <2>3. Waits(t, more, 0, 0, -2, "")
    BY <1>2, <2>0, <2>1 DEF Waits
  <2>4. u = [t EXCEPT !.tapenext = 0]
    <3>1. t.tapenext = 0
      BY <2>3 DEF Waits
    <3> QED  BY <2>2, <3>1, TicksTo
  <2>5. Waits(u, more, 0, 0, -2, "")
    BY <2>3, <2>4 DEF Waits
  <2> QED  BY <2>5, <2>b DEF u, arg, Quiet
<1>3. ASSUME Waits(s, to, 0, 2, -2, "")
      PROVE  Quiet(Take(s, File(path)), [to EXCEPT !.disc1 = path])
  <2> DEFINE arg == File(path)
             t == TakeValue(s, arg)
             u == Take(s, arg)
             more == [s.to EXCEPT !.disc1 = arg.file]
  <2>0. arg.option = "" /\ arg.file = path
    BY ArgumentsAre
  <2> HIDE DEF arg
  <2>a. s.to = to /\ s.tapenext = 0 /\ s.discnext =  2 /\ s.romnext =  -2
        /\ (s.parallelnext <=>  "" = "parallel")
        /\ (s.serialnext <=>  "" = "serial")
        /\ (s.debugnext <=>  "" = "serialdebug")
    BY <1>3 DEF Waits
  <2>1. t = [s EXCEPT !.to = more, !.discnext = 0]
    BY <2>a DEF TakeValue, TakeDisc, TakeRom
  <2>b. more = [to EXCEPT !.disc1 = path]
    BY <2>0, <2>a
  <2>2. u = [t EXCEPT !.tapenext = IF @ > 0 THEN @ - 1 ELSE 0]
    BY <2>0, TakeAValue
  <2> HIDE DEF t, u, more
  <2>3. Waits(t, more, 0, 0, -2, "")
    BY <1>3, <2>0, <2>1 DEF Waits
  <2>4. u = [t EXCEPT !.tapenext = 0]
    <3>1. t.tapenext = 0
      BY <2>3 DEF Waits
    <3> QED  BY <2>2, <3>1, TicksTo
  <2>5. Waits(u, more, 0, 0, -2, "")
    BY <2>3, <2>4 DEF Waits
  <2> QED  BY <2>5, <2>b DEF u, arg, Quiet
<1>4. ASSUME Waits(s, to, 0, 0, -2, "parallel")
      PROVE  Quiet(Take(s, File(path)), [to EXCEPT !.parallel = path])
  <2> DEFINE arg == File(path)
             t == TakeValue(s, arg)
             u == Take(s, arg)
             more == [s.to EXCEPT !.parallel = arg.file]
  <2>0. arg.option = "" /\ arg.file = path
    BY ArgumentsAre
  <2> HIDE DEF arg
  <2>a. s.to = to /\ s.tapenext = 0 /\ s.discnext =  0 /\ s.romnext =  -2
        /\ (s.parallelnext <=>  "parallel" = "parallel")
        /\ (s.serialnext <=>  "parallel" = "serial")
        /\ (s.debugnext <=>  "parallel" = "serialdebug")
    BY <1>4 DEF Waits
  <2>1. t = [s EXCEPT !.to = more, !.parallelnext = FALSE]
    BY <2>a DEF TakeValue, TakeDisc, TakeRom
  <2>b. more = [to EXCEPT !.parallel = path]
    BY <2>0, <2>a
  <2>2. u = [t EXCEPT !.tapenext = IF @ > 0 THEN @ - 1 ELSE 0]
    BY <2>0, TakeAValue
  <2> HIDE DEF t, u, more
  <2>3. Waits(t, more, 0, 0, -2, "")
    BY <1>4, <2>0, <2>1 DEF Waits
  <2>4. u = [t EXCEPT !.tapenext = 0]
    <3>1. t.tapenext = 0
      BY <2>3 DEF Waits
    <3> QED  BY <2>2, <3>1, TicksTo
  <2>5. Waits(u, more, 0, 0, -2, "")
    BY <2>3, <2>4 DEF Waits
  <2> QED  BY <2>5, <2>b DEF u, arg, Quiet
<1>5. ASSUME Waits(s, to, 0, 0, -2, "serial")
      PROVE  Quiet(Take(s, File(path)), [to EXCEPT !.serial = path])
  <2> DEFINE arg == File(path)
             t == TakeValue(s, arg)
             u == Take(s, arg)
             more == [s.to EXCEPT !.serial = arg.file]
  <2>0. arg.option = "" /\ arg.file = path
    BY ArgumentsAre
  <2> HIDE DEF arg
  <2>a. s.to = to /\ s.tapenext = 0 /\ s.discnext =  0 /\ s.romnext =  -2
        /\ (s.parallelnext <=>  "serial" = "parallel")
        /\ (s.serialnext <=>  "serial" = "serial")
        /\ (s.debugnext <=>  "serial" = "serialdebug")
    BY <1>5 DEF Waits
  <2>1. t = [s EXCEPT !.to = more, !.serialnext = FALSE]
    BY <2>a DEF TakeValue, TakeDisc, TakeRom
  <2>b. more = [to EXCEPT !.serial = path]
    BY <2>0, <2>a
  <2>2. u = [t EXCEPT !.tapenext = IF @ > 0 THEN @ - 1 ELSE 0]
    BY <2>0, TakeAValue
  <2> HIDE DEF t, u, more
  <2>3. Waits(t, more, 0, 0, -2, "")
    BY <1>5, <2>0, <2>1 DEF Waits
  <2>4. u = [t EXCEPT !.tapenext = 0]
    <3>1. t.tapenext = 0
      BY <2>3 DEF Waits
    <3> QED  BY <2>2, <3>1, TicksTo
  <2>5. Waits(u, more, 0, 0, -2, "")
    BY <2>3, <2>4 DEF Waits
  <2> QED  BY <2>5, <2>b DEF u, arg, Quiet
<1>6. ASSUME Waits(s, to, 0, 0, k, "")
      PROVE  Quiet(Take(s, File(path)), [to EXCEPT !.roms[k] = path])
  <2> DEFINE arg == File(path)
             t == TakeValue(s, arg)
             u == Take(s, arg)
             more == [s.to EXCEPT !.roms[s.romnext] = arg.file]
  <2>0. arg.option = "" /\ arg.file = path
    BY ArgumentsAre
  <2> HIDE DEF arg
  <2>a. s.to = to /\ s.tapenext = 0 /\ s.discnext =  0 /\ s.romnext =  k
        /\ (s.parallelnext <=>  "" = "parallel")
        /\ (s.serialnext <=>  "" = "serial")
        /\ (s.debugnext <=>  "" = "serialdebug")
    BY <1>6 DEF Waits
  <2>1. t = [s EXCEPT !.to = more, !.romnext = -2]
    BY <2>a DEF TakeValue, TakeDisc, TakeRom
  <2>b. more = [to EXCEPT !.roms[k] = path]
    BY <2>0, <2>a
  <2>2. u = [t EXCEPT !.tapenext = IF @ > 0 THEN @ - 1 ELSE 0]
    BY <2>0, TakeAValue
  <2> HIDE DEF t, u, more
  <2>3. Waits(t, more, 0, 0, -2, "")
    BY <1>6, <2>0, <2>1 DEF Waits
  <2>4. u = [t EXCEPT !.tapenext = 0]
    <3>1. t.tapenext = 0
      BY <2>3 DEF Waits
    <3> QED  BY <2>2, <3>1, TicksTo
  <2>5. Waits(u, more, 0, 0, -2, "")
    BY <2>3, <2>4 DEF Waits
  <2> QED  BY <2>5, <2>b DEF u, arg, Quiet
<1>7. ASSUME Waits(s, to, 0, 0, -2, "serialdebug")
      PROVE  Quiet(Take(s, Number(k)), [to EXCEPT !.serialdebug = k])
  <2> DEFINE arg == Number(k)
             t == TakeValue(s, arg)
             u == Take(s, arg)
             more == [s.to EXCEPT !.serialdebug = arg.number]
  <2>0. arg.option = "" /\ arg.number = k
    BY ArgumentsAre
  <2> HIDE DEF arg
  <2>a. s.to = to /\ s.tapenext = 0 /\ s.discnext =  0 /\ s.romnext =  -2
        /\ (s.parallelnext <=>  "serialdebug" = "parallel")
        /\ (s.serialnext <=>  "serialdebug" = "serial")
        /\ (s.debugnext <=>  "serialdebug" = "serialdebug")
    BY <1>7 DEF Waits
  <2>1. t = [s EXCEPT !.to = more, !.debugnext = FALSE]
    BY <2>a DEF TakeValue, TakeDisc, TakeRom
  <2>b. more = [to EXCEPT !.serialdebug = k]
    BY <2>0, <2>a
  <2>2. u = [t EXCEPT !.tapenext = IF @ > 0 THEN @ - 1 ELSE 0]
    BY <2>0, TakeAValue
  <2> HIDE DEF t, u, more
  <2>3. Waits(t, more, 0, 0, -2, "")
    BY <1>7, <2>0, <2>1 DEF Waits
  <2>4. u = [t EXCEPT !.tapenext = 0]
    <3>1. t.tapenext = 0
      BY <2>3 DEF Waits
    <3> QED  BY <2>2, <3>1, TicksTo
  <2>5. Waits(u, more, 0, 0, -2, "")
    BY <2>3, <2>4 DEF Waits
  <2> QED  BY <2>5, <2>b DEF u, arg, Quiet
<1>8. ASSUME Waits(s, to, 0, 0, -1, "")
      PROVE  Waits(Take(s, Number(k)), to, 0, 0, k, "")
  <2> DEFINE arg == Number(k)
             t == TakeValue(s, arg)
             u == Take(s, arg)
  <2>0. arg.option = "" /\ arg.number = k
    BY ArgumentsAre
  <2> HIDE DEF arg
  <2>a. s.to = to /\ s.tapenext = 0 /\ s.discnext =  0 /\ s.romnext =  -1
        /\ (s.parallelnext <=>  "" = "parallel")
        /\ (s.serialnext <=>  "" = "serial")
        /\ (s.debugnext <=>  "" = "serialdebug")
    BY <1>8 DEF Waits
  <2>1. t = [s EXCEPT !.romnext = arg.number]
    BY <2>a DEF TakeValue, TakeDisc, TakeRom
  <2>2. u = [t EXCEPT !.tapenext = IF @ > 0 THEN @ - 1 ELSE 0]
    BY <2>0, TakeAValue
  <2> HIDE DEF t, u
  <2>3. Waits(t, to, 0, 0, k, "")
    BY <1>8, <2>0, <2>1 DEF Waits
  <2>4. u = [t EXCEPT !.tapenext = 0]
    <3>1. t.tapenext = 0
      BY <2>3 DEF Waits
    <3> QED  BY <2>2, <3>1, TicksTo
  <2>5. Waits(u, to, 0, 0, k, "")
    BY <2>3, <2>4 DEF Waits
  <2> QED  BY <2>5 DEF u, arg, Quiet
<1> QED  BY <1>1, <1>2, <1>3, <1>4, <1>5, <1>6, <1>7, <1>8

-----------------------------------------------------------------------------
(* The settings (config.c) and the discs (disc.c) *)
FirstPart(k) == SettingNames[k][1]
SecondPart(k) == SettingNames[k][2]
PartCount(k) == Len(SettingNames[k])

(* The settings' names, part by part                                        *)
LEMMA NamesAre ==
  /\ DOMAIN SettingNames = 1..23
  /\ PartCount(1) = 1 /\ FirstPart(1) = "tapespeed"
  /\ PartCount(2) = 2 /\ FirstPart(2) = "plus" /\ SecondPart(2) = "1"
  /\ PartCount(3) = 2 /\ FirstPart(3) = "plus" /\ SecondPart(3) = "3"
  /\ PartCount(4) = 1 /\ FirstPart(4) = "dfsena"
  /\ PartCount(5) = 1 /\ FirstPart(5) = "adfsena"
  /\ PartCount(6) = 1 /\ FirstPart(6) = "defaultwriteprotect"
  /\ PartCount(7) = 1 /\ FirstPart(7) = "turbo"
  /\ PartCount(8) = 1 /\ FirstPart(8) = "mrb"
  /\ PartCount(9) = 2 /\ FirstPart(9) = "mrb" /\ SecondPart(9) = "mode"
  /\ PartCount(10) = 1 /\ FirstPart(10) = "ulamode"
  /\ PartCount(11) = 2 /\ FirstPart(11) = "enable_" /\ SecondPart(11) = "jim"
  /\ PartCount(12) = 1 /\ FirstPart(12) = "filter"
  /\ PartCount(13) = 2 /\ FirstPart(13) = "sound_" /\ SecondPart(13) = "internal"
  /\ PartCount(14) = 2 /\ FirstPart(14) = "sound_" /\ SecondPart(14) = "exp"
  /\ PartCount(15) = 2 /\ FirstPart(15) = "sound_" /\ SecondPart(15) = "ddnoise"
  /\ PartCount(16) = 2 /\ FirstPart(16) = "sound_" /\ SecondPart(16) = "ddvol"
  /\ PartCount(17) = 2 /\ FirstPart(17) = "sound_" /\ SecondPart(17) = "ddtype"
  /\ PartCount(18) = 2 /\ FirstPart(18) = "sound_" /\ SecondPart(18) = "tape"
  /\ PartCount(19) = 1 /\ FirstPart(19) = "win_resize"
  /\ PartCount(20) = 2 /\ FirstPart(20) = "joy_" /\ SecondPart(20) = "firstbyte"
  /\ PartCount(21) = 2 /\ FirstPart(21) = "joy_" /\ SecondPart(21) = "offset"
  /\ PartCount(22) = 2 /\ FirstPart(22) = "enable_" /\ SecondPart(22) = "mgc"
  /\ PartCount(23) = 2 /\ FirstPart(23) = "enable_" /\ SecondPart(23) = "db_flash_cartridge"
BY DEF SettingNames, FirstPart, SecondPart, PartCount

(* A name of one part begins another of one part only if it is the same.    *)
LEMMA OneBegins ==
  ASSUME NEW a, NEW c
  PROVE  IsPrefix(<<a>>, <<c>>) <=> a = c
<1>1. Len(<<a>>) = 1 /\ Len(<<c>>) = 1
  OBVIOUS
<1>2. SubSeq(<<a>>, 1, 1)[1] = a /\ SubSeq(<<c>>, 1, 1)[1] = c
  OBVIOUS
<1> QED  BY <1>1, <1>2 DEF IsPrefix

(* A name of one part begins one of two only with its first part.           *)
LEMMA OneBeginsTwo ==
  ASSUME NEW a, NEW c, NEW d, a # c
  PROVE  ~IsPrefix(<<a>>, <<c, d>>)
<1>1. Len(<<a>>) = 1
  OBVIOUS
<1>2. SubSeq(<<a>>, 1, 1)[1] = a /\ SubSeq(<<c, d>>, 1, 1)[1] = c
  OBVIOUS
<1> QED  BY <1>1, <1>2 DEF IsPrefix

(* A name of two parts begins none of one.                                  *)
LEMMA TwoBeginsOne ==
  ASSUME NEW a, NEW b, NEW c
  PROVE  ~IsPrefix(<<a, b>>, <<c>>)
<1>1. Len(<<a, b>>) = 2 /\ Len(<<c>>) = 1
  OBVIOUS
<1> QED  BY <1>1 DEF IsPrefix

(* A name of two parts begins another of two only if it is the same.        *)
LEMMA TwoBegins ==
  ASSUME NEW a, NEW b, NEW c, NEW d
  PROVE  IsPrefix(<<a, b>>, <<c, d>>) <=> a = c /\ b = d
<1>1. Len(<<a, b>>) = 2 /\ Len(<<c, d>>) = 2
  OBVIOUS
<1>2. /\ SubSeq(<<a, b>>, 1, 2)[1] = a /\ SubSeq(<<c, d>>, 1, 2)[1] = c
      /\ SubSeq(<<a, b>>, 1, 2)[2] = b /\ SubSeq(<<c, d>>, 1, 2)[2] = d
  OBVIOUS
<1>3. a = c /\ b = d => <<a, b>> = <<c, d>>
  OBVIOUS
<1> QED  BY <1>1, <1>2, <1>3 DEF IsPrefix

OnePart(k) == PartCount(k) = 1 /\ SettingNames[k] = <<FirstPart(k)>>
TwoParts(k) == PartCount(k) = 2 /\ SettingNames[k] = <<FirstPart(k), SecondPart(k)>>

(* Which of the settings' names have one part and which two                 *)
LEMMA NamesHaveParts ==
  /\ OnePart(1)
  /\ TwoParts(2)
  /\ TwoParts(3)
  /\ OnePart(4)
  /\ OnePart(5)
  /\ OnePart(6)
  /\ OnePart(7)
  /\ OnePart(8)
  /\ TwoParts(9)
  /\ OnePart(10)
  /\ TwoParts(11)
  /\ OnePart(12)
  /\ TwoParts(13)
  /\ TwoParts(14)
  /\ TwoParts(15)
  /\ TwoParts(16)
  /\ TwoParts(17)
  /\ TwoParts(18)
  /\ OnePart(19)
  /\ TwoParts(20)
  /\ TwoParts(21)
  /\ TwoParts(22)
  /\ TwoParts(23)
BY DEF SettingNames, FirstPart, SecondPart, PartCount, OnePart, TwoParts

(* Each name has one part or two.                                           *)
LEMMA OneOrTwo == \A k \in 1..23 : OnePart(k) \/ TwoParts(k)
BY NamesHaveParts

(* TwoParts names differ in the first part, or the later has a second one that   *)
(* the earlier has not.                                                     *)
LEMMA Differ ==
  ASSUME NEW k \in 1..23, NEW j \in 1..23, j < k
  PROVE  \/ FirstPart(k) # FirstPart(j)
         \/ PartCount(k) = 2 /\ (PartCount(j) = 1 \/ SecondPart(k) # SecondPart(j))
<1>1. CASE k = 1
  BY <1>1, NamesAre
<1>2. CASE k = 2
  BY <1>2, NamesAre
<1>3. CASE k = 3
  BY <1>3, NamesAre
<1>4. CASE k = 4
  BY <1>4, NamesAre
<1>5. CASE k = 5
  BY <1>5, NamesAre
<1>6. CASE k = 6
  BY <1>6, NamesAre
<1>7. CASE k = 7
  BY <1>7, NamesAre
<1>8. CASE k = 8
  BY <1>8, NamesAre
<1>9. CASE k = 9
  BY <1>9, NamesAre
<1>10. CASE k = 10
  BY <1>10, NamesAre
<1>11. CASE k = 11
  BY <1>11, NamesAre
<1>12. CASE k = 12
  BY <1>12, NamesAre
<1>13. CASE k = 13
  BY <1>13, NamesAre
<1>14. CASE k = 14
  BY <1>14, NamesAre
<1>15. CASE k = 15
  BY <1>15, NamesAre
<1>16. CASE k = 16
  BY <1>16, NamesAre
<1>17. CASE k = 17
  BY <1>17, NamesAre
<1>18. CASE k = 18
  BY <1>18, NamesAre
<1>19. CASE k = 19
  BY <1>19, NamesAre
<1>20. CASE k = 20
  BY <1>20, NamesAre
<1>21. CASE k = 21
  BY <1>21, NamesAre
<1>22. CASE k = 22
  BY <1>22, NamesAre
<1>23. CASE k = 23
  BY <1>23, NamesAre
<1> QED  BY <1>1, <1>2, <1>3, <1>4, <1>5, <1>6, <1>7, <1>8, <1>9, <1>10, <1>11,
            <1>12, <1>13, <1>14, <1>15, <1>16, <1>17, <1>18, <1>19, <1>20, <1>21,
            <1>22, <1>23

(* getstringcfg: no name begins the line of an earlier setting.             *)
LEMMA NoEarlier ==
  ASSUME NEW k \in 1..23, NEW j \in 1..23, j < k
  PROVE  ~IsPrefix(SettingNames[k], SettingNames[j])
<1> DEFINE a == FirstPart(k)
           b == SecondPart(k)
           c == FirstPart(j)
           d == SecondPart(j)
<1>1. \/ PartCount(k) = 1 /\ SettingNames[k] = <<a>>
      \/ PartCount(k) = 2 /\ SettingNames[k] = <<a, b>>
  BY OneOrTwo DEF OnePart, TwoParts
<1>2. \/ PartCount(j) = 1 /\ SettingNames[j] = <<c>>
      \/ PartCount(j) = 2 /\ SettingNames[j] = <<c, d>>
  BY OneOrTwo DEF OnePart, TwoParts
<1>3. a # c \/ (PartCount(k) = 2 /\ (PartCount(j) = 1 \/ b # d))
  BY Differ
<1> HIDE DEF a, b, c, d
<1>4. CASE SettingNames[k] = <<a>> /\ PartCount(k) = 1 /\ SettingNames[j] = <<c>>
  <2>1. ~IsPrefix(<<a>>, <<c>>)
    BY <1>3, <1>4, OneBegins, OneBeginsTwo, TwoBeginsOne, TwoBegins
  <2> QED  BY <1>4, <2>1
<1>5. CASE SettingNames[k] = <<a>> /\ PartCount(k) = 1 /\ SettingNames[j] = <<c, d>>
  <2>1. ~IsPrefix(<<a>>, <<c, d>>)
    BY <1>3, <1>5, OneBegins, OneBeginsTwo, TwoBeginsOne, TwoBegins
  <2> QED  BY <1>5, <2>1
<1>6. CASE SettingNames[k] = <<a, b>> /\ SettingNames[j] = <<c>>
  <2>1. ~IsPrefix(<<a, b>>, <<c>>)
    BY OneBegins, OneBeginsTwo, TwoBeginsOne, TwoBegins
  <2> QED  BY <1>6, <2>1
<1>7. CASE SettingNames[k] = <<a, b>> /\ SettingNames[j] = <<c, d>> /\ PartCount(j) = 2
  <2>1. ~IsPrefix(<<a, b>>, <<c, d>>)
    BY <1>3, <1>7, OneBegins, OneBeginsTwo, TwoBeginsOne, TwoBegins
  <2> QED  BY <1>7, <2>1
<1> QED  BY <1>1, <1>2, <1>4, <1>5, <1>6, <1>7

(* A name begins the line of its own setting.                               *)
LEMMA BeginsItself ==
  ASSUME NEW k \in 1..23
  PROVE  IsPrefix(SettingNames[k], SettingNames[k])
<1> DEFINE a == FirstPart(k)
           b == SecondPart(k)
<1>1. SettingNames[k] = <<a>> \/ SettingNames[k] = <<a, b>>
  BY OneOrTwo DEF OnePart, TwoParts
<1> HIDE DEF a, b
<1>2. CASE SettingNames[k] = <<a>>
  BY <1>2, OneBegins, OneBeginsTwo, TwoBeginsOne, TwoBegins
<1>3. CASE SettingNames[k] = <<a, b>>
  BY <1>3, OneBegins, OneBeginsTwo, TwoBeginsOne, TwoBegins
<1> QED  BY <1>1, <1>2, <1>3

(* getstringcfg finds the line that was saved for the name. *)
LEMMA SavedIsLoaded ==
  ASSUME NEW values \in [DOMAIN SettingNames -> 0..2]
  PROVE  Loaded(Saved(values)) = values
<1> DEFINE cfg == Saved(values)
<1>0. DOMAIN SettingNames = 1..23
  BY NamesAre
<1>1. /\ DOMAIN cfg = 1..23
      /\ \A k \in 1..23 : cfg[k].name = SettingNames[k] /\ cfg[k].value = values[k]
  BY <1>0 DEF Saved
<1> HIDE DEF cfg
<1>2. ASSUME NEW k \in 1..23
      PROVE  GetIntCfg(cfg, SettingNames[k], Default[k]) = values[k]
  <2> DEFINE at == {j \in DOMAIN cfg : IsPrefix(SettingNames[k], cfg[j].name)}
             found == CHOOSE j \in at : \A i \in at : j <= i
  <2>1. k \in at
    BY <1>1, BeginsItself
  <2>2. \A j \in at : j \in 1..23 /\ ~(j < k)
    BY <1>1, NoEarlier
  <2>3. GetIntCfg(cfg, SettingNames[k], Default[k]) = cfg[found].value
    BY <2>1 DEF GetIntCfg
  <2> HIDE DEF at
  <2>4. \A j \in at : k <= j
    BY <2>2
  <2>5. found \in at /\ \A i \in at : found <= i
    BY <2>1, <2>4
  <2> HIDE DEF found
  <2>6. found = k
    BY <2>1, <2>2, <2>4, <2>5
  <2> QED  BY <1>1, <2>3, <2>6
<1>3. Loaded(cfg) = [k \in 1..23 |-> values[k]]
  <2>1. Loaded(cfg) = [k \in 1..23 |-> GetIntCfg(cfg, SettingNames[k], Default[k])]
    BY <1>0 DEF Loaded
  <2> QED  BY <1>2, <2>1
<1> QED  BY <1>0, <1>3 DEF cfg

(* loaddisc never takes a file for a disc it does not fit. *)
LEMMA ImagesFit ==
  ASSUME NEW kb \in Nat
  PROVE  ImageFits(kb)
<1> DEFINE d == LoadDisc(kb)
<1>1. CASE kb = 800
  <2>1. d = Geometry("ADF", 80, 2, 5, 1024)
    BY <1>1 DEF LoadDisc
  <2> QED  BY <1>1, <2>1 DEF ImageFits, Geometry
<1>2. CASE kb = 640
  <2>1. d = Geometry("ADL", 80, 2, 16, 256)
    BY <1>2 DEF LoadDisc
  <2> QED  BY <1>2, <2>1 DEF ImageFits, Geometry
<1>3. CASE kb = 720
  <2>1. d = Geometry("ADL", 80, 2, 9, 512)
    BY <1>3 DEF LoadDisc
  <2> QED  BY <1>3, <2>1 DEF ImageFits, Geometry
<1>4. CASE kb = 360
  <2>1. d = Geometry("ADL", 40, 2, 9, 512)
    BY <1>4 DEF LoadDisc
  <2> QED  BY <1>4, <2>1 DEF ImageFits, Geometry
<1>5. CASE kb <= 200
  <2>1. d = Geometry("SSD", 80, 1, 10, 256)
    BY <1>5 DEF LoadDisc
  <2> QED  BY <1>5, <2>1 DEF ImageFits, Geometry
<1>6. CASE kb \in 201..400 /\ kb # 360
  <2>1. d = Geometry("DSD", 80, 2, 10, 256)
    BY <1>6 DEF LoadDisc
  <2> QED  BY <1>6, <2>1 DEF ImageFits, Geometry
<1>7. CASE kb > 400 /\ kb # 800 /\ kb # 640 /\ kb # 720
  <2>1. d = Geometry("none", 0, 0, 0, 0)
    BY <1>7 DEF LoadDisc
  <2> QED  BY <1>7, <2>1 DEF ImageFits, Geometry
<1> QED  BY <1>1, <1>2, <1>3, <1>4, <1>5, <1>6, <1>7

-----------------------------------------------------------------------------
(* The command line as a whole *)
LEMMA AfterOne ==
  ASSUME NEW S, NEW args \in Seq(S), NEW a \in S
  PROVE  ParserAfter(args \o <<a>>) = Take(ParserAfter(args), a)
<1>1. args \o <<a>> = Append(args, a)
  OBVIOUS
<1> QED  BY <1>1, ParserAfterOne

(* TwoParts arguments are taken one after the other.                             *)
LEMMA AfterTwo ==
  ASSUME NEW S, NEW args \in Seq(S), NEW a \in S, NEW b \in S
  PROVE  ParserAfter(args \o <<a, b>>) = Take(Take(ParserAfter(args), a), b)
<1> DEFINE first == args \o <<a>>
<1>1. first \in Seq(S) /\ args \o <<a, b>> = Append(first, b)
  OBVIOUS
<1>2. ParserAfter(first) = Take(ParserAfter(args), a)
  BY AfterOne
<1> HIDE DEF first
<1>3. ParserAfter(Append(first, b)) = Take(ParserAfter(first), b)
  BY <1>1, ParserAfterOne
<1> QED  BY <1>1, <1>2, <1>3

(* Three arguments are taken one after the other.                           *)
LEMMA AfterThree ==
  ASSUME NEW S, NEW args \in Seq(S), NEW a \in S, NEW b \in S, NEW c \in S
  PROVE  ParserAfter(args \o <<a, b, c>>) = Take(Take(Take(ParserAfter(args), a), b), c)
<1> DEFINE first == args \o <<a, b>>
<1>1. first \in Seq(S) /\ args \o <<a, b, c>> = Append(first, c)
  OBVIOUS
<1>2. ParserAfter(first) = Take(Take(ParserAfter(args), a), b)
  BY AfterTwo
<1> HIDE DEF first
<1>3. ParserAfter(Append(first, c)) = Take(ParserAfter(first), c)
  BY <1>1, ParserAfterOne
<1> QED  BY <1>1, <1>2, <1>3

ArgumentType == [option : {""} \cup OptionNames, file : {""} \cup Files,
             number : Numbers \cup {0}]

(* An option and its values are arguments.                                  *)
LEMMA ArgumentsTyped ==
  ASSUME NEW name \in OptionNames, NEW path \in Files, NEW number \in Numbers
  PROVE  /\ Option(name) \in ArgumentType /\ File(path) \in ArgumentType
         /\ Number(number) \in ArgumentType
BY DEF Option, File, Number, ArgumentType

(* An option with its values is a piece of a command line.                  *)
LEMMA LineTyped ==
  ASSUME NEW name \in OptionNames, NEW path \in Files, NEW number \in Numbers
  PROVE  Arguments(name, path, number) \in Seq(ArgumentType)
<1> DEFINE opt == Option(name)
           f == File(path)
           n == Number(number)
<1>1. opt \in ArgumentType /\ f \in ArgumentType /\ n \in ArgumentType
  BY ArgumentsTyped
<1>2. \/ Arguments(name, path, number) = <<opt>>
      \/ Arguments(name, path, number) = <<opt, n>>
      \/ Arguments(name, path, number) = <<opt, n, f>>
      \/ Arguments(name, path, number) = <<opt, f>>
  BY DEF Arguments
<1> HIDE DEF opt, n, f
<1>3. /\ <<opt>> \in Seq(ArgumentType) /\ <<opt, n>> \in Seq(ArgumentType)
      /\ <<opt, n, f>> \in Seq(ArgumentType) /\ <<opt, f>> \in Seq(ArgumentType)
  BY <1>1
<1> QED  BY <1>2, <1>3

(* An option given with its values is taken as it was meant, and the parser *)
(* waits for nothing again.                                                 *)
LEMMA OptionGiven ==
  ASSUME line \in Seq(ArgumentType), Quiet(ParserAfter(line), want),
         NEW name \in OptionNames, NEW path \in Files,
         NEW number \in Numbers \cap (0..15), Give(name, path, number)
  PROVE  Quiet(ParserAfter(line'), want')
<1> DEFINE s == ParserAfter(line)
           f == File(path)
           n == Number(number)
<1>1. /\ Option(name) \in ArgumentType /\ f \in ArgumentType /\ n \in ArgumentType
      /\ number \in 0..15
  BY ArgumentsTyped
<1>2. \/ name = "tape" \/ name = "disc" \/ name = "disc1" \/ name = "rom"
      \/ name = "parallel" \/ name = "serial" \/ name = "serialdebug"
      \/ name = "debug"
  BY DEF OptionNames
<1>3. CASE name = "debug"
  <2>1. /\ line' = line \o <<Option("debug")>>
        /\ want' = [want EXCEPT !.debug = TRUE]
    BY <1>3 DEF Give, Arguments
  <2>2. ParserAfter(line') = Take(s, Option("debug"))
    BY <1>1, <1>3, <2>1, AfterOne
  <2> QED  BY <2>1, <2>2, TakeOptionWaits
<1>4. CASE name = "serialdebug"
  <2>1. /\ line' = line \o <<Option("serialdebug"), n>>
        /\ want' = [want EXCEPT !.serialdebug = number]
    BY <1>4 DEF Give, Arguments
  <2> DEFINE t == Take(s, Option("serialdebug"))
  <2>2. ParserAfter(line') = Take(t, n)
    BY <1>1, <1>4, <2>1, AfterTwo
  <2>3. Waits(t, want, 0, 0, -2, "serialdebug")
    BY TakeOptionWaits
  <2> HIDE DEF t
  <2>4. Quiet(Take(t, n), [want EXCEPT !.serialdebug = number])
    BY <1>1, <2>3, TakeValueWaits
  <2> QED  BY <2>1, <2>2, <2>4
<1>5. CASE name = "rom"
  <2>1. /\ line' = line \o <<Option("rom"), n, f>>
        /\ want' = [want EXCEPT !.roms[number] = path]
    BY <1>5 DEF Give, Arguments
  <2> DEFINE t == Take(s, Option("rom"))
             u == Take(t, n)
  <2>2. ParserAfter(line') = Take(u, f)
    BY <1>1, <1>5, <2>1, AfterThree
  <2>3. Waits(t, want, 0, 0, -1, "")
    BY TakeOptionWaits
  <2> HIDE DEF t
  <2>4. Waits(u, want, 0, 0, number, "")
    BY <1>1, <2>3, TakeValueWaits
  <2> HIDE DEF u
  <2>5. Quiet(Take(u, f), [want EXCEPT !.roms[number] = path])
    BY <1>1, <2>4, TakeValueWaits
  <2> QED  BY <2>1, <2>2, <2>5
<1>6. CASE name = "tape"
  <2>1. /\ line' = line \o <<Option("tape"), f>>
        /\ want' = [want EXCEPT !.tape = path]
    BY <1>6 DEF Give, Arguments
  <2> DEFINE t == Take(s, Option("tape"))
  <2>2. ParserAfter(line') = Take(t, f)
    BY <1>1, <1>6, <2>1, AfterTwo
  <2>3. Waits(t, want, 1, 0, -2, "")
    BY TakeOptionWaits
  <2> HIDE DEF t
  <2>4. Quiet(Take(t, f), [want EXCEPT !.tape = path])
    BY <1>1, <2>3, TakeValueWaits
  <2> QED  BY <2>1, <2>2, <2>4
<1>7. CASE name = "disc"
  <2>1. /\ line' = line \o <<Option("disc"), f>>
        /\ want' = [want EXCEPT !.disc = path]
    BY <1>7 DEF Give, Arguments
  <2> DEFINE t == Take(s, Option("disc"))
  <2>2. ParserAfter(line') = Take(t, f)
    BY <1>1, <1>7, <2>1, AfterTwo
  <2>3. Waits(t, want, 0, 1, -2, "")
    BY TakeOptionWaits
  <2> HIDE DEF t
  <2>4. Quiet(Take(t, f), [want EXCEPT !.disc = path])
    BY <1>1, <2>3, TakeValueWaits
  <2> QED  BY <2>1, <2>2, <2>4
<1>8. CASE name = "disc1"
  <2>1. /\ line' = line \o <<Option("disc1"), f>>
        /\ want' = [want EXCEPT !.disc1 = path]
    BY <1>8 DEF Give, Arguments
  <2> DEFINE t == Take(s, Option("disc1"))
  <2>2. ParserAfter(line') = Take(t, f)
    BY <1>1, <1>8, <2>1, AfterTwo
  <2>3. Waits(t, want, 0, 2, -2, "")
    BY TakeOptionWaits
  <2> HIDE DEF t
  <2>4. Quiet(Take(t, f), [want EXCEPT !.disc1 = path])
    BY <1>1, <2>3, TakeValueWaits
  <2> QED  BY <2>1, <2>2, <2>4
<1>9. CASE name = "parallel"
  <2>1. /\ line' = line \o <<Option("parallel"), f>>
        /\ want' = [want EXCEPT !.parallel = path]
    BY <1>9 DEF Give, Arguments
  <2> DEFINE t == Take(s, Option("parallel"))
  <2>2. ParserAfter(line') = Take(t, f)
    BY <1>1, <1>9, <2>1, AfterTwo
  <2>3. Waits(t, want, 0, 0, -2, "parallel")
    BY TakeOptionWaits
  <2> HIDE DEF t
  <2>4. Quiet(Take(t, f), [want EXCEPT !.parallel = path])
    BY <1>1, <2>3, TakeValueWaits
  <2> QED  BY <2>1, <2>2, <2>4
<1>10. CASE name = "serial"
  <2>1. /\ line' = line \o <<Option("serial"), f>>
        /\ want' = [want EXCEPT !.serial = path]
    BY <1>10 DEF Give, Arguments
  <2> DEFINE t == Take(s, Option("serial"))
  <2>2. ParserAfter(line') = Take(t, f)
    BY <1>1, <1>10, <2>1, AfterTwo
  <2>3. Waits(t, want, 0, 0, -2, "serial")
    BY TakeOptionWaits
  <2> HIDE DEF t
  <2>4. Quiet(Take(t, f), [want EXCEPT !.serial = path])
    BY <1>1, <2>3, TakeValueWaits
  <2> QED  BY <2>1, <2>2, <2>4
<1> QED  BY <1>2, <1>3, <1>4, <1>5, <1>6, <1>7, <1>8, <1>9, <1>10

(* An option leaves what is wanted in its type.                             *)
LEMMA WantTyped ==
  ASSUME want \in Wanted, NEW name \in OptionNames, NEW path \in Files,
         NEW number \in Numbers \cap (0..15), Give(name, path, number)
  PROVE  want' \in Wanted
<1> DEFINE yes == TRUE
<1>0. /\ yes \in BOOLEAN /\ path \in {""} \cup Files
      /\ number \in Numbers \cup {0}
  OBVIOUS
<1>1. CASE name = "debug"
  <2>1. want' = [want EXCEPT !.debug = yes]
    BY <1>1 DEF Give
  <2> HIDE DEF yes
  <2> QED  BY <1>0, <2>1, ZenonT(30) DEF Wanted
<1>2. CASE name = "serialdebug"
  <2>1. want' = [want EXCEPT !.serialdebug = number]
    BY <1>2 DEF Give
  <2> HIDE DEF yes
  <2> QED  BY <1>0, <2>1, ZenonT(30) DEF Wanted
<1>3. CASE name = "rom"
  <2> DEFINE roms == [want.roms EXCEPT ![number] = path]
  <2>1. want' = [want EXCEPT !.roms = roms]
    BY <1>3 DEF Give
  <2>2. roms \in [0..15 -> {""} \cup Files]
    <3>1. want.roms \in [0..15 -> {""} \cup Files]
      BY Zenon DEF Wanted
    <3> QED  BY <3>1
  <2> HIDE DEF roms
  <2> QED  BY <2>1, <2>2, ZenonT(30) DEF Wanted
<1>4. CASE name = "tape"
  <2>1. want' = [want EXCEPT !.tape = path]
    BY <1>4 DEF Give
  <2> HIDE DEF yes
  <2> QED  BY <1>0, <2>1, ZenonT(30) DEF Wanted
<1>5. CASE name = "disc"
  <2>1. want' = [want EXCEPT !.disc = path]
    BY <1>5 DEF Give
  <2> HIDE DEF yes
  <2> QED  BY <1>0, <2>1, ZenonT(30) DEF Wanted
<1>6. CASE name = "disc1"
  <2>1. want' = [want EXCEPT !.disc1 = path]
    BY <1>6 DEF Give
  <2> HIDE DEF yes
  <2> QED  BY <1>0, <2>1, ZenonT(30) DEF Wanted
<1>7. CASE name = "parallel"
  <2>1. want' = [want EXCEPT !.parallel = path]
    BY <1>7 DEF Give
  <2> HIDE DEF yes
  <2> QED  BY <1>0, <2>1, ZenonT(30) DEF Wanted
<1>8. CASE name = "serial"
  <2>1. want' = [want EXCEPT !.serial = path]
    BY <1>8 DEF Give
  <2> HIDE DEF yes
  <2> QED  BY <1>0, <2>1, ZenonT(30) DEF Wanted
<1> QED  BY <1>1, <1>2, <1>3, <1>4, <1>5, <1>6, <1>7, <1>8 DEF OptionNames

(* A step leaves each variable in its type.                                 *)
LEMMA TypeKept ==
  ASSUME StartupTypeOK, StartupNext
  PROVE  StartupTypeOK'
<1>1. /\ line \in Seq(ArgumentType) /\ settings \in [DOMAIN SettingNames -> 0..2]
      /\ choices \in 0..MaxChoices /\ MaxChoices \in Nat /\ want \in Wanted
  BY StartupAssumption DEF StartupTypeOK, ArgumentType
<1>2. CASE GiveOption
  <2>1. PICK name \in OptionNames, path \in Files, number \in Numbers \cap (0..15) :
          Give(name, path, number)
    BY <1>2 DEF GiveOption
  <2> DEFINE args == Arguments(name, path, number)
  <2>2. args \in Seq(ArgumentType) /\ line' = line \o args
    BY <2>1, LineTyped DEF Give
  <2> HIDE DEF args
  <2>3. line' \in Seq(ArgumentType)
    BY <1>1, <2>2
  <2>4. choices' \in 0..MaxChoices /\ settings' = settings
    BY <1>1, <1>2 DEF GiveOption, Choose
  <2>5. want' \in Wanted
    BY <1>1, <2>1, WantTyped
  <2> QED  BY <1>1, <2>3, <2>4, <2>5 DEF StartupTypeOK, ArgumentType
<1>3. CASE ChangeSetting
  <2>1. choices' \in 0..MaxChoices /\ line' = line /\ want' = want
    BY <1>1, <1>3 DEF ChangeSetting, Choose
  <2>2. settings' \in [DOMAIN SettingNames -> 0..2]
    BY <1>1, <1>3 DEF ChangeSetting
  <2> QED  BY <1>1, <2>1, <2>2 DEF StartupTypeOK, ArgumentType
<1>4. CASE Restart
  <2>1. settings' = settings
    BY <1>1, <1>4, SavedIsLoaded DEF Restart
  <2> QED  BY <1>1, <1>4, <2>1 DEF Restart, StartupTypeOK, ArgumentType
<1> QED  BY <1>2, <1>3, <1>4 DEF StartupNext

(* A step leaves a parser that waits for nothing at the end of the line.    *)
LEMMA QuietKept ==
  ASSUME StartupTypeOK, StartupNext, Quiet(ParserAfter(line), want)
  PROVE  Quiet(ParserAfter(line'), want')
<1>1. line \in Seq(ArgumentType)
  BY DEF StartupTypeOK, ArgumentType
<1>2. CASE GiveOption
  <2>1. PICK name \in OptionNames, path \in Files, number \in Numbers \cap (0..15) :
          Give(name, path, number)
    BY <1>2 DEF GiveOption
  <2> QED  BY <1>1, <2>1, OptionGiven
<1>3. CASE ChangeSetting
  BY <1>3 DEF ChangeSetting
<1>4. CASE Restart
  BY <1>4 DEF Restart
<1> QED  BY <1>2, <1>3, <1>4 DEF StartupNext

(* Before each argument of the next option the parser waits for nothing.    *)
StartupInv == StartupTypeOK /\ Quiet(ParserAfter(line), want)

(* initelk: at the end of every command line of options and their values    *)
(* the parser waits for nothing and has what was wanted.                    *)
THEOREM StartupInvariant == StartupSpec => []StartupInv
<1>1. StartupInit => StartupInv
  <2> SUFFICES ASSUME StartupInit PROVE StartupInv
    OBVIOUS
  <2>1. line = <<>> /\ want = NoFiles /\ settings = Default /\ choices = 0
    BY DEF StartupInit
  <2>2. Quiet(ParserAfter(line), want)
    BY <2>1, ParserAfterNone, ParserQuiet
  <2>3. settings \in [DOMAIN SettingNames -> 0..2]
    <3>1. Default \in [DOMAIN SettingNames -> 0..2]
      <4> SUFFICES ASSUME NEW k \in DOMAIN SettingNames
                   PROVE  Default[k] \in 0..2
        BY DEF Default
      <4>1. Default[k] = 1 \/ Default[k] = 2 \/ Default[k] = 0
        BY DEF Default
      <4> QED  BY <4>1
    <3> QED  BY <2>1, <3>1
  <2>4. choices \in 0..MaxChoices /\ line \in Seq(ArgumentType)
    BY <2>1, StartupAssumption
  <2>5. want \in Wanted
    BY <2>1 DEF NoFiles, Wanted
  <2> QED  BY <2>2, <2>3, <2>4, <2>5 DEF StartupInv, StartupTypeOK, ArgumentType
<1>2. StartupInv /\ [StartupNext]_startup => StartupInv'
  <2> SUFFICES ASSUME StartupInv, [StartupNext]_startup PROVE StartupInv'
    OBVIOUS
  <2>1. CASE StartupNext
    BY <2>1, TypeKept, QuietKept DEF StartupInv
  <2>2. CASE UNCHANGED startup
    BY <2>2 DEF StartupInv, StartupTypeOK, startup
  <2> QED  BY <2>1, <2>2
<1> QED  BY <1>1, <1>2, PTL DEF StartupSpec

(* The variables have their types, for any files, numbers and choices.      *)
THEOREM StartupTypeCorrect == StartupSpec => []StartupTypeOK
BY StartupInvariant, PTL DEF StartupInv

(* Every command line of options with their values is taken as it was       *)
(* meant, whatever its length; every setting that is saved is loaded again; *)
(* and a file of any size fits the disc loaddisc takes it for.              *)
THEOREM StartupIsRight == StartupSpec => []StartupRight
<1>1. StartupInv => StartupRight
  <2> SUFFICES ASSUME StartupInv PROVE StartupRight
    OBVIOUS
  <2>1. OptionsTaken
    BY DEF StartupInv, OptionsTaken, Parsed, Quiet, Waits
  <2>2. SettingsKept
    BY SavedIsLoaded DEF StartupInv, StartupTypeOK, SettingsKept
  <2>3. SizesFit
    BY ImagesFit DEF SizesFit
  <2> QED  BY <2>1, <2>2, <2>3 DEF StartupRight
<1> QED  BY <1>1, StartupInvariant, PTL

-----------------------------------------------------------------------------
(* The memory (mem.c, savestate.c) *)
USE MemoryAssumption

-----------------------------------------------------------------------------
(* What the operators leave in its type.  (mem.c) *)

Names ==
  {"turbo", "mrb", "mrbmode", "plus3", "plus1", "firstbyte", "sndex",
   "adfsena", "dfsena", "jim", "mgc"}
SavedNames == Names \ {"jim", "mgc"}

(* The options are switches, but for the board's mode. *)
LEMMA OptionFields ==
  ASSUME NEW opt \in Options
  PROVE  /\ DOMAIN opt = Names
         /\ opt.turbo \in BOOLEAN /\ opt.mrb \in BOOLEAN
         /\ opt.mrbmode \in 0..2 /\ opt.plus3 \in BOOLEAN
         /\ opt.plus1 \in BOOLEAN /\ opt.firstbyte \in BOOLEAN
         /\ opt.sndex \in BOOLEAN /\ opt.adfsena \in BOOLEAN
         /\ opt.dfsena \in BOOLEAN /\ opt.jim \in BOOLEAN
         /\ opt.mgc \in BOOLEAN
  BY DEF Options, Names

(* What the memory is made of *)
LEMMA StoreFields ==
  ASSUME NEW mem \in Memories
  PROVE  /\ mem.ram \in Values \X Values /\ mem.ram2 \in Values \X Values
         /\ mem.dfs \in Values /\ mem.snd \in Values /\ mem.ram6 \in Values
         /\ mem.jim \in [0..1 -> Values] /\ mem.usedrom6 \in BOOLEAN
         /\ mem.cart \in BOOLEAN /\ mem.fastlow \in BOOLEAN
         /\ mem.fasthigh2 \in BOOLEAN /\ mem.enabled \in SUBSET Banks
         /\ mem.rombank \in Banks /\ mem.extrom \in BOOLEAN
         /\ mem.intrombank \in 8..11 /\ mem.bank \in Values
         /\ mem.jimpage \in 0..1
  BY DEF Memories

(* A reset wires the memory by the options.  (resetmem, update_rom_config) *)
LEMMA ResetMemType ==
  ASSUME NEW opt \in Options, NEW mem \in Memories
  PROVE  ResetMem(opt, mem) \in Memories
<1> DEFINE banks ==
             { bank \in Banks :
               \/ bank = Plus1Bank /\ opt.plus1
               \/ bank = SoundBank /\ opt.sndex
               \/ bank = AdfsBank /\ opt.plus3 /\ opt.adfsena
               \/ bank = DfsBank /\ opt.plus3 /\ opt.dfsena }
           low == opt.turbo \/ (opt.mrb /\ opt.mrbmode # 0)
           high == opt.mrb /\ opt.mrbmode = 2
           a == [mem EXCEPT !.enabled = banks]
<1>1. banks \in SUBSET Banks /\ low \in BOOLEAN /\ high \in BOOLEAN
      /\ 0 \in Values /\ 0 \in 0..1
  BY DEF Values
<1>2. UpdateRomConfig(opt, mem) = a
  BY DEF UpdateRomConfig
<1> HIDE DEF banks
<1>3. a \in Memories
  BY <1>1, ZenonT(30) DEF Memories
<1> HIDE DEF a
<1>4. ResetMem(opt, mem) =
        [a EXCEPT !.fastlow = low, !.fasthigh2 = high, !.bank = 0,
                  !.jimpage = 0]
  BY <1>2, Zenon DEF ResetMem
<1> HIDE DEF low, high
<1> QED  BY <1>1, <1>3, <1>4, ZenonT(30) DEF Memories

(* A write goes to one of the memories, or to a register.  (writemem) *)
LEMMA WriteType ==
  ASSUME NEW opt \in Options, NEW mem \in Memories, NEW video \in BOOLEAN,
         NEW v \in Values,
         NEW place \in {"low", "high", "sideways", "fd", "fcff", "fc00", "fc7f"}
  PROVE  WriteMem(opt, mem, place, video, v) \in Memories
<1> DEFINE w == WriteMem(opt, mem, place, video, v)
<1>1. ASSUME NEW pair \in Values \X Values
      PROVE  /\ [pair EXCEPT ![1] = v] \in Values \X Values
             /\ [pair EXCEPT ![2] = v] \in Values \X Values
  OBVIOUS
<1>2. mem.ram \in Values \X Values /\ mem.ram2 \in Values \X Values
      /\ mem.jim \in [0..1 -> Values] /\ mem.jimpage \in 0..1
  BY StoreFields
<1>3. v \in 0..1 /\ TRUE \in BOOLEAN
  BY DEF Values
<1>4. CASE place = "low"
  <2> DEFINE a == [mem.ram2 EXCEPT ![1] = v]
             b == [mem.ram EXCEPT ![1] = v]
  <2>1. w = [mem EXCEPT !.ram2 = a] \/ w = [mem EXCEPT !.ram = b]
    BY <1>4, SMT DEF WriteMem
  <2>2. a \in Values \X Values /\ b \in Values \X Values
    BY <1>1, <1>2
  <2> HIDE DEF a, b, w
  <2>3. [mem EXCEPT !.ram2 = a] \in Memories /\ [mem EXCEPT !.ram = b] \in Memories
    BY <2>2, ZenonT(30) DEF Memories
  <2> QED  BY <2>1, <2>3 DEF w
<1>5. CASE place = "high"
  <2> DEFINE a == [mem.ram2 EXCEPT ![2] = v]
             b == [mem.ram EXCEPT ![2] = v]
  <2>1. w = [mem EXCEPT !.ram2 = a] \/ w = [mem EXCEPT !.ram = b]
    BY <1>5, SMT DEF WriteMem
  <2>2. a \in Values \X Values /\ b \in Values \X Values
    BY <1>1, <1>2
  <2> HIDE DEF a, b, w
  <2>3. [mem EXCEPT !.ram2 = a] \in Memories /\ [mem EXCEPT !.ram = b] \in Memories
    BY <2>2, ZenonT(30) DEF Memories
  <2> QED  BY <2>1, <2>3 DEF w
<1>6. CASE place = "sideways"
  <2>1. w \in {mem, [mem EXCEPT !.snd = v], [mem EXCEPT !.dfs = v],
               [mem EXCEPT !.ram6 = v, !.usedrom6 = TRUE]}
    BY <1>6, SMT DEF WriteMem, WriteSideways, SoundBank, DfsBank, RamBank
  <2> HIDE DEF w
  <2>2. /\ [mem EXCEPT !.snd = v] \in Memories
        /\ [mem EXCEPT !.dfs = v] \in Memories
        /\ [mem EXCEPT !.ram6 = v, !.usedrom6 = TRUE] \in Memories
    BY <1>3, ZenonT(30) DEF Memories
  <2> QED  BY <2>1, <2>2 DEF w
<1>7. CASE place \in {"fd", "fcff", "fc00"}
  <2> DEFINE a == [mem.jim EXCEPT ![mem.jimpage] = v]
  <2>1. w \in {mem, [mem EXCEPT !.jim = a], [mem EXCEPT !.jimpage = v],
               [mem EXCEPT !.bank = v]}
    BY <1>7, SMT DEF WriteMem
  <2>2. a \in [0..1 -> Values]
    BY <1>2
  <2> HIDE DEF a, w
  <2>3. /\ [mem EXCEPT !.jim = a] \in Memories
        /\ [mem EXCEPT !.jimpage = v] \in Memories
        /\ [mem EXCEPT !.bank = v] \in Memories
    BY <1>3, <2>2, ZenonT(30) DEF Memories
  <2> QED  BY <2>1, <2>3 DEF w
<1>8. CASE place = "fc7f"
  <2> DEFINE mapped == v = 0
             low == opt.turbo \/ (opt.mrbmode # 0 /\ mapped)
             high == opt.mrbmode = 2 /\ mapped
  <2>1. low \in BOOLEAN /\ high \in BOOLEAN
    OBVIOUS
  <2>2. w = IF ~opt.mrb THEN mem
            ELSE [mem EXCEPT !.fastlow = low, !.fasthigh2 = high]
    BY <1>8, Zenon DEF WriteMem, SwitchBoard
  <2> HIDE DEF low, high, w
  <2>3. [mem EXCEPT !.fastlow = low, !.fasthigh2 = high] \in Memories
    BY <2>1, ZenonT(30) DEF Memories
  <2> QED  BY <2>2, <2>3 DEF w
<1> QED  BY <1>4, <1>5, <1>6, <1>7, <1>8

(* The bank selected is one of the program's.  (FE05) *)
LEMMA SelectBankType ==
  ASSUME NEW mem \in Memories, NEW bank \in Banks
  PROVE  SelectBank(mem, bank) \in Memories
<1> DEFINE ext == IF bank >= 12 THEN TRUE
                  ELSE IF bank \in 8..11 THEN FALSE ELSE mem.extrom
           inside == IF bank \in 8..11 THEN bank ELSE mem.intrombank
<1>1. SelectBank(mem, bank) =
        [mem EXCEPT !.rombank = bank, !.extrom = ext, !.intrombank = inside]
  BY Zenon DEF SelectBank
<1>2. ext \in BOOLEAN /\ inside \in 8..11
  BY StoreFields
<1> HIDE DEF ext, inside
<1> QED  BY <1>1, <1>2, ZenonT(30) DEF Memories

-----------------------------------------------------------------------------
(* What a file holds, and where.  (savememstate, loadmemstate) *)

(* The place of each memory in the file, as savememstate writes them *)
LEMMA SavedCells ==
  ASSUME NEW opt \in Options, NEW mem \in Memories
  PROVE  LET cells == SaveMem(opt, mem)
             dfsat == 3 + (IF opt.mrb THEN 2 ELSE 0)
             sndat == dfsat + (IF opt.plus3 /\ opt.dfsena THEN 1 ELSE 0)
             ram6at == sndat + (IF opt.sndex THEN 1 ELSE 0)
         IN  /\ cells[1] = mem.ram[1] /\ cells[2] = mem.ram[2]
             /\ opt.mrb => /\ {3, 4} \subseteq DOMAIN cells
                           /\ cells[3] = mem.ram2[1] /\ cells[4] = mem.ram2[2]
             /\ opt.plus3 /\ opt.dfsena =>
                  dfsat \in DOMAIN cells /\ cells[dfsat] = mem.dfs
             /\ opt.sndex => sndat \in DOMAIN cells /\ cells[sndat] = mem.snd
             /\ mem.usedrom6 =>
                  ram6at \in DOMAIN cells /\ cells[ram6at] = mem.ram6
<1> DEFINE hasdfs == opt.plus3 /\ opt.dfsena
           fastram == IF opt.mrb THEN mem.ram2 ELSE <<>>
           dfs == IF hasdfs THEN <<mem.dfs>> ELSE <<>>
           snd == IF opt.sndex THEN <<mem.snd>> ELSE <<>>
           ram6 == IF mem.usedrom6 THEN <<mem.ram6>> ELSE <<>>
           dfsat == 3 + (IF opt.mrb THEN 2 ELSE 0)
           sndat == dfsat + (IF hasdfs THEN 1 ELSE 0)
           ram6at == sndat + (IF opt.sndex THEN 1 ELSE 0)
           a == mem.ram \o fastram
           b == a \o dfs
           c == b \o snd
           d == c \o ram6
<1>1. ASSUME NEW s \in Seq(Values), NEW t \in Seq(Values)
      PROVE  /\ s \o t \in Seq(Values) /\ Len(s \o t) = Len(s) + Len(t)
             /\ \A i \in 1..Len(s) : (s \o t)[i] = s[i]
             /\ \A i \in 1..Len(t) : (s \o t)[Len(s) + i] = t[i]
             /\ DOMAIN (s \o t) = 1..(Len(s) + Len(t))
  BY <1>1
<1>2. ASSUME NEW pair \in Values \X Values
      PROVE  pair \in Seq(Values) /\ Len(pair) = 2 /\ DOMAIN pair = 1..2
  <2>1. PICK x \in Values, y \in Values : pair = <<x, y>>
    BY <1>2
  <2> QED  BY <2>1
<1>3. ASSUME NEW v \in Values
      PROVE  <<v>> \in Seq(Values) /\ Len(<<v>>) = 1 /\ <<v>>[1] = v
  BY <1>3
<1>4. <<>> \in Seq(Values) /\ Len(<<>>) = 0
  OBVIOUS
<1>5. mem.ram \in Values \X Values /\ mem.ram2 \in Values \X Values
      /\ mem.dfs \in Values /\ mem.snd \in Values /\ mem.ram6 \in Values
  BY StoreFields
<1>6. /\ mem.ram \in Seq(Values) /\ Len(mem.ram) = 2
      /\ fastram \in Seq(Values)
      /\ Len(fastram) = IF opt.mrb THEN 2 ELSE 0
      /\ opt.mrb => fastram = mem.ram2
  <2>1. /\ mem.ram \in Seq(Values) /\ Len(mem.ram) = 2
        /\ mem.ram2 \in Seq(Values) /\ Len(mem.ram2) = 2
    BY <1>2, <1>5, Zenon
  <2>2. CASE opt.mrb
    <3>1. fastram = mem.ram2
      BY <2>2
    <3> QED  BY <2>1, <2>2, <3>1, Zenon
  <2>3. CASE ~opt.mrb
    <3>1. fastram = <<>>
      BY <2>3
    <3> HIDE DEF fastram
    <3>2. fastram \in Seq(Values) /\ Len(fastram) = 0
      BY <1>4, <3>1
    <3> QED  BY <2>1, <2>3, <3>2
  <2> QED  BY <2>2, <2>3
<1>7. /\ dfs \in Seq(Values) /\ Len(dfs) = (IF hasdfs THEN 1 ELSE 0)
      /\ hasdfs => dfs[1] = mem.dfs
  BY <1>3, <1>4, <1>5
<1>8. /\ snd \in Seq(Values) /\ Len(snd) = (IF opt.sndex THEN 1 ELSE 0)
      /\ opt.sndex => snd[1] = mem.snd
  BY <1>3, <1>4, <1>5
<1>9. /\ ram6 \in Seq(Values) /\ Len(ram6) = (IF mem.usedrom6 THEN 1 ELSE 0)
      /\ mem.usedrom6 => ram6[1] = mem.ram6
  BY <1>3, <1>4, <1>5
<1>10. SaveMem(opt, mem) = d
  BY DEF SaveMem
<1>19. /\ dfsat \in Nat /\ sndat \in Nat /\ ram6at \in Nat
       /\ dfsat = 3 + (IF opt.mrb THEN 2 ELSE 0)
       /\ hasdfs => sndat = dfsat + 1
       /\ ~hasdfs => sndat = dfsat
       /\ opt.sndex => ram6at = sndat + 1
       /\ ~opt.sndex => ram6at = sndat
       /\ sndat >= dfsat /\ ram6at >= sndat
  OBVIOUS
<1> HIDE DEF fastram, dfs, snd, ram6, hasdfs, dfsat, sndat, ram6at
<1>11. /\ a \in Seq(Values) /\ Len(a) = dfsat - 1
       /\ a[1] = mem.ram[1] /\ a[2] = mem.ram[2]
       /\ opt.mrb => a[3] = mem.ram2[1] /\ a[4] = mem.ram2[2]
  <2>1. /\ a \in Seq(Values) /\ Len(a) = 2 + Len(fastram)
        /\ \A i \in 1..2 : a[i] = mem.ram[i]
        /\ \A i \in 1..Len(fastram) : a[2 + i] = fastram[i]
    <3> HIDE DEF a
    <3>1. /\ a \in Seq(Values) /\ Len(a) = Len(mem.ram) + Len(fastram)
          /\ \A i \in 1..Len(mem.ram) : a[i] = mem.ram[i]
          /\ \A i \in 1..Len(fastram) : a[Len(mem.ram) + i] = fastram[i]
      BY <1>1, <1>6, Zenon DEF a
    <3>2. Len(mem.ram) = 2
      BY <1>6
    <3> QED  BY <3>1, <3>2, Zenon
  <2> HIDE DEF a
  <2>2. opt.mrb => a[2 + 1] = fastram[1] /\ a[2 + 2] = fastram[2]
    BY <1>6, <2>1
  <2> QED  BY <1>6, <1>19, <2>1, <2>2
<1> HIDE DEF a
<1>12. /\ b \in Seq(Values) /\ Len(b) = sndat - 1
       /\ \A i \in 1..Len(a) : b[i] = a[i]
       /\ hasdfs => b[dfsat] = mem.dfs
  <2>1. /\ b \in Seq(Values) /\ Len(b) = Len(a) + Len(dfs)
        /\ \A i \in 1..Len(a) : b[i] = a[i]
        /\ \A i \in 1..Len(dfs) : b[Len(a) + i] = dfs[i]
    BY <1>1, <1>7, <1>11
  <2> HIDE DEF b
  <2>2. hasdfs => b[Len(a) + 1] = dfs[1]
    BY <1>7, <2>1
  <2> QED  BY <1>7, <1>11, <1>19, <2>1, <2>2
<1> HIDE DEF b
<1>13. /\ c \in Seq(Values) /\ Len(c) = ram6at - 1
       /\ \A i \in 1..Len(b) : c[i] = b[i]
       /\ opt.sndex => c[sndat] = mem.snd
  <2>1. /\ c \in Seq(Values) /\ Len(c) = Len(b) + Len(snd)
        /\ \A i \in 1..Len(b) : c[i] = b[i]
        /\ \A i \in 1..Len(snd) : c[Len(b) + i] = snd[i]
    BY <1>1, <1>8, <1>12
  <2> HIDE DEF c
  <2>2. opt.sndex => c[Len(b) + 1] = snd[1]
    BY <1>8, <2>1
  <2> QED  BY <1>8, <1>12, <1>19, <2>1, <2>2
<1> HIDE DEF c
<1>14. /\ DOMAIN d = 1..(Len(c) + Len(ram6))
       /\ \A i \in 1..Len(c) : d[i] = c[i]
       /\ mem.usedrom6 => d[ram6at] = mem.ram6
  <2>1. /\ DOMAIN d = 1..(Len(c) + Len(ram6))
        /\ \A i \in 1..Len(c) : d[i] = c[i]
        /\ \A i \in 1..Len(ram6) : d[Len(c) + i] = ram6[i]
    BY <1>1, <1>9, <1>13
  <2> HIDE DEF d
  <2>2. mem.usedrom6 => d[Len(c) + 1] = ram6[1]
    BY <1>9, <2>1
  <2> QED  BY <1>9, <1>13, <1>19, <2>1, <2>2
<1> HIDE DEF d
<1>15. /\ d[1] = mem.ram[1] /\ d[2] = mem.ram[2]
       /\ opt.mrb => /\ {3, 4} \subseteq DOMAIN d
                     /\ d[3] = mem.ram2[1] /\ d[4] = mem.ram2[2]
  BY <1>9, <1>11, <1>12, <1>13, <1>14, <1>19
<1>16. hasdfs => dfsat \in DOMAIN d /\ d[dfsat] = mem.dfs
  BY <1>9, <1>11, <1>12, <1>13, <1>14, <1>19
<1>17. opt.sndex => sndat \in DOMAIN d /\ d[sndat] = mem.snd
  BY <1>9, <1>11, <1>12, <1>13, <1>14, <1>19
<1>18. mem.usedrom6 => ram6at \in DOMAIN d /\ d[ram6at] = mem.ram6
  BY <1>9, <1>11, <1>12, <1>13, <1>14, <1>19
<1> QED  BY <1>10, <1>15, <1>16, <1>17, <1>18 DEF hasdfs, dfsat,
          sndat, ram6at

(* A file read with the options it was written with puts every memory back  *)
(* that it holds, and leaves the wiring alone.                              *)
LEMMA LoadMemRestores ==
  ASSUME NEW opt \in Options, NEW was \in Options,
         NEW mem \in Memories, NEW old \in Memories,
         opt.mrb = was.mrb, opt.plus3 = was.plus3, opt.dfsena = was.dfsena,
         opt.sndex = was.sndex, old.usedrom6 = mem.usedrom6
  PROVE  LET r == LoadMem(opt, old, SaveMem(was, mem))
         IN  /\ r \in Memories /\ r.ram = mem.ram
             /\ opt.mrb => r.ram2 = mem.ram2
             /\ opt.plus3 /\ opt.dfsena => r.dfs = mem.dfs
             /\ opt.sndex => r.snd = mem.snd
             /\ mem.usedrom6 => r.ram6 = mem.ram6
             /\ r.usedrom6 = old.usedrom6 /\ r.rombank = old.rombank
             /\ r.extrom = old.extrom /\ Wired(r) = Wired(old)
<1> DEFINE cells == SaveMem(was, mem)
           dfsat == 3 + (IF opt.mrb THEN 2 ELSE 0)
           sndat == dfsat + (IF opt.plus3 /\ opt.dfsena THEN 1 ELSE 0)
           ram6at == sndat + (IF opt.sndex THEN 1 ELSE 0)
           cell(has, at, k) ==
             IF has /\ at \in DOMAIN cells THEN cells[at] ELSE k
           ram == <<cells[1], cells[2]>>
           ram2 == << cell(opt.mrb, 3, old.ram2[1]),
                      cell(opt.mrb, 4, old.ram2[2]) >>
           dfs == cell(opt.plus3 /\ opt.dfsena, dfsat, old.dfs)
           snd == cell(opt.sndex, sndat, old.snd)
           ram6 == cell(old.usedrom6, ram6at, old.ram6)
           r == [old EXCEPT !.ram = ram, !.ram2 = ram2, !.dfs = dfs,
                            !.snd = snd, !.ram6 = ram6]
<1>1. LoadMem(opt, old, cells) = r
  BY Zenon DEF LoadMem
<1>2. /\ cells[1] = mem.ram[1] /\ cells[2] = mem.ram[2]
      /\ opt.mrb => /\ {3, 4} \subseteq DOMAIN cells
                    /\ cells[3] = mem.ram2[1] /\ cells[4] = mem.ram2[2]
      /\ opt.plus3 /\ opt.dfsena =>
           dfsat \in DOMAIN cells /\ cells[dfsat] = mem.dfs
      /\ opt.sndex => sndat \in DOMAIN cells /\ cells[sndat] = mem.snd
      /\ mem.usedrom6 => ram6at \in DOMAIN cells /\ cells[ram6at] = mem.ram6
  BY SavedCells
<1> HIDE DEF cells, dfsat, sndat, ram6at
<1>3. /\ mem.ram \in Values \X Values /\ mem.ram2 \in Values \X Values
      /\ mem.dfs \in Values /\ mem.snd \in Values /\ mem.ram6 \in Values
      /\ old.ram2 \in Values \X Values
      /\ old.dfs \in Values /\ old.snd \in Values /\ old.ram6 \in Values
  BY StoreFields
<1>4. ASSUME NEW p \in Values \X Values
      PROVE  p = <<p[1], p[2]>> /\ p[1] \in Values /\ p[2] \in Values
  BY <1>4
<1>5. ram = mem.ram
  BY <1>2, <1>3, <1>4
<1>6. ram2 = IF opt.mrb THEN mem.ram2 ELSE old.ram2
  BY <1>2, <1>3, <1>4
<1>7. dfs = IF opt.plus3 /\ opt.dfsena THEN mem.dfs ELSE old.dfs
  BY <1>2
<1>8. snd = IF opt.sndex THEN mem.snd ELSE old.snd
  BY <1>2
<1>9. ram6 = IF mem.usedrom6 THEN mem.ram6 ELSE old.ram6
  BY <1>2
<1> HIDE DEF ram, ram2, dfs, snd, ram6
<1>10. r \in Memories
  <2>1. /\ ram \in Values \X Values /\ ram2 \in Values \X Values
        /\ dfs \in Values /\ snd \in Values /\ ram6 \in Values
    BY <1>3, <1>5, <1>6, <1>7, <1>8, <1>9
  <2> QED  BY <2>1, ZenonT(30) DEF Memories
<1>11. /\ r.ram = ram /\ r.ram2 = ram2 /\ r.dfs = dfs /\ r.snd = snd
       /\ r.ram6 = ram6 /\ r.usedrom6 = old.usedrom6
       /\ r.rombank = old.rombank /\ r.extrom = old.extrom
       /\ r.fastlow = old.fastlow /\ r.fasthigh2 = old.fasthigh2
       /\ r.enabled = old.enabled /\ r.intrombank = old.intrombank
       /\ r.cart = old.cart /\ r.bank = old.bank /\ r.jimpage = old.jimpage
  BY SMT DEF Memories
<1> HIDE DEF r
<1>12. Wired(r) = Wired(old)
  BY <1>11 DEF Wired
<1> QED  BY <1>1, <1>5, <1>6, <1>7, <1>8, <1>9, <1>10, <1>11, <1>12 DEF cells

(* A loaded state brings the saved options and the state of the memory, and *)
(* is read as it was where the wiring is the one of its options.            *)
(* (doloadstate, readmem)                                                   *)
LEMMA ReadsBack ==
  ASSUME NEW opt \in Options, NEW was \in Options,
         NEW mem \in Memories, NEW r \in Memories,
         opt.turbo = was.turbo, opt.mrb = was.mrb, opt.plus3 = was.plus3,
         opt.plus1 = was.plus1, opt.firstbyte = was.firstbyte,
         opt.sndex = was.sndex, opt.dfsena = was.dfsena,
         r.ram = mem.ram, opt.mrb => r.ram2 = mem.ram2,
         opt.plus3 /\ opt.dfsena => r.dfs = mem.dfs,
         opt.sndex => r.snd = mem.snd, mem.usedrom6 => r.ram6 = mem.ram6,
         r.usedrom6 = mem.usedrom6, r.rombank = mem.rombank,
         r.extrom = mem.extrom, Wired(r) = Wired(mem), WiredFor(opt, r),
         NEW place \in Places, NEW video \in BOOLEAN
  PROVE  \/ place \in {"fd", "fcff"}
         \/ place = "low" /\ opt.turbo
         \/ ReadMem(was, mem, place, video)[1] = "ram6" /\ ~r.usedrom6
         \/ ReadMem(opt, r, place, video) = ReadMem(was, mem, place, video)
<1>1. /\ r.fastlow = mem.fastlow /\ r.fasthigh2 = mem.fasthigh2
      /\ r.enabled = mem.enabled /\ r.intrombank = mem.intrombank
      /\ r.cart = mem.cart /\ r.bank = mem.bank
  BY DEF Wired
<1>2. CASE place = "low"
  <2>1. opt.turbo \/ opt.mrb \/ ~r.fastlow
    BY DEF WiredFor
  <2> QED  BY <1>1, <1>2, <2>1 DEF ReadMem
<1>3. CASE place = "high"
  <2>1. opt.mrb \/ ~r.fasthigh2
    BY DEF WiredFor
  <2> QED  BY <1>1, <1>3, <2>1 DEF ReadMem, FastHigh
<1>4. CASE place = "sideways"
  <2> DEFINE R == ReadSideways(mem)
             S == ReadSideways(r)
  <2>1. ReadMem(was, mem, place, video) = R /\ ReadMem(opt, r, place, video) = S
    BY <1>4 DEF ReadMem
  <2>2. ASSUME ~r.extrom  PROVE R = S
    BY <1>1, <2>2 DEF ReadSideways
  <2>3. ASSUME r.extrom, r.rombank \in {0, 1}  PROVE R = S
    BY <1>1, <2>3, SMT DEF ReadSideways, RamBank
  <2>4. ASSUME r.extrom, r.rombank \notin {0, 1}, r.rombank \in r.enabled
        PROVE R = S
    <3>1. R = ReadsBank(mem.rombank, CASE mem.rombank = DfsBank -> mem.dfs
                                     [] mem.rombank = SoundBank -> mem.snd
                                     [] OTHER -> 0)
      BY <1>1, <2>4, SMT DEF ReadSideways
    <3>2. S = ReadsBank(r.rombank, CASE r.rombank = DfsBank -> r.dfs
                                   [] r.rombank = SoundBank -> r.snd
                                   [] OTHER -> 0)
      BY <2>4, SMT DEF ReadSideways
    <3>3. /\ r.rombank = DfsBank => r.dfs = mem.dfs
          /\ r.rombank = SoundBank => r.snd = mem.snd
      BY <2>4 DEF WiredFor
    <3> QED  BY <3>1, <3>2, <3>3, SMT DEF DfsBank, SoundBank
  <2>5. ASSUME r.extrom, r.rombank = RamBank, r.rombank \notin r.enabled
        PROVE R[1] = "ram6" /\ (r.usedrom6 => R = S)
    <3>1. R = Reads("ram6", mem.ram6) /\ S = Reads("ram6", r.ram6)
      BY <1>1, <2>5, SMT DEF ReadSideways, RamBank
    <3> QED  BY <3>1 DEF Reads
  <2>6. ASSUME r.extrom, r.rombank \notin {0, 1}, r.rombank \notin r.enabled,
               r.rombank # RamBank
        PROVE R = S
    BY <1>1, <2>6, SMT DEF ReadSideways
  <2> HIDE DEF R, S
  <2> QED  BY <2>1, <2>2, <2>3, <2>4, <2>5, <2>6
<1>5. CASE place \in {"fcc0", "fc70"}
  BY <1>5, SMT DEF ReadMem, ReadFC, Open, Reads
<1>6. CASE place = "os"
  BY <1>6 DEF ReadMem
<1> QED  BY <1>2, <1>3, <1>4, <1>5, <1>6 DEF Places

-----------------------------------------------------------------------------
(* The invariant *)

(* A state saved, and what there was to read then *)
FileOf(opt, mem) ==
  [ options |-> [name \in SavedNames |-> opt[name]],
    usedrom6 |-> mem.usedrom6, rombank |-> mem.rombank,
    extrom |-> mem.extrom, cells |-> SaveMem(opt, mem) ]
KeptOf(opt, mem) ==
  [ reads |-> Readings(opt, mem), wired |-> Wired(mem), cells |-> <<>> ]

Typed ==
  /\ o \in Options /\ m \in Memories
  /\ resetit \in BOOLEAN /\ wantload \in BOOLEAN /\ wantsave \in BOOLEAN
  /\ cpureset \in BOOLEAN /\ loaded \in BOOLEAN /\ steps \in 0..MaxSteps

(* The file and what is remembered of its saving are of one and the same    *)
(* machine, and the menu loads only a file that there is.                   *)
SavedOnce ==
  \/ file = NoFile /\ kept = NoFile
  \/ \E opt \in Options, mem \in Memories :
       file = FileOf(opt, mem) /\ kept = KeptOf(opt, mem)

MemoryInv ==
  Typed /\ SavedOnce /\ (wantload => file # NoFile) /\ LoadedReadsAsSaved

(* The options a file brings are those that were saved, but for two that it *)
(* leaves alone.  (doloadstate)                                             *)
LEMMA LoadedOptionFields ==
  ASSUME o \in Options, NEW was \in Options, NEW mem \in Memories,
         file = FileOf(was, mem)
  PROVE  LET opt == LoadedOptions(o)
         IN  /\ opt \in Options
             /\ opt.turbo = was.turbo /\ opt.mrb = was.mrb
             /\ opt.plus3 = was.plus3 /\ opt.plus1 = was.plus1
             /\ opt.firstbyte = was.firstbyte /\ opt.sndex = was.sndex
             /\ opt.dfsena = was.dfsena
<1> DEFINE opt == LoadedOptions(o)
<1>1. DOMAIN o = Names /\ SavedOptions = SavedNames
  BY OptionFields DEF SavedOptions, SavedNames
<1>2. file.options = [name \in SavedNames |-> was[name]]
  BY DEF FileOf
<1>3. opt = [ name \in Names |->
                IF name \in SavedNames THEN was[name] ELSE o[name] ]
  <2>1. opt = [ name \in Names |->
                  IF name \in SavedNames THEN file.options[name] ELSE o[name] ]
    BY <1>1 DEF LoadedOptions
  <2> QED  BY <1>2, <2>1
<1> HIDE DEF opt
<1>4. /\ opt.turbo = was.turbo /\ opt.mrb = was.mrb
      /\ opt.mrbmode = was.mrbmode /\ opt.plus3 = was.plus3
      /\ opt.plus1 = was.plus1 /\ opt.firstbyte = was.firstbyte
      /\ opt.sndex = was.sndex /\ opt.adfsena = was.adfsena
      /\ opt.dfsena = was.dfsena /\ opt.jim = o.jim /\ opt.mgc = o.mgc
  BY <1>3 DEF Names, SavedNames
<1>5. opt = [ turbo |-> opt.turbo, mrb |-> opt.mrb, mrbmode |-> opt.mrbmode,
              plus3 |-> opt.plus3, plus1 |-> opt.plus1,
              firstbyte |-> opt.firstbyte, sndex |-> opt.sndex,
              adfsena |-> opt.adfsena, dfsena |-> opt.dfsena,
              jim |-> opt.jim, mgc |-> opt.mgc ]
  BY <1>3 DEF Names
<1>6. /\ opt.turbo \in BOOLEAN /\ opt.mrb \in BOOLEAN
      /\ opt.mrbmode \in 0..2 /\ opt.plus3 \in BOOLEAN
      /\ opt.plus1 \in BOOLEAN /\ opt.firstbyte \in BOOLEAN
      /\ opt.sndex \in BOOLEAN /\ opt.adfsena \in BOOLEAN
      /\ opt.dfsena \in BOOLEAN /\ opt.jim \in BOOLEAN
      /\ opt.mgc \in BOOLEAN
  BY <1>4, OptionFields, Zenon
<1>7. opt \in Options
  BY <1>5, <1>6, Zenon DEF Options
<1> QED  BY <1>4, <1>7 DEF opt

(* A state loaded reads as it was saved, and keeps what it is loaded into   *)
(* wired as it was.  (doloadstate)                                          *)
LEMMA DoLoadReads ==
  ASSUME o \in Options, NEW was \in Options, NEW mem \in Memories,
         NEW old \in Memories, file = FileOf(was, mem)
  PROVE  LET r == DoLoad(o, old)
             opt == LoadedOptions(o)
         IN  /\ r \in Memories
             /\ Wired(mem) = Wired(r) /\ WiredFor(opt, r) =>
                  \A place \in Places, video \in BOOLEAN :
                    \/ place \in {"fd", "fcff"}
                    \/ place = "low" /\ opt.turbo
                    \/ ReadMem(was, mem, place, video)[1] = "ram6" /\ ~r.usedrom6
                    \/ ReadMem(opt, r, place, video) = ReadMem(was, mem, place, video)
<1> DEFINE opt == LoadedOptions(o)
           q == [old EXCEPT !.usedrom6 = file.usedrom6,
                            !.rombank = file.rombank, !.extrom = file.extrom]
           r == LoadMem(opt, q, file.cells)
<1>1. DoLoad(o, old) = r
  BY DEF DoLoad
<1>2. /\ file.usedrom6 = mem.usedrom6 /\ file.rombank = mem.rombank
      /\ file.extrom = mem.extrom /\ file.cells = SaveMem(was, mem)
  BY DEF FileOf
<1>3. /\ opt \in Options
      /\ opt.turbo = was.turbo /\ opt.mrb = was.mrb
      /\ opt.plus3 = was.plus3 /\ opt.plus1 = was.plus1
      /\ opt.firstbyte = was.firstbyte /\ opt.sndex = was.sndex
      /\ opt.dfsena = was.dfsena
  BY LoadedOptionFields
<1>4. q \in Memories
  <2> DEFINE a == file.usedrom6
             b == file.rombank
             c == file.extrom
  <2>1. a \in BOOLEAN /\ b \in Banks /\ c \in BOOLEAN
    BY <1>2, StoreFields, Zenon
  <2> HIDE DEF a, b, c
  <2>2. [old EXCEPT !.usedrom6 = a, !.rombank = b, !.extrom = c] \in Memories
    BY <2>1, ZenonT(30) DEF Memories
  <2> QED  BY <2>2 DEF a, b, c
<1>5. /\ q.usedrom6 = mem.usedrom6 /\ q.rombank = mem.rombank
      /\ q.extrom = mem.extrom
  BY <1>2, SMT DEF Memories
<1> HIDE DEF opt, q
<1>6. /\ r \in Memories /\ r.ram = mem.ram
      /\ opt.mrb => r.ram2 = mem.ram2
      /\ opt.plus3 /\ opt.dfsena => r.dfs = mem.dfs
      /\ opt.sndex => r.snd = mem.snd
      /\ mem.usedrom6 => r.ram6 = mem.ram6
      /\ r.usedrom6 = q.usedrom6 /\ r.rombank = q.rombank
      /\ r.extrom = q.extrom
  BY <1>2, <1>3, <1>4, <1>5, LoadMemRestores
<1> HIDE DEF r
<1>7. ASSUME Wired(mem) = Wired(r), WiredFor(opt, r),
             NEW place \in Places, NEW video \in BOOLEAN
      PROVE  \/ place \in {"fd", "fcff"}
             \/ place = "low" /\ opt.turbo
             \/ ReadMem(was, mem, place, video)[1] = "ram6" /\ ~r.usedrom6
             \/ ReadMem(opt, r, place, video) = ReadMem(was, mem, place, video)
  BY <1>3, <1>5, <1>6, <1>7, ReadsBack
<1> QED  BY <1>1, <1>6, <1>7 DEF opt

-----------------------------------------------------------------------------
(* The steps *)

(* What a step of the user or the program has in common: it loads nothing,  *)
(* and no file is written. *)
LEMMA StepInv ==
  ASSUME MemoryInv, MemStep, o' \in Options, m' \in Memories,
         resetit' \in BOOLEAN, wantsave' \in BOOLEAN, cpureset' \in BOOLEAN,
         wantload' = wantload \/ (wantload' = TRUE /\ file # NoFile)
  PROVE  MemoryInv'
<1>1. file' = file /\ kept' = kept /\ loaded' = FALSE /\ steps' \in 0..MaxSteps
  BY DEF MemStep, MemoryInv, Typed
<1>2. Typed'
  BY <1>1 DEF MemoryInv, Typed
<1>5. wantload' => file' # NoFile
  BY <1>1, Zenon DEF MemoryInv, NoFile
<1>3. SavedOnce'
  <2>1. CASE file = NoFile /\ kept = NoFile
    BY <1>1, <2>1 DEF SavedOnce, NoFile
  <2>2. CASE \E opt \in Options, mem \in Memories :
               file = FileOf(opt, mem) /\ kept = KeptOf(opt, mem)
    <3>1. \E opt \in Options, mem \in Memories :
            file' = FileOf(opt, mem) /\ kept' = KeptOf(opt, mem)
      BY <1>1, <2>2, Zenon
    <3> QED  BY <3>1, Zenon DEF SavedOnce, FileOf, KeptOf, SaveMem,
                Readings, Wired, ReadMem, ReadSideways, ReadFC, FastHigh
  <2> QED  BY <2>1, <2>2 DEF MemoryInv, SavedOnce
<1>4. LoadedReadsAsSaved'
  BY <1>1 DEF LoadedReadsAsSaved
<1> QED  BY <1>2, <1>3, <1>4, <1>5 DEF MemoryInv

(* The menus leave options, whatever they switch off with what they switch  *)
(* on.  (linux-gui.c)                                                       *)
LEMMA MenuOptions ==
  ASSUME o \in Options
  PROVE  /\ [o EXCEPT !.turbo = ~@, !.mrb = @ /\ o.turbo] \in Options
         /\ [o EXCEPT !.mrb = ~@, !.turbo = @ /\ o.mrb] \in Options
         /\ \A mode \in 0..2 : [o EXCEPT !.mrbmode = mode] \in Options
         /\ [o EXCEPT !.plus3 = ~@, !.firstbyte = @ /\ o.plus3] \in Options
         /\ [o EXCEPT !.plus1 = ~@, !.firstbyte = @ /\ o.plus1] \in Options
         /\ [o EXCEPT !.firstbyte = ~@, !.plus1 = @ /\ o.firstbyte,
                      !.plus3 = @ /\ o.firstbyte] \in Options
         /\ [o EXCEPT !.adfsena = ~@] \in Options
         /\ [o EXCEPT !.dfsena = ~@] \in Options
         /\ [o EXCEPT !.sndex = ~@] \in Options
         /\ [o EXCEPT !.jim = ~@] \in Options
         /\ [o EXCEPT !.mgc = ~@] \in Options
<1>1. ASSUME NEW a \in BOOLEAN, NEW b \in BOOLEAN, NEW c \in BOOLEAN,
             NEW mode \in 0..2
      PROVE  /\ [o EXCEPT !.turbo = a, !.mrb = b] \in Options
             /\ [o EXCEPT !.mrb = a, !.turbo = b] \in Options
             /\ [o EXCEPT !.mrbmode = mode] \in Options
             /\ [o EXCEPT !.plus3 = a, !.firstbyte = b] \in Options
             /\ [o EXCEPT !.plus1 = a, !.firstbyte = b] \in Options
             /\ [o EXCEPT !.firstbyte = a, !.plus1 = b, !.plus3 = c] \in Options
             /\ [o EXCEPT !.adfsena = a] \in Options
             /\ [o EXCEPT !.dfsena = a] \in Options
             /\ [o EXCEPT !.sndex = a] \in Options
             /\ [o EXCEPT !.jim = a] \in Options
             /\ [o EXCEPT !.mgc = a] \in Options
  BY <1>1, ZenonT(30) DEF Options
<1>2. ASSUME NEW a \in BOOLEAN, NEW b \in BOOLEAN
      PROVE  (~a) \in BOOLEAN /\ (a /\ b) \in BOOLEAN
  OBVIOUS
<1>3. 0 \in 0..2
  OBVIOUS
<1>4. /\ o.turbo \in BOOLEAN /\ o.mrb \in BOOLEAN /\ o.plus3 \in BOOLEAN
      /\ o.plus1 \in BOOLEAN /\ o.firstbyte \in BOOLEAN
      /\ o.sndex \in BOOLEAN /\ o.adfsena \in BOOLEAN
      /\ o.dfsena \in BOOLEAN /\ o.jim \in BOOLEAN /\ o.mgc \in BOOLEAN
  BY OptionFields, Zenon
<1>5. \A mode \in 0..2 : [o EXCEPT !.mrbmode = mode] \in Options
  BY <1>1, Zenon
<1>6. /\ [o EXCEPT !.turbo = ~@, !.mrb = @ /\ o.turbo] \in Options
      /\ [o EXCEPT !.mrb = ~@, !.turbo = @ /\ o.mrb] \in Options
  BY <1>1, <1>2, <1>3, <1>4, Zenon
<1>7. /\ [o EXCEPT !.plus3 = ~@, !.firstbyte = @ /\ o.plus3] \in Options
      /\ [o EXCEPT !.plus1 = ~@, !.firstbyte = @ /\ o.plus1] \in Options
  BY <1>1, <1>2, <1>3, <1>4, Zenon
<1>8. [o EXCEPT !.firstbyte = ~@, !.plus1 = @ /\ o.firstbyte,
                !.plus3 = @ /\ o.firstbyte] \in Options
  BY <1>1, <1>2, <1>3, <1>4, Zenon
<1>9. /\ [o EXCEPT !.adfsena = ~@] \in Options
      /\ [o EXCEPT !.dfsena = ~@] \in Options
      /\ [o EXCEPT !.sndex = ~@] \in Options
      /\ [o EXCEPT !.jim = ~@] \in Options
      /\ [o EXCEPT !.mgc = ~@] \in Options
  BY <1>1, <1>2, <1>3, <1>4, Zenon
<1> QED  BY <1>5, <1>6, <1>7, <1>8, <1>9, Zenon

(* A menu that plugs something in *)
LEMMA PlugInv ==
  ASSUME MemoryInv, NEW opt \in Options, Plug(opt)
  PROVE  MemoryInv'
  BY StepInv DEF Plug, MemoryInv, Typed

(* The program's writes and selections, the reset it begins with after one  *)
(* was asked for *)
LEMMA RunInv ==
  ASSUME MemoryInv, NEW mem \in Memories, Run(mem)
  PROVE  MemoryInv'
<1>1. o \in Options /\ ResetMem(o, mem) \in Memories
  BY ResetMemType DEF MemoryInv, Typed
<1>2. m' \in Memories
  BY <1>1 DEF Run
<1> QED  BY <1>1, <1>2, StepInv DEF Run, MemoryInv, Typed

(* The end of a frame loads what was saved, and saves what there is then.   *)
(* (runelk)                                                                 *)
LEMMA EndFrameInv ==
  ASSUME MemoryInv, EndFrame
  PROVE  MemoryInv'
<1> DEFINE opt == IF wantload THEN LoadedOptions(o) ELSE o
           run == IF cpureset THEN ResetMem(o, m) ELSE m
           clear == <<0, 0>>
           cleared == [run EXCEPT !.ram = clear]
           reset == IF resetit THEN ResetMem(o, cleared) ELSE run
<1>1. PICK break \in BOOLEAN :
        LET broken == IF break THEN ResetMem(o, reset) ELSE reset
            mem == IF wantload THEN DoLoad(o, broken) ELSE broken
        IN  /\ o' = opt /\ m' = mem
            /\ IF wantsave
               THEN /\ file' = DoSave(opt, mem)
                    /\ kept' = [ reads |-> Readings(opt, mem),
                                 wired |-> Wired(mem), cells |-> <<>> ]
               ELSE UNCHANGED <<file, kept>>
  BY DEF EndFrame
<1> DEFINE broken == IF break THEN ResetMem(o, reset) ELSE reset
           mem == IF wantload THEN DoLoad(o, broken) ELSE broken
<1>2. o \in Options /\ m \in Memories
  BY DEF MemoryInv, Typed
<1>3. broken \in Memories
  <2>1. run \in Memories
    BY <1>2, ResetMemType
  <2> HIDE DEF run
  <2>2. cleared \in Memories
    <3>1. clear \in Values \X Values
      BY DEF Values
    <3> HIDE DEF clear
    <3> QED  BY <2>1, <3>1, ZenonT(30) DEF Memories
  <2> HIDE DEF cleared
  <2>3. reset \in Memories
    BY <1>2, <2>1, <2>2, ResetMemType
  <2> HIDE DEF reset
  <2> QED  BY <1>2, <2>3, ResetMemType
<1>4. loaded' = wantload /\ ~wantload' /\ ~resetit' /\ ~wantsave' /\ ~cpureset'
      /\ wantload' = FALSE /\ resetit' = FALSE /\ wantsave' = FALSE
      /\ cpureset' = FALSE /\ steps' = steps
  BY DEF EndFrame
<1>5. wantload =>
        \E was \in Options, there \in Memories :
          file = FileOf(was, there) /\ kept = KeptOf(was, there)
  BY DEF MemoryInv, SavedOnce
<1>6. /\ o' = opt /\ m' = mem
      /\ wantsave => file' = DoSave(opt, mem) /\ kept' = KeptOf(opt, mem)
      /\ ~wantsave => file' = file /\ kept' = kept
  BY <1>1 DEF KeptOf
<1> HIDE DEF broken, reset, cleared, clear, run
<1>7. opt \in Options /\ mem \in Memories
  <2>1. CASE wantload
    BY <1>2, <1>3, <1>5, <2>1, LoadedOptionFields, DoLoadReads
  <2>2. CASE ~wantload
    BY <1>2, <1>3, <2>2
  <2> QED  BY <2>1, <2>2
<1>8. Typed'
  BY <1>4, <1>6, <1>7 DEF Typed, MemoryInv
<1>9. wantsave => file' = FileOf(opt, mem)
  <2>1. SavedOptions = SavedNames
    BY <1>2, OptionFields DEF SavedOptions, SavedNames
  <2> QED  BY <1>6, <2>1 DEF DoSave, FileOf
<1> HIDE DEF opt, mem
<1>10. SavedOnce'
  <2>1. \/ file' = NoFile /\ kept' = NoFile
        \/ \E was \in Options, there \in Memories :
             file' = FileOf(was, there) /\ kept' = KeptOf(was, there)
    <3>1. CASE wantsave
      BY <1>6, <1>7, <1>9, <3>1, Zenon
    <3>2. CASE ~wantsave
      BY <1>6, <3>2 DEF MemoryInv, SavedOnce
    <3> QED  BY <3>1, <3>2
  <2> QED  BY <2>1, Zenon DEF SavedOnce
<1>11. LoadedReadsAsSaved'
  <2> SUFFICES ASSUME wantload, kept'.wired = Wired(m'), WiredFor(o', m'),
                      NEW place \in Places, NEW video \in BOOLEAN
               PROVE  \/ place \in {"fd", "fcff"}
                      \/ place = "low" /\ o'.turbo
                      \/ /\ kept'.reads[<<place, video>>][1] = "ram6"
                         /\ ~m'.usedrom6
                      \/ ReadMem(o', m', place, video)
                           = kept'.reads[<<place, video>>]
    BY <1>4 DEF LoadedReadsAsSaved
  <2>1. ASSUME NEW p, NEW q, kept' = KeptOf(p, q)
        PROVE  /\ kept'.reads[<<place, video>>] = ReadMem(p, q, place, video)
               /\ kept'.wired = Wired(q)
    BY <2>1 DEF KeptOf, Readings
  <2>2. CASE wantsave
    <3>1. kept'.reads[<<place, video>>] = ReadMem(opt, mem, place, video)
      BY <1>6, <2>1, <2>2
    <3> QED  BY <1>6, <3>1
  <2>3. CASE ~wantsave
    <3>1. PICK was \in Options, there \in Memories :
            file = FileOf(was, there) /\ kept = KeptOf(was, there)
      BY <1>5
    <3>2. kept'.reads[<<place, video>>] = ReadMem(was, there, place, video)
          /\ kept'.wired = Wired(there)
      BY <1>6, <2>1, <2>3, <3>1
    <3>3. mem = DoLoad(o, broken) /\ opt = LoadedOptions(o)
      BY DEF mem, opt
    <3>4. Wired(there) = Wired(mem) /\ WiredFor(opt, mem)
      BY <1>6, <3>2
    <3>5. \/ place \in {"fd", "fcff"}
          \/ place = "low" /\ opt.turbo
          \/ ReadMem(was, there, place, video)[1] = "ram6" /\ ~mem.usedrom6
          \/ ReadMem(opt, mem, place, video) = ReadMem(was, there, place, video)
      BY <1>2, <1>3, <3>1, <3>3, <3>4, DoLoadReads
    <3> QED  BY <1>6, <3>2, <3>5
  <2> QED  BY <2>2, <2>3
<1> QED  BY <1>4, <1>8, <1>10, <1>11 DEF MemoryInv

(* The machine as it starts.  (initelk) *)
LEMMA MemoryInit ==
  ASSUME MemInit PROVE MemoryInv
<1>1. o \in Options
  BY DEF MemInit
<1>2. PICK rombank \in Banks, extrom \in BOOLEAN :
        m = ResetMem(o,
                [ ram |-> <<0, 0>>, ram2 |-> <<0, 0>>, dfs |-> 0, snd |-> 0,
                  ram6 |-> 0, jim |-> [page \in 0..1 |-> 0], usedrom6 |-> FALSE,
                  cart |-> FALSE, fastlow |-> FALSE, fasthigh2 |-> FALSE,
                  enabled |-> {}, rombank |-> rombank, extrom |-> extrom,
                  intrombank |-> 10, bank |-> 0, jimpage |-> 0 ])
  BY DEF MemInit
<1>3. /\ <<0, 0>> \in Values \X Values /\ 0 \in Values
      /\ [page \in 0..1 |-> 0] \in [0..1 -> Values]
      /\ FALSE \in BOOLEAN /\ {} \in SUBSET Banks /\ 10 \in 8..11
      /\ 0 \in 0..1
  BY DEF Values
<1>4. [ ram |-> <<0, 0>>, ram2 |-> <<0, 0>>, dfs |-> 0, snd |-> 0,
        ram6 |-> 0, jim |-> [page \in 0..1 |-> 0], usedrom6 |-> FALSE,
        cart |-> FALSE, fastlow |-> FALSE, fasthigh2 |-> FALSE,
        enabled |-> {}, rombank |-> rombank, extrom |-> extrom,
        intrombank |-> 10, bank |-> 0, jimpage |-> 0 ] \in Memories
  BY <1>3, Zenon DEF Memories
<1>5. m \in Memories
  BY <1>1, <1>2, <1>4, ResetMemType
<1>6. /\ resetit = FALSE /\ wantload = FALSE /\ wantsave = FALSE
      /\ cpureset = FALSE /\ file = NoFile /\ kept = NoFile
      /\ loaded = FALSE /\ steps = 0
  BY DEF MemInit
<1>9. 0 \in 0..MaxSteps /\ FALSE \in BOOLEAN
  OBVIOUS
<1>7. Typed
  BY <1>1, <1>5, <1>6, <1>9, Zenon DEF Typed
<1>8. SavedOnce /\ LoadedReadsAsSaved
  BY <1>6 DEF SavedOnce, LoadedReadsAsSaved
<1> QED  BY <1>6, <1>7, <1>8 DEF MemoryInv

(* Every step keeps the invariant. *)
LEMMA MemoryNext ==
  ASSUME MemoryInv, [MemNext]_memory PROVE MemoryInv'
<1>1. o \in Options /\ m \in Memories
  BY DEF MemoryInv, Typed
<1>2. CASE Turbo \/ Mrb \/ MrbMode \/ Plus3 \/ Plus1 \/ FirstByte \/ Adfs
           \/ Dfs \/ Sndex \/ Jim
  BY <1>1, <1>2, MenuOptions, PlugInv, Zenon
     DEF Turbo, Mrb, MrbMode, Plus3, Plus1, FirstByte, Adfs, Dfs, Sndex, Jim
<1>3. CASE Mgc
  BY <1>1, <1>3, MenuOptions, StepInv DEF Mgc, MemoryInv, Typed
<1>4. CASE RomMenu
  <2>1. PICK there \in BOOLEAN : m' = [m EXCEPT !.cart = there]
    BY <1>4 DEF RomMenu
  <2>2. [m EXCEPT !.cart = there] \in Memories
    BY <1>1, ZenonT(30) DEF Memories
  <2> QED  BY <1>1, <1>4, <2>1, <2>2, StepInv DEF RomMenu, MemoryInv, Typed
<1>5. CASE HardReset \/ SaveMenu
  BY <1>1, <1>5, StepInv DEF HardReset, SaveMenu, MemoryInv, Typed
<1>6. CASE LoadMenu
  BY <1>1, <1>6, StepInv DEF LoadMenu, MemoryInv, Typed
<1>7. CASE ProgramWrites
  BY <1>1, <1>7, WriteType, RunInv DEF ProgramWrites
<1>8. CASE ProgramSelects
  BY <1>1, <1>8, SelectBankType, RunInv DEF ProgramSelects
<1>9. CASE EndFrame
  BY <1>9, EndFrameInv
<1>10. CASE UNCHANGED memory
  <2>1. /\ o' = o /\ m' = m /\ resetit' = resetit /\ wantload' = wantload
        /\ wantsave' = wantsave /\ cpureset' = cpureset /\ file' = file
        /\ kept' = kept /\ loaded' = loaded /\ steps' = steps
    BY <1>10 DEF memory
  <2>2. Typed' /\ (wantload' => file' # NoFile)
    BY <2>1 DEF MemoryInv, Typed
  <2>3. SavedOnce'
    BY <2>1 DEF MemoryInv, SavedOnce
  <2>4. LoadedReadsAsSaved'
    BY <2>1 DEF MemoryInv, LoadedReadsAsSaved
  <2> QED  BY <2>2, <2>3, <2>4 DEF MemoryInv
<1> QED  BY <1>2, <1>3, <1>4, <1>5, <1>6, <1>7, <1>8, <1>9, <1>10 DEF MemNext

-----------------------------------------------------------------------------
(* MemoryInv holds in every state, whatever the user and the program do.    *)
THEOREM MemoryInvHolds == MemSpec => []MemoryInv
<1>1. MemInit => MemoryInv
  BY MemoryInit
<1>2. MemoryInv /\ [MemNext]_memory => MemoryInv'
  BY MemoryNext
<1> QED  BY <1>1, <1>2, PTL DEF MemSpec

(* The memory, its paging and the options keep their types through every    *)
(* write, reset and loaded state.  (mem.c, savestate.c)                     *)
THEOREM MemoryTypeCorrect == MemSpec => []MemTypeOK
<1>1. MemoryInv => MemTypeOK
  BY DEF MemoryInv, Typed, MemTypeOK
<1> QED  BY <1>1, MemoryInvHolds, PTL

(* A state loaded on a machine wired as the one that saved it, and as its   *)
(* options wire it, reads what it read when it was saved, for every         *)
(* selection of banks, whatever was changed and written in between.         *)
(* (savestate.c, savememstate, loadmemstate)                                *)
THEOREM StateRestored == MemSpec => []LoadedReadsAsSaved
<1>1. MemoryInv => LoadedReadsAsSaved
  BY DEF MemoryInv
<1> QED  BY <1>1, MemoryInvHolds, PTL
=============================================================================
