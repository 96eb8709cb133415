------------------------------- MODULE Adder -------------------------------
(***************************************************************************)
(* The adder of the 6502, the macros ADC and SBC of src/6502.c: binary for *)
(* a byte of any width, decimal for a byte of two digits.                  *)
(*                                                                         *)
(* A result is the accumulator and the four flags.  c, the carry going in, *)
(* is 0 or 1.                                                              *)
(***************************************************************************)
EXTENDS Integers

CONSTANT Sign     \* 0x80: the top bit of a byte

ASSUME SignAssumption == Sign \in Nat \ {0}

Byte == 0..(2 * Sign - 1)

(* what uint8_t makes of a number from -2 * Sign to 4 * Sign - 1 *)
Low(n) ==
  CASE n < 0 -> n + 2 * Sign
    [] n >= 2 * Sign -> n - 2 * Sign
    [] OTHER -> n

Neg(n) == Low(n) >= Sign               \* n & 0x80

SetZN(n) == [z |-> n = 0, n |-> Neg(n)]

-----------------------------------------------------------------------------
(* Binary: the overflow flag is taken from the top bits of operands and     *)
(* result.                                                                  *)
AdcBinary(a, m, c) ==
  LET wide == a + m + c
      sum == Low(wide)
  IN  [ a |-> sum, c |-> wide >= 2 * Sign, z |-> sum = 0, n |-> Neg(sum),
        v |-> Neg(a) = Neg(m) /\ Neg(a) # Neg(wide) ]

(* The borrow is added to the operand before its top bit is looked at, in   *)
(* an int: 0x7F and a borrow count as negative, 0xFF and a borrow do not.   *)
SbcBinary(a, m, c) ==
  LET taken == m + 1 - c
      wide == a - taken
      difference == Low(wide)
  IN  [ a |-> difference, c |-> wide >= 0,
        z |-> difference = 0, n |-> Neg(difference),
        v |-> Neg(a) # Neg(taken) /\ Neg(a) # Neg(difference) ]

-----------------------------------------------------------------------------
(* Decimal, for Sign = 128.  Adding, z and n are set but never cleared: zn  *)
(* are the flags before.                                                    *)
Digit(n) == n % 16
Tens(n) == n \div 16

AdjustUp(n) ==                         \* of a sum of digits: the digit
  IF n > 9 THEN Digit(n - 10) ELSE n

AdjustDown(n) ==                       \* of a difference: bit 4 is a borrow
  IF n < 0 THEN Digit(n - 6) ELSE n

AdcDecimal(a, m, c, zn) ==
  LET low == Digit(a) + Digit(m) + c
      high == Tens(a) + Tens(m) + (IF low > 9 THEN 1 ELSE 0)
  IN  [ a |-> Digit(AdjustUp(low)) + 16 * Digit(AdjustUp(high)),
        c |-> high > 9,
        z |-> zn.z \/ Low(a + m + c) = 0,
        n |-> zn.n \/ (high \div 8) % 2 = 1,
        v |-> Neg(a) = Neg(m) /\ ((high \div 8) % 2 = 1) # Neg(a) ]

SbcDecimal_NoHalfBorrow(a, m, c) ==    \* mutant: hc is not used
  LET low == Digit(a) - Digit(m) - (1 - c)
      high == Tens(a) - Tens(m)
      wide == a - (m + 1 - c)
  IN  [ a |-> AdjustDown(low) + 16 * AdjustDown(high),
        c |-> high >= 0, z |-> wide = 0, n |-> Neg(wide),
        v |-> Neg(wide) # Neg(m) /\ Neg(a) # Neg(m) ]

SbcDecimal(a, m, c) ==
  LET low == Digit(a) - Digit(m) - (1 - c)
      high == Tens(a) - Tens(m) - (IF low < 0 THEN 1 ELSE 0)
      wide == a - (m + 1 - c)
  IN  [ a |-> AdjustDown(low) + 16 * AdjustDown(high),
        c |-> high >= 0, z |-> wide = 0, n |-> Neg(wide),
        v |-> Neg(wide) # Neg(m) /\ Neg(a) # Neg(m) ]
=============================================================================
