------------------------------ MODULE Picture ------------------------------
(***************************************************************************)
(* What a byte of the screen looks like: the pixels of yield and the       *)
(* palette of writeula, both of src/ula.c.  A pixel is the number of one   *)
(* of 16 palette entries, an entry a colour of three bits, blue 4, green 2 *)
(* and red 1.                                                              *)
(***************************************************************************)
EXTENDS Integers, FiniteSets, Bitwise

(* ulalookup: every other bit of a byte is a bit of the colour. *)
Lookup(byte) ==
  (IF byte & 2 # 0 THEN 1 ELSE 0) + (IF byte & 8 # 0 THEN 2 ELSE 0)
    + (IF byte & 32 # 0 THEN 4 ELSE 0) + (IF byte & 128 # 0 THEN 8 ELSE 0)

(* By mode the pixels a byte makes, how wide each is, and its first bits. *)
PixelsWide(mode) == IF mode \in {0, 1, 2, 3} THEN 8 ELSE 16
PixelSize(mode) ==
  CASE mode \in {0, 3} -> 1 [] mode \in {1, 4, 6, 7} -> 2
    [] mode \in {2, 5} -> 4
FirstBits(mode) ==
  CASE mode \in {0, 3, 4, 6, 7} -> 128 [] mode \in {1, 5} -> 136
    [] mode = 2 -> 255

Pixels(byte, mode) ==
  [ x \in 0..(PixelsWide(mode) - 1) |->
      Lookup(((byte * 2^(x \div PixelSize(mode))) % 256) & FirstBits(mode)) ]

(* On a bitmap of half the width the second of two pixels stays. *)
HalfPixels(byte, mode) ==
  [ x \in 0..(PixelsWide(mode) \div 2 - 1) |-> Pixels(byte, mode)[2 * x + 1] ]

-----------------------------------------------------------------------------
(* The four entries a pair of palette registers sets. *)
Entries ==
  << <<0, 2, 8, 10>>, <<4, 6, 12, 14>>, <<5, 7, 13, 15>>, <<1, 3, 9, 11>> >>

EntriesOf(address) == Entries[((address \div 2) % 4) + 1]

Clear(colour, bits) == colour - (colour & bits)
SetUnless(colour, bits, value, mask) ==   \* a 0 in the register is a light
  IF value & mask = 0 THEN colour | bits ELSE colour

(* The register of even address: blue of the four, green of the last two.   *)
WriteEven(palette, address, value) ==
  LET at == EntriesOf(address)
      blue(k) == SetUnless(Clear(palette[at[k]], 4), 4, value, 8 * 2^k)
      both(k) == SetUnless(Clear(blue(k), 2), 2, value, 2^(k - 1))
  IN  [palette EXCEPT ![at[1]] = blue(1), ![at[2]] = blue(2),
                      ![at[3]] = both(3), ![at[4]] = both(4)]

(* The register of odd address: red of the four, green of the first two.    *)
WriteOdd(palette, address, value) ==
  LET at == EntriesOf(address)
      red(k) == SetUnless(Clear(palette[at[k]], 1), 1, value, 2^(k - 1))
      both(k) == SetUnless(Clear(red(k), 2), 2, value, 8 * 2^k)
  IN  [palette EXCEPT ![at[1]] = both(1), ![at[2]] = both(2),
                      ![at[3]] = red(3), ![at[4]] = red(4)]

WritePalette(palette, address, value) ==
  IF address % 2 = 0 THEN WriteEven(palette, address, value)
  ELSE WriteOdd(palette, address, value)

-----------------------------------------------------------------------------
Palettes == {[e \in 0..15 |-> 0], [e \in 0..15 |-> 7]}

(* The colour bits a write of one value to a register sets otherwise than a *)
(* write of another.                                                        *)
Differ(one, other, address, palette) ==
  LET was == WritePalette(palette, address, one)
      is == WritePalette(palette, address, other)
  IN  { <<e, bit>> \in (0..15) \X {1, 2, 4} : was[e] & bit # is[e] & bit }

(* Two bytes never look alike: every bit of the byte is in the picture, on  *)
(* a bitmap of half the width too unless the pixels were the smallest.      *)
TellsBytesApart(mode) ==
  /\ Cardinality({Pixels(byte, mode) : byte \in 0..255}) = 256
  /\ PixelSize(mode) > 1 =>
       Cardinality({HalfPixels(byte, mode) : byte \in 0..255}) = 256

(* Each bit of the eight palette registers is a colour bit of its own, and  *)
(* together they are all 48: no write to one register changes what another  *)
(* has set, whatever the palette was.                                       *)
PaletteComplete(palette) ==
  LET bits == {1, 2, 4, 8, 16, 32, 64, 128}
      sets(address) == Differ(0, 255, address, palette)
  IN  /\ \A address \in 8..15, bit \in bits :
           \A c, d \in Differ(0, bit, address, palette) : c = d
      /\ \A one, other \in 8..15 : one # other => sets(one) \cap sets(other) = {}
      /\ UNION {sets(address) : address \in 8..15} = (0..15) \X {1, 2, 4}
      /\ \A address \in 8..15, e \in 0..15, bit \in {1, 2, 4} :
           <<e, bit>> \notin sets(address) =>
             WritePalette(palette, address, 0)[e] & bit = palette[e] & bit
=============================================================================
