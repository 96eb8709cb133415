------------------------------ MODULE MCParts ------------------------------
(***************************************************************************)
(* The parts of the program that do not act on each other in the models,   *)
(* in one run: a behaviour is one of the display alone, of the memory map  *)
(* and its saved states, of a double density disc, of a disc of raw        *)
(* tracks, of a CSW tape or of the options, or goes through the tables: n  *)
(* is an opcode, an accumulator, a screen mode.  The others keep still.    *)
(***************************************************************************)
EXTENDS Screen, Decode, Memory, AdfDisc, Csw, Startup

VARIABLES
  part, n,
  fdiw, fdidisc, fditrack, fdiraw, fdipos, fdiop, fdicommands, fdimoved

fdiVars == << fdiw, fdidisc, fditrack, fdiraw, fdipos, fdiop, fdicommands, fdimoved >>

-----------------------------------------------------------------------------
(* The display: three lines of a row and of a picture in a RAM of 24 bytes. *)
MCModes == {0, 3, 6}
MCCharRows == [mo \in MCModes |-> IF mo = 0 THEN 2 ELSE 3]
MCLength == [mo \in MCModes |-> IF mo = 0 THEN 20 ELSE IF mo = 3 THEN 16 ELSE 13]
MCEndLine == [mo \in MCModes |-> IF mo = 0 THEN 4 ELSE 3]
MCStarts == {0, 2, 14, 23}

(* The memory: a machine with the fast RAM, a disc drive and a Plus 1, from *)
(* which the menus take them.                                               *)
MCConfigs ==
  { [ turbo |-> FALSE, mrb |-> TRUE, mrbmode |-> 0, plus3 |-> TRUE,
      plus1 |-> TRUE, firstbyte |-> FALSE, sndex |-> FALSE, adfsena |-> FALSE,
      dfsena |-> TRUE, jim |-> TRUE, mgc |-> FALSE ] }

MCBanks == {3, 6, 10}

(* The discs: one side of two sectors of a block; two sides of one sector   *)
(* of two blocks, for a drive of 40 tracks and one of 80.                   *)
MCFormats ==
  { [sectors |-> 2, blocks |-> 1, adl |-> FALSE, dblstep |-> FALSE],
    [sectors |-> 1, blocks |-> 2, adl |-> TRUE, dblstep |-> FALSE],
    [sectors |-> 1, blocks |-> 2, adl |-> TRUE, dblstep |-> TRUE] }
MCBytes == {0, 1, 2, 3, 4, 5, 255}

(* The tapes: a tone, then any byte or more of it, then a byte or the end.  *)
MCItems ==
  {[tone |-> TRUE, byte |-> 0]} \cup {[tone |-> FALSE, byte |-> b] : b \in 0..7}
MCTapes ==
  {<<>>} \cup
  { <<[tone |-> TRUE, byte |-> 0], a, b>> :
      a \in MCItems, b \in {item \in MCItems : item.byte \in {0, 2, 5}} }

(* The raw tracks: the second sector of the FM disc's first track has a bad *)
(* checksum of its data, the first has a deleted mark; on the MFM disc one  *)
(* identifier is bad, and one sector's data.                                *)
Raw(t, s, size, bytes) ==
  [ track |-> t, sector |-> s, size |-> size, bytes |-> bytes,
    idgood |-> TRUE, datagood |-> TRUE, deleted |-> FALSE ]

MCFmTrack(t) ==
  IF t = 0
  THEN << [Raw(0, 1, 1, <<2, 3>>) EXCEPT !.deleted = TRUE],
          [Raw(0, 0, 0, <<4>>) EXCEPT !.datagood = FALSE] >>
  ELSE << Raw(1, 0, 0, <<5>>), Raw(0, 1, 0, <<3>>) >>

MCMfmTrack(t) ==
  IF t = 0
  THEN << [Raw(0, 1, 0, <<2>>) EXCEPT !.idgood = FALSE], Raw(0, 0, 1, <<4, 2>>) >>
  ELSE << [Raw(1, 1, 0, <<5>>) EXCEPT !.datagood = FALSE], Raw(1, 0, 1, <<3, 4>>) >>

MCDiscs ==
  { [double |-> FALSE, sectors |-> [t \in 0..1 |-> MCFmTrack(t)]],
    [double |-> TRUE, sectors |-> [t \in 0..1 |-> MCMfmTrack(t)]] }

Fdi == INSTANCE FdiDisc WITH
  SizeBits <- 0, Discs <- MCDiscs, IndexHole <- 1, Starts <- {0, 1, 17},
  w <- fdiw, disc <- fdidisc, track <- fditrack, raw <- fdiraw, pos <- fdipos,
  op <- fdiop, commands <- fdicommands, moved <- fdimoved

Pic == INSTANCE Picture

-----------------------------------------------------------------------------
Init ==
  /\ part \in {"display", "memory", "disc", "raw", "tape", "options", "tables"}
  /\ n = 0
  /\ IF part = "display" THEN ScreenInit
     ELSE g = "off" /\ mode = "off" /\ start = "off"
  /\ IF part = "memory" THEN MemInit
     ELSE /\ o = "off" /\ m = "off" /\ resetit = "off" /\ wantload = "off"
          /\ wantsave = "off" /\ cpureset = "off" /\ file = "off"
          /\ kept = "off" /\ loaded = FALSE /\ steps = "off"
  /\ IF part = "disc" THEN AdfInit
     ELSE /\ w = FreshController /\ format = "off" /\ op = "off" /\ trackc = "off" /\ buffer = "off"
          /\ image = "off" /\ writeprot = "off" /\ commands = "off"
          /\ moved = "off" /\ before = "off"
  /\ StartupInit
  /\ CswInit /\ (part # "tape" => tape = <<>> /\ ~tapefast)
  /\ IF part = "raw" THEN Fdi!Init
     ELSE /\ fdiw = "off" /\ fdidisc = "off" /\ fditrack = "off"
          /\ fdiraw = "off" /\ fdipos = "off" /\ fdiop = "off"
          /\ fdicommands = "off" /\ fdimoved = "off"

DisplayStep ==
  /\ part = "display" /\ ScreenNext
  /\ UNCHANGED <<part, n, memory, adf, csw, fdiVars, startup>>
MemoryStep ==
  /\ part = "memory" /\ MemNext
  /\ UNCHANGED <<part, n, screen, adf, csw, fdiVars, startup>>
DiscStep ==
  /\ part = "disc" /\ AdfNext
  /\ UNCHANGED <<part, n, screen, memory, csw, fdiVars, startup>>
TapeStep ==
  /\ part = "tape" /\ CswNext
  /\ UNCHANGED <<part, n, screen, memory, adf, fdiVars, startup>>
RawStep ==
  /\ part = "raw" /\ Fdi!Next
  /\ UNCHANGED <<part, n, screen, memory, adf, csw, startup>>
OptionsStep ==
  /\ part = "options" /\ StartupNext
  /\ UNCHANGED <<part, n, screen, memory, adf, csw, fdiVars>>
TablesStep ==                          \* 2n and 2n + 1, to all of them
  /\ part = "tables" /\ n' \in {(2 * n) % 256, (2 * n + 1) % 256}
  /\ UNCHANGED <<part, screen, memory, adf, csw, fdiVars, startup>>

Next ==
  \/ DisplayStep \/ MemoryStep \/ DiscStep \/ RawStep \/ TapeStep \/ OptionsStep
  \/ TablesStep

Spec == Init /\ [][Next]_<<part, n, screen, memory, adf, csw, fdiVars, startup>>

-----------------------------------------------------------------------------
(* Every variable of a part has its type.                                   *)
PartsTypeOK ==
  /\ part = "display" => ScreenTypeOK
  /\ part = "memory" => MemTypeOK
  /\ part = "disc" => AdfTypeOK
  /\ part = "raw" => Fdi!TypeOK
  /\ part = "tape" => CswTypeOK
  /\ part = "options" => StartupTypeOK
  /\ n \in 0..255

(* The registers and the memory each opcode is tried with: no flag, each    *)
(* alone and all; indexes that cross a page and none; zero page, stack and  *)
(* address space wrapped.                                                   *)
FlagSets == {{}, Flags} \cup {{flag} : flag \in Flags}

Trials ==
  { [ a |-> 53, x |-> x, y |-> y, s |-> s, pc |-> pc,
      c |-> "c" \in on, z |-> "z" \in on, i |-> "i" \in on,
      d |-> "d" \in on, v |-> "v" \in on, n |-> "n" \in on ] :
    x \in {0, 255}, y \in {3, 254}, s \in {0, 255}, pc \in {8430, 65534},
    on \in FlagSets }

TrialMemories == { [at \in 0..65535 |-> (at * 7 + k) % 256] : k \in {0, 100, 255} }

(* exec6502: every opcode does what its digits say, in the cycles they say, *)
(* and samples the interrupt lines; decimal addition and subtraction are    *)
(* those of numbers of two digits.                                          *)
InstructionsRight ==
  part = "tables" =>
    /\ \A r \in Trials, mem \in TrialMemories :
         FollowsPattern(n, r, mem) /\ SamplesLines(n, r, mem)
    /\ \A operand \in 0..255, c \in 0..1 : AddsDecimal(n, operand, c)

(* yield and writeula: nothing but RAM is displayed, though mode and start  *)
(* change in the picture; no two bytes look alike in any mode, and the      *)
(* palette registers are 48 bits of 48 different lights.                    *)
DisplayRight ==
  /\ part = "display" => PictureInRam
  /\ part = "tables" =>
       /\ n \in 0..7 => Pic!TellsBytesApart(n)
       /\ n = 8 => \A palette \in Pic!Palettes : Pic!PaletteComplete(palette)

(* fdi.c: what is read of a raw track is a sound sector of the name asked   *)
(* for, and what is reported of one is true.                                *)
FdiInStep == part = "raw" => Fdi!FdiInStep
=============================================================================
