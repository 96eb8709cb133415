------------------------------- MODULE Memory -------------------------------
(***************************************************************************)
(* What the CPU sees at an address, and what keeps it: the memory map of   *)
(* src/mem.c with its expansion boards, the menus of src/linux-gui.c that  *)
(* plug them in and out, and the saved states of src/savestate.c, taken    *)
(* and loaded by runelk of src/main.c between two frames.                  *)
(*                                                                         *)
(* One cell stands for each 16K a saved state writes in one piece: the     *)
(* first of a RAM of 32K for the lower 8K, the second for the screen.      *)
(* Sideways banks have one cell, in the half where the CPU can write it.   *)
(***************************************************************************)
EXTENDS Naturals, Sequences

CONSTANTS
  Configs,    \* the options elk.cfg may hold
  Banks,      \* the sideways banks the program selects, of 0..15
  MaxSteps    \* bound: steps of the user and the program

VARIABLES
  o,          \* the options
  m,          \* the memory and its paging
  resetit, wantload, wantsave,   \* what the next frame ends with
  cpureset,
  file,       \* the saved state, none before the first
  kept,       \* what there was to read when it was saved.  History
  loaded,     \* has the last step loaded a state?  History
  steps

memory == <<o, m, resetit, wantload, wantsave, cpureset, file, kept, loaded, steps>>

-----------------------------------------------------------------------------
DfsBank == 3
RamBank == 6
Plus1Bank == 12
SoundBank == 13
AdfsBank == 15

Values == {0, 1}

Options ==
  [ turbo : BOOLEAN, mrb : BOOLEAN, mrbmode : 0..2, plus3 : BOOLEAN,
    plus1 : BOOLEAN, firstbyte : BOOLEAN, sndex : BOOLEAN, adfsena : BOOLEAN,
    dfsena : BOOLEAN, jim : BOOLEAN, mgc : BOOLEAN ]

ASSUME MemoryAssumption == Configs \subseteq Options /\ MaxSteps \in Nat

Memories ==
  [ ram : Values \X Values, ram2 : Values \X Values, dfs : Values,
    snd : Values, ram6 : Values, jim : [0..1 -> Values], usedrom6 : BOOLEAN,
    cart : BOOLEAN, fastlow : BOOLEAN, fasthigh2 : BOOLEAN,
    enabled : SUBSET Banks, rombank : Banks, extrom : BOOLEAN,
    intrombank : 8..11, bank : Values, jimpage : 0..1 ]

(* A reading names the chip, for a ROM its bank, and what it holds. *)
Reads(chip, value) == <<chip, 0, value>>
ReadsBank(bank, value) == <<"rombank", bank, value>>
Open == Reads("open", 0)               \* addr>>8

-----------------------------------------------------------------------------
UpdateRomConfig(opt, mem) ==
  [mem EXCEPT !.enabled =
     { bank \in Banks :
         \/ bank = Plus1Bank /\ opt.plus1
         \/ bank = SoundBank /\ opt.sndex
         \/ bank = AdfsBank /\ opt.plus3 /\ opt.adfsena
         \/ bank = DfsBank /\ opt.plus3 /\ opt.dfsena }]

(* The fast RAM is wired in as if it were mapped, which reset6502 says not. *)
ResetMem(opt, mem) ==
  [UpdateRomConfig(opt, mem) EXCEPT
     !.fastlow = opt.turbo \/ (opt.mrb /\ opt.mrbmode # 0),
     !.fasthigh2 = opt.mrb /\ opt.mrbmode = 2,
     !.bank = 0, !.jimpage = 0]

(* FASTHIGH: the OS sees the screen with its code from C000 to DFFF. *)
FastHigh(mem, video) == mem.fasthigh2 /\ ~video

ReadSideways(mem) ==
  IF ~mem.extrom
  THEN IF mem.intrombank \in {10, 11} THEN Reads("basic", 0) ELSE Reads("keys", 0)
  ELSE CASE mem.rombank \in {0, 1} ->
              Reads("cart", IF mem.cart THEN mem.bank + 1 ELSE 0)
         [] mem.rombank \in mem.enabled ->
              ReadsBank(mem.rombank, CASE mem.rombank = DfsBank -> mem.dfs
                                       [] mem.rombank = SoundBank -> mem.snd
                                       [] OTHER -> 0)
         [] mem.rombank = RamBank /\ mem.rombank \notin mem.enabled ->
              Reads("ram6", mem.ram6)
         [] OTHER -> Open

(* The registers in page FC: the chip that answers, the first that does. *)
ReadFC(opt, mem, place) ==
  CASE place = "fcc0" /\ opt.plus3 -> Reads("1770", 0)
    [] place = "fcc0" /\ ~opt.plus3 /\ opt.firstbyte -> Reads("firstbyte", 0)
    [] place = "fc70" /\ opt.plus1 -> Reads("plus1", 0)
    [] place = "fcff" /\ opt.jim -> Reads("jim", mem.jimpage)
    [] OTHER -> Open

Places == {"low", "high", "sideways", "fcc0", "fc70", "fcff", "fd", "os"}

ReadMem(opt, mem, place, video) ==        \* readmem
  CASE place = "low" ->
         IF mem.fastlow THEN Reads("ram2", mem.ram2[1]) ELSE Reads("ram", mem.ram[1])
    [] place = "high" ->
         IF FastHigh(mem, video) THEN Reads("ram2", mem.ram2[2])
         ELSE Reads("ram", mem.ram[2])
    [] place = "sideways" -> ReadSideways(mem)
    [] place \in {"fcc0", "fc70", "fcff"} -> ReadFC(opt, mem, place)
    [] place = "fd" -> IF opt.jim THEN Reads("jim", mem.jim[mem.jimpage]) ELSE Open
    [] place = "os" -> Reads(IF opt.mrb THEN "mrbos" ELSE "os", 0)

-----------------------------------------------------------------------------
WriteSideways(opt, mem, v) ==
  IF ~mem.extrom THEN mem
  ELSE CASE mem.rombank = SoundBank -> [mem EXCEPT !.snd = v]
         [] mem.rombank = DfsBank /\ opt.plus3 /\ opt.dfsena -> [mem EXCEPT !.dfs = v]
         [] mem.rombank = RamBank -> [mem EXCEPT !.ram6 = v, !.usedrom6 = TRUE]
         [] OTHER -> mem

(* FC7F: bit 7 takes the board's RAM out. *)
SwitchBoard(opt, mem, mapped) ==
  IF ~opt.mrb THEN mem
  ELSE [mem EXCEPT !.fastlow = opt.turbo \/ (opt.mrbmode # 0 /\ mapped),
                   !.fasthigh2 = opt.mrbmode = 2 /\ mapped]

(* A write to the registers of another chip is that chip's. *)
WriteMem(opt, mem, place, video, v) ==    \* writemem
  CASE place = "low" ->
         IF mem.fastlow THEN [mem EXCEPT !.ram2[1] = v] ELSE [mem EXCEPT !.ram[1] = v]
    [] place = "high" ->
         IF FastHigh(mem, video) THEN [mem EXCEPT !.ram2[2] = v]
         ELSE [mem EXCEPT !.ram[2] = v]
    [] place = "sideways" -> WriteSideways(opt, mem, v)
    [] place = "fd" -> IF opt.jim THEN [mem EXCEPT !.jim[mem.jimpage] = v] ELSE mem
    [] place = "fcff" -> IF opt.jim THEN [mem EXCEPT !.jimpage = v] ELSE mem
    [] place = "fc00" -> IF opt.mgc THEN [mem EXCEPT !.bank = v] ELSE mem
    [] place = "fc7f" -> SwitchBoard(opt, mem, v = 0)

(* FE05 *)
SelectBank_Any(mem, bank) ==           \* mutant: whatever bank is inside
  [mem EXCEPT !.rombank = bank,
              !.extrom = IF bank >= 12 THEN TRUE
                         ELSE IF bank \in 8..11 THEN FALSE ELSE @,
              !.intrombank = bank]

SelectBank(mem, bank) ==
  [mem EXCEPT !.rombank = bank,
              !.extrom = IF bank >= 12 THEN TRUE
                         ELSE IF bank \in 8..11 THEN FALSE ELSE @,
              !.intrombank = IF bank \in 8..11 THEN bank ELSE @]

-----------------------------------------------------------------------------
(* savestate.c: the options, the bank selected, and the RAM.  A loaded file *)
(* is read with the options it brings.                                      *)
NoFile == [cells |-> <<>>]

SavedOptions == DOMAIN o \ {"jim", "mgc"}

SaveMem(opt, mem) ==                   \* savememstate
  mem.ram \o (IF opt.mrb THEN mem.ram2 ELSE <<>>)
    \o (IF opt.plus3 /\ opt.dfsena THEN <<mem.dfs>> ELSE <<>>)
    \o (IF opt.sndex THEN <<mem.snd>> ELSE <<>>)
    \o (IF mem.usedrom6 THEN <<mem.ram6>> ELSE <<>>)

LoadMem(opt, mem, cells) ==            \* loadmemstate; fread stops at the end
  LET dfsat == 3 + (IF opt.mrb THEN 2 ELSE 0)
      sndat == dfsat + (IF opt.plus3 /\ opt.dfsena THEN 1 ELSE 0)
      ram6at == sndat + (IF opt.sndex THEN 1 ELSE 0)
      cell(has, at, old) == IF has /\ at \in DOMAIN cells THEN cells[at] ELSE old
  IN  [mem EXCEPT
         !.ram = <<cells[1], cells[2]>>,
         !.ram2 = <<cell(opt.mrb, 3, @[1]), cell(opt.mrb, 4, @[2])>>,
         !.dfs = cell(opt.plus3 /\ opt.dfsena, dfsat, @),
         !.snd = cell(opt.sndex, sndat, @),
         !.ram6 = cell(mem.usedrom6, ram6at, @)]

DoSave(opt, mem) ==
  [ options |-> [name \in SavedOptions |-> opt[name]],
    usedrom6 |-> mem.usedrom6, rombank |-> mem.rombank, extrom |-> mem.extrom,
    cells |-> SaveMem(opt, mem) ]

LoadedOptions(opt) ==
  [ name \in DOMAIN opt |->
      IF name \in SavedOptions THEN file.options[name] ELSE opt[name] ]

DoLoad_ByOldOptions(opt, mem) ==       \* mutant: the memory comes first
  LoadMem(opt,
          [mem EXCEPT !.usedrom6 = file.usedrom6, !.rombank = file.rombank,
                      !.extrom = file.extrom],
          file.cells)

DoLoad(opt, mem) ==
  LoadMem(LoadedOptions(opt),
          [mem EXCEPT !.usedrom6 = file.usedrom6, !.rombank = file.rombank,
                      !.extrom = file.extrom],
          file.cells)

-----------------------------------------------------------------------------
(* All there is to read, and what is wired but not in the file: the place   *)
(* of the fast RAM, the banks enabled, the ROM inside, the cartridges and   *)
(* the pages.                                                               *)
Readings(opt, mem) ==
  [at \in Places \X BOOLEAN |-> ReadMem(opt, mem, at[1], at[2])]

Wired(mem) ==
  << mem.fastlow, mem.fasthigh2, mem.enabled, mem.intrombank, mem.cart,
     mem.bank, mem.jimpage >>

-----------------------------------------------------------------------------
(* initelk, and the start of the operating system, which has selected BASIC *)
(* and then some bank.                                                      *)
MemInit ==
  /\ o \in Configs
  /\ \E rombank \in Banks, extrom \in BOOLEAN :
       /\ extrom => rombank \notin 8..11
       /\ ~extrom => rombank < 12
       /\ m = ResetMem(o,
                [ ram |-> <<0, 0>>, ram2 |-> <<0, 0>>, dfs |-> 0, snd |-> 0,
                  ram6 |-> 0, jim |-> [page \in 0..1 |-> 0], usedrom6 |-> FALSE,
                  cart |-> FALSE, fastlow |-> FALSE, fasthigh2 |-> FALSE,
                  enabled |-> {}, rombank |-> rombank, extrom |-> extrom,
                  intrombank |-> 10, bank |-> 0, jimpage |-> 0 ])
  /\ resetit = FALSE /\ wantload = FALSE /\ wantsave = FALSE
  /\ cpureset = FALSE /\ file = NoFile /\ kept = NoFile
  /\ loaded = FALSE /\ steps = 0

MemStep ==
  /\ steps < MaxSteps
  /\ steps' = steps + 1 /\ loaded' = FALSE
  /\ UNCHANGED <<file, kept>>

(* The menus.  An option counts at once, the reset comes after a frame.     *)
Plug(options) ==
  /\ MemStep
  /\ o' = options /\ resetit' = TRUE
  /\ UNCHANGED <<m, wantload, wantsave, cpureset>>

Turbo == Plug([o EXCEPT !.turbo = ~@, !.mrb = @ /\ o.turbo])
Mrb == Plug([o EXCEPT !.mrb = ~@, !.turbo = @ /\ o.mrb])
MrbMode == \E mode \in 0..2 : Plug([o EXCEPT !.mrbmode = mode])
Plus3 == Plug([o EXCEPT !.plus3 = ~@, !.firstbyte = @ /\ o.plus3])
Plus1 == Plug([o EXCEPT !.plus1 = ~@, !.firstbyte = @ /\ o.plus1])
FirstByte ==
  Plug([o EXCEPT !.firstbyte = ~@, !.plus1 = @ /\ o.firstbyte,
                 !.plus3 = @ /\ o.firstbyte])
Adfs == Plug([o EXCEPT !.adfsena = ~@])
Dfs == Plug([o EXCEPT !.dfsena = ~@])
Sndex == Plug([o EXCEPT !.sndex = ~@])
Jim == Plug([o EXCEPT !.jim = ~@])

Mgc ==                                 \* no reset
  /\ MemStep /\ o' = [o EXCEPT !.mgc = ~@]
  /\ UNCHANGED <<m, resetit, wantload, wantsave, cpureset>>

RomMenu ==                             \* gui_romload0, 1, gui_romeject0
  /\ MemStep /\ \E there \in BOOLEAN : m' = [m EXCEPT !.cart = there]
  /\ cpureset' = TRUE                  \* reset6502e
  /\ UNCHANGED <<o, resetit, wantload, wantsave>>

HardReset ==
  /\ MemStep /\ resetit' = TRUE
  /\ UNCHANGED <<o, m, wantload, wantsave, cpureset>>

SaveMenu ==
  /\ MemStep /\ wantsave' = TRUE
  /\ UNCHANGED <<o, m, resetit, wantload, cpureset>>

LoadMenu ==
  /\ MemStep /\ file # NoFile /\ wantload' = TRUE
  /\ UNCHANGED <<o, m, resetit, wantsave, cpureset>>

(* The program.  A reset asked of the CPU comes with its first instruction. *)
Run(mem) ==
  /\ MemStep
  /\ m' = IF cpureset THEN ResetMem(o, mem) ELSE mem
  /\ cpureset' = FALSE
  /\ UNCHANGED <<o, resetit, wantload, wantsave>>

ProgramWrites ==
  \E place \in {"low", "high", "sideways", "fd", "fcff", "fc00", "fc7f"},
     video \in BOOLEAN, v \in Values : Run(WriteMem(o, m, place, video, v))

ProgramSelects == \E bank \in Banks : Run(SelectBank(m, bank))

(* The end of runelk: reset, break, load, save, in this order. *)
EndFrame ==
  /\ \E break \in BOOLEAN :
       LET opt == IF wantload THEN LoadedOptions(o) ELSE o
           run == IF cpureset THEN ResetMem(o, m) ELSE m
           reset == IF resetit THEN ResetMem(o, [run EXCEPT !.ram = <<0, 0>>])
                    ELSE run
           broken == IF break THEN ResetMem(o, reset) ELSE reset
           mem == IF wantload THEN DoLoad(o, broken) ELSE broken
       IN  /\ o' = opt /\ m' = mem
           /\ IF wantsave
              THEN /\ file' = DoSave(opt, mem)
                   /\ kept' = [ reads |-> Readings(opt, mem), wired |-> Wired(mem),
                                cells |-> <<>> ]
              ELSE UNCHANGED <<file, kept>>
  /\ loaded' = wantload
  /\ resetit' = FALSE /\ wantload' = FALSE /\ wantsave' = FALSE
  /\ cpureset' = FALSE
  /\ UNCHANGED steps

MemNext ==
  \/ Turbo \/ Mrb \/ MrbMode \/ Plus3 \/ Plus1 \/ FirstByte \/ Adfs \/ Dfs
  \/ Sndex \/ Jim \/ Mgc \/ RomMenu \/ HardReset \/ SaveMenu \/ LoadMenu
  \/ ProgramWrites \/ ProgramSelects \/ EndFrame

MemSpec == MemInit /\ [][MemNext]_memory

-----------------------------------------------------------------------------
MemTypeOK ==
  /\ o \in Options /\ m \in Memories
  /\ resetit \in BOOLEAN /\ wantload \in BOOLEAN /\ wantsave \in BOOLEAN
  /\ cpureset \in BOOLEAN /\ loaded \in BOOLEAN /\ steps \in 0..MaxSteps

(* The options bring this wiring about.  A loaded state brings options       *)
(* without theirs.                                                          *)
WiredFor(opt, mem) ==
  /\ mem.fastlow => opt.turbo \/ opt.mrb
  /\ mem.fasthigh2 => opt.mrb
  /\ DfsBank \in mem.enabled => opt.plus3 /\ opt.dfsena
  /\ SoundBank \in mem.enabled => opt.sndex

(* A state loaded on a machine that is wired as the one that saved it was,  *)
(* and as its options wire it, is read everywhere what it read when it was  *)
(* saved, whatever options were changed and whatever was written in         *)
(* between.  Page FD, the fast RAM of a turbo board and a RAM bank not yet  *)
(* written are not in the file.                                             *)
LoadedReadsAsSaved ==
  loaded /\ kept # NoFile /\ kept.wired = Wired(m) /\ WiredFor(o, m) =>
    \A at \in Places \X BOOLEAN :
      \/ at[1] \in {"fd", "fcff"}
      \/ at[1] = "low" /\ o.turbo
      \/ kept.reads[at][1] = "ram6" /\ ~m.usedrom6
      \/ ReadMem(o, m, at[1], at[2]) = kept.reads[at]
=============================================================================
