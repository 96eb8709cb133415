------------------------------- MODULE Startup -------------------------------
(***************************************************************************)
(* How the emulator gets its settings: the command line of initelk in      *)
(* src/main.c, the configuration file of src/config.c, and the kind of     *)
(* disc loaddisc of src/disc.c takes a file for.                           *)
(*                                                                         *)
(* An argument is an option, a name or a number.  A setting's name is cut  *)
(* into parts, so that a name begins another in the model exactly when it  *)
(* does in the file.                                                       *)
(***************************************************************************)
EXTENDS Integers, Sequences, SequencesExt

CONSTANTS
  Files,      \* names on the command line
  Numbers,    \* numbers on the command line
  MaxChoices  \* bound: options given and settings changed

ASSUME StartupAssumption == Numbers \subseteq Nat /\ MaxChoices \in Nat

VARIABLES
  line,       \* the command line
  want,       \* what its author wants.  History
  settings,   \* the settings when the emulator is left
  choices

startup == <<line, want, settings, choices>>

-----------------------------------------------------------------------------
(* The command line *)
Option(name) == [option |-> name, file |-> "", number |-> 0]
File(name) == [option |-> "", file |-> name, number |-> 0]  \* atoi gives 0
Number(k) == [option |-> "", file |-> "", number |-> k]

NoFiles == [ tape |-> "", disc |-> "", disc1 |-> "", parallel |-> "",
             serial |-> "", serialdebug |-> 0, debug |-> FALSE,
             roms |-> [bank \in 0..15 |-> ""] ]

Parser ==
  [ to |-> NoFiles, tapenext |-> 0, discnext |-> 0, romnext |-> -2,
    parallelnext |-> FALSE, serialnext |-> FALSE, debugnext |-> FALSE ]

OptionNames ==
  {"tape", "disc", "disc1", "rom", "parallel", "serial", "serialdebug", "debug"}

TakeOption(s, name) ==
  CASE name = "tape" -> [s EXCEPT !.tapenext = 2]
    [] name = "disc" -> [s EXCEPT !.discnext = 1]
    [] name = "disc1" -> [s EXCEPT !.discnext = 2]
    [] name = "rom" -> [s EXCEPT !.romnext = -1]
    [] name = "parallel" -> [s EXCEPT !.parallelnext = TRUE]
    [] name = "serial" -> [s EXCEPT !.serialnext = TRUE]
    [] name = "serialdebug" -> [s EXCEPT !.debugnext = TRUE]
    [] name = "debug" -> [s EXCEPT !.to.debug = TRUE]

(* A bank of 16 or more is never done with: it takes every file after it.   *)
TakeRom(s, arg) ==
  IF s.romnext = -1 THEN [s EXCEPT !.romnext = arg.number]
  ELSE IF s.romnext < 16
  THEN [s EXCEPT !.to.roms[s.romnext] = arg.file, !.romnext = -2]
  ELSE s

TakeDisc_Kept(s, arg) ==               \* mutant: discnext stays
  IF s.discnext = 2 THEN [s EXCEPT !.to.disc1 = arg.file]
  ELSE [s EXCEPT !.to.disc = arg.file]

TakeDisc(s, arg) ==
  IF s.discnext = 2 THEN [s EXCEPT !.to.disc1 = arg.file, !.discnext = 0]
  ELSE [s EXCEPT !.to.disc = arg.file, !.discnext = 0]

TakeValue(s, arg) ==
  IF s.tapenext > 0 THEN [s EXCEPT !.to.tape = arg.file]
  ELSE IF s.discnext > 0 THEN TakeDisc(s, arg)
  ELSE IF s.romnext > -2 THEN TakeRom(s, arg)
  ELSE IF s.parallelnext
  THEN [s EXCEPT !.to.parallel = arg.file, !.parallelnext = FALSE]
  ELSE IF s.serialnext
  THEN [s EXCEPT !.to.serial = arg.file, !.serialnext = FALSE]
  ELSE IF s.debugnext
  THEN [s EXCEPT !.to.serialdebug = arg.number, !.debugnext = FALSE]
  ELSE s

Take(s, arg) ==
  LET taken == IF arg.option # "" THEN TakeOption(s, arg.option)
               ELSE TakeValue(s, arg)
  IN  [taken EXCEPT !.tapenext = IF @ > 0 THEN @ - 1 ELSE 0]

(* The arguments, one after the other *)
ParserAfter(args) ==
  LET after[k \in 0..Len(args)] ==
        IF k = 0 THEN Parser ELSE Take(after[k - 1], args[k])
  IN  after[Len(args)]

Parsed(args) == ParserAfter(args).to

-----------------------------------------------------------------------------
(* The configuration file *)
SettingNames ==
  << <<"tapespeed">>, <<"plus", "1">>, <<"plus", "3">>, <<"dfsena">>,
     <<"adfsena">>, <<"defaultwriteprotect">>, <<"turbo">>, <<"mrb">>,
     <<"mrb", "mode">>, <<"ulamode">>, <<"enable_", "jim">>, <<"filter">>,
     <<"sound_", "internal">>, <<"sound_", "exp">>, <<"sound_", "ddnoise">>,
     <<"sound_", "ddvol">>, <<"sound_", "ddtype">>, <<"sound_", "tape">>,
     <<"win_resize">>, <<"joy_", "firstbyte">>, <<"joy_", "offset">>,
     <<"enable_", "mgc">>, <<"enable_", "db_flash_cartridge">> >>

Default ==                             \* getintcfg's second argument
  [ k \in DOMAIN SettingNames |->
      CASE SettingNames[k] \in { <<"defaultwriteprotect">>, <<"sound_", "internal">>,
                                 <<"sound_", "ddnoise">>, <<"sound_", "ddtype">> } -> 1
        [] SettingNames[k] = <<"sound_", "ddvol">> -> 2
        [] OTHER -> 0 ]

(* Each setting has its line, in this order. *)
Saved(values) ==                       \* saveconfig
  [k \in DOMAIN SettingNames |-> [name |-> SettingNames[k], value |-> values[k]]]

(* getstringcfg: the first line that begins with the name *)
GetIntCfg(cfg, name, default) ==
  LET at == {k \in DOMAIN cfg : IsPrefix(name, cfg[k].name)}
  IN  IF at = {} THEN default ELSE cfg[CHOOSE k \in at : \A j \in at : k <= j].value

Loaded(cfg) ==                         \* loadconfig
  [k \in DOMAIN SettingNames |-> GetIntCfg(cfg, SettingNames[k], Default[k])]

-----------------------------------------------------------------------------
(* loaddisc, by the size of a file whose extension says nothing: the loader *)
(* and the tracks, sides, sectors and bytes of a sector it takes.           *)
Geometry(loader, tracks, sides, sectors, bytes) ==
  [ loader |-> loader, tracks |-> tracks, sides |-> sides,
    sectors |-> sectors, bytes |-> bytes ]

LoadDisc(kb) ==
  CASE kb = 800 -> Geometry("ADF", 80, 2, 5, 1024)
    [] kb = 640 -> Geometry("ADL", 80, 2, 16, 256)
    [] kb = 720 -> Geometry("ADL", 80, 2, 9, 512)
    [] kb = 360 -> Geometry("ADL", 40, 2, 9, 512)
    [] kb <= 200 -> Geometry("SSD", 80, 1, 10, 256)
    [] kb \in 201..400 /\ kb # 360 -> Geometry("DSD", 80, 2, 10, 256)
    [] OTHER -> Geometry("none", 0, 0, 0, 0)

-----------------------------------------------------------------------------
StartupInit ==
  /\ line = <<>> /\ want = NoFiles
  /\ settings = Default /\ choices = 0

Choose == choices < MaxChoices /\ choices' = choices + 1

Arguments(name, file, number) ==
  CASE name = "debug" -> <<Option(name)>>
    [] name = "serialdebug" -> <<Option(name), Number(number)>>
    [] name = "rom" -> <<Option(name), Number(number), File(file)>>
    [] OTHER -> <<Option(name), File(file)>>

Give(name, file, number) ==
  /\ line' = line \o Arguments(name, file, number)
  /\ want' = CASE name = "debug" -> [want EXCEPT !.debug = TRUE]
               [] name = "serialdebug" -> [want EXCEPT !.serialdebug = number]
               [] name = "rom" -> [want EXCEPT !.roms[number] = file]
               [] OTHER -> [want EXCEPT ![name] = file]

GiveOption ==
  /\ Choose
  /\ \E name \in OptionNames, file \in Files, number \in Numbers \cap (0..15) :
       Give(name, file, number)
  /\ UNCHANGED settings

ChangeSetting ==                       \* the menus
  /\ Choose
  /\ \E k \in DOMAIN settings, value \in 0..2 : settings' = [settings EXCEPT ![k] = value]
  /\ UNCHANGED <<line, want>>

(* The emulator is left and started again. *)
Restart ==
  /\ settings' = Loaded(Saved(settings))
  /\ UNCHANGED <<line, want, choices>>

StartupNext == GiveOption \/ ChangeSetting \/ Restart

StartupSpec == StartupInit /\ [][StartupNext]_startup

-----------------------------------------------------------------------------
(* What can be wanted: names for the files, a number, a name for each bank. *)
Wanted ==
  LET name == {""} \cup Files
  IN  [ tape : name, disc : name, disc1 : name, parallel : name, serial : name,
        serialdebug : Numbers \cup {0}, debug : BOOLEAN, roms : [0..15 -> name] ]

(* Every variable has its type.                                             *)
StartupTypeOK ==
  /\ line \in Seq([option : {""} \cup OptionNames, file : {""} \cup Files,
                   number : Numbers \cup {0}])
  /\ want \in Wanted
  /\ settings \in [DOMAIN SettingNames -> 0..2]
  /\ choices \in 0..MaxChoices

(* Every option of a command line gets the value that follows it, whatever  *)
(* comes before and after, and the last of several wins.                    *)
OptionsTaken == Parsed(line) = want

(* A setting that is saved is loaded again, though a name is looked up by   *)
(* the beginning of a line.                                                 *)
SettingsKept == Loaded(Saved(settings)) = settings

(* A disc of the geometry taken for a size holds such a file, and when the  *)
(* size names the format exactly it holds nothing else.                     *)
ImageFits(kb) ==
  LET d == LoadDisc(kb)
      capacity == d.tracks * d.sides * d.sectors * d.bytes
  IN  d.loader # "none" =>
        /\ kb * 1024 <= capacity
        /\ d.loader \in {"ADF", "ADL"} => kb * 1024 = capacity

(* Whatever loaddisc takes a file for holds all of it.                      *)
SizesFit == \A kb \in 0..1024 : ImageFits(kb)

(* initelk, loadconfig and saveconfig, loaddisc: options and settings get   *)
(* the values meant for them, and a file fits the disc it is taken for.     *)
StartupRight == OptionsTaken /\ SettingsKept /\ SizesFit
=============================================================================
