------------------------------ MODULE Machine ------------------------------
(***************************************************************************)
(* The CPU, the display and the interrupt line between them: exec6502 of   *)
(* src/6502.c with yield, updateulaints and waitforramsync of src/ula.c,   *)
(* called by runelk of src/main.c.                                         *)
(*                                                                         *)
(* Everything runs in one thread, and time is two counters: cycles, which  *)
(* an instruction advances as it goes, and ulacycles, which yield brings   *)
(* up to cycles when the instruction comes to sample its interrupt lines   *)
(* and when it ends.  In between the display stands still: what the CPU    *)
(* sees of it, and what it waits for RAM, is the state of the last yield.  *)
(*                                                                         *)
(* An instruction is a shape: the steps that it makes on the bus and the i *)
(* flag that it leaves, as module Instructions has them.  The interrupts   *)
(* are those of the display; nothing in the program raises nmi.            *)
(***************************************************************************)
EXTENDS Screen, Sequences

CONSTANTS
  Slice,      \* 128: exec6502 runs while cycles < 128
  UlaModes,   \* ulamode, of "standard", "dual" and "single"
  Shapes,     \* the shapes of the program's instructions, by the i flag
  Masks,      \* what it writes to the interrupt enable register
  ModeLines,  \* the lines in which it writes the mode
  MaxResets   \* bound: how often the user resets the machine

Lines == {"rtc", "vbl"}
Places == {"ram", "rom"}               \* "rom": all that never waits

(* A read, a read charged no cycle, a write, a push, a cycle without access, *)
(* a sample *)
Steps == {"R", "r", "W", "P", "C", "I"}

ASSUME MachineAssumption ==
  /\ Slice \in Nat \ {0} /\ MaxResets \in Nat
  /\ UlaModes \subseteq {"standard", "dual", "single"}
  /\ Shapes \subseteq [masked : BOOLEAN, todo : Seq(Steps), leaves : BOOLEAN]
  /\ Masks \subseteq SUBSET Lines
  /\ ModeLines \subseteq 0..FrameLines

(* The instructions by the i flag they begin with. *)
Program == [masked \in BOOLEAN |-> {shape \in Shapes : shape.masked = masked}]

VARIABLES
  ulamode,    \* the kind of RAM interface
  isr, ier,   \* the interrupts raised and enabled
  irq,        \* the line to the CPU
  i,          \* p.i, interrupts disabled
  realirq,    \* the line as last sampled
  stage,      \* "fetch", "run" an instruction, "enter" a handler
  todo,       \* the bus steps to go
  leaves,     \* the i flag the instruction leaves
  fresh,      \* was the line sampled in this instruction?  History
  cycles, ulacycles,
  cpureset,   \* a reset is due at the end of the instruction
  resets,     \* resets so far
  event       \* the last interrupt the display raised.  History

vars == << g, ulamode, mode, start, isr, ier, irq, i, realirq, stage, todo,
           leaves, fresh, cycles, ulacycles, cpureset, resets, event >>

ula == <<g, ulamode, mode, start, isr, ier, irq, ulacycles, event>>
cpu == <<i, realirq, stage, todo, leaves, fresh, cycles>>
user == <<cpureset, resets>>

Init ==                                \* initelk: reset6502, resetula
  /\ ScreenInit
  /\ ulamode \in UlaModes
  /\ isr = {} /\ ier = {} /\ irq = FALSE
  /\ i = TRUE /\ realirq = FALSE
  /\ stage = "fetch" /\ todo = <<>> /\ leaves = TRUE /\ fresh = FALSE
  /\ cycles = 0 /\ ulacycles = 0
  /\ cpureset = FALSE /\ resets = 0 /\ event = "none"

-----------------------------------------------------------------------------
(* waitforramsync: what an access to RAM waits, at the cycle it begins, in  *)
(* the middle of the picture or outside.                                    *)
Wait(c) ==
  LET picture == g.dispon /\ g.x < PictureCells
      odd == c % 2
  IN  CASE picture /\ ~Half(mode) ->
             IF ulamode = "dual" THEN 1 ELSE PictureCells - g.x
        [] picture /\ Half(mode) ->
             IF ulamode = "dual" THEN (IF c % 4 = 1 THEN 1 ELSE 0) ELSE odd
        [] OTHER -> IF ulamode = "standard" THEN odd ELSE 0

Ready(place, c) == IF place = "ram" THEN c + Wait(c) ELSE c

EntrySteps == <<"P", "P", "P", "R", "R", "C", "C">>

-----------------------------------------------------------------------------
(* The CPU *)
Fetch ==                               \* opcode=readmem(pc)
  /\ stage = "fetch" /\ cycles < Slice
  /\ \E place \in Places, shape \in Program[i] :
       /\ cycles' = Ready(place, cycles) + 1
       /\ todo' = shape.todo /\ leaves' = shape.leaves
  /\ stage' = "run" /\ fresh' = FALSE
  /\ UNCHANGED <<i, realirq, ula, user>>

NextStep(kinds) == stage # "fetch" /\ todo # <<>> /\ Head(todo) \in kinds

Access ==                              \* readmem, writemem
  /\ NextStep({"R", "r", "W", "P"})
  /\ \E place \in Places :
       cycles' = Ready(place, cycles) + (IF Head(todo) = "r" THEN 0 ELSE 1)
  /\ todo' = Tail(todo)
  /\ UNCHANGED <<i, realirq, stage, leaves, fresh, ula, user>>

Charged ==                             \* a cycle without access
  /\ NextStep({"C"})
  /\ cycles' = cycles + 1 /\ todo' = Tail(todo)
  /\ UNCHANGED <<i, realirq, stage, leaves, fresh, ula, user>>

(* Stores to the registers of the ULA: writeula.  The stack is not there.   *)
Store ==
  /\ NextStep({"W"})
  /\ cycles' = cycles + 1 /\ todo' = Tail(todo)
  /\ UNCHANGED <<i, realirq, stage, leaves, fresh, user>>
  /\ UNCHANGED <<g, ulamode, ulacycles, event>>

WriteEnable ==
  /\ Store
  /\ ier' \in Masks /\ irq' = (isr \cap ier' # {})
  /\ UNCHANGED <<mode, start, isr>>

WriteClear ==
  /\ Store
  /\ \E cleared \in SUBSET Lines :
       isr' = isr \ cleared /\ irq' = (isr' \cap ier # {})
  /\ UNCHANGED <<mode, start, ier>>

WriteMode ==
  /\ Store
  /\ g.y \in ModeLines /\ mode' \in Modes
  /\ UNCHANGED <<start, isr, ier, irq>>

WriteStart ==
  /\ Store
  /\ start' \in Starts
  /\ UNCHANGED <<mode, isr, ier, irq>>

(* yield, before a sample and at the end of an instruction *)
Yields == IF todo = <<>> THEN stage # "fetch" ELSE NextStep({"I"})

Display_Tick ==
  /\ Yields /\ ulacycles < cycles
  /\ ulacycles' = ulacycles + 1
  /\ ScreenTick
  /\ LET raised == Raised(g, mode)
     IN  IF raised = {} THEN UNCHANGED <<isr, irq, event>>
         ELSE /\ isr' = isr \cup raised
              /\ irq' = (isr' \cap ier # {})
              /\ event' = CHOOSE line \in raised : TRUE
  /\ UNCHANGED <<ulamode, ier, cpu, user>>

DoInts ==
  /\ NextStep({"I"}) /\ ulacycles >= cycles
  /\ realirq' = irq /\ fresh' = TRUE /\ todo' = Tail(todo)
  /\ UNCHANGED <<i, stage, leaves, cycles, ula, user>>

(* After the instruction and the yield: into the handler, if the line was   *)
(* raised and the i flag, as the instruction leaves it, lets it in.         *)
Enter ==
  /\ stage = "run" /\ todo = <<>> /\ ulacycles >= cycles
  /\ realirq /\ ~leaves
  /\ stage' = "enter" /\ todo' = EntrySteps /\ leaves' = TRUE
  /\ i' = leaves
  /\ UNCHANGED <<realirq, fresh, cycles, ula, user>>

(* reset6502.  ulacycles and what was sampled stay. *)
Reset6502 == i' = TRUE /\ cycles' = 0

EndInstruction ==
  /\ stage # "fetch" /\ todo = <<>> /\ ulacycles >= cycles
  /\ stage = "run" => ~(realirq /\ ~leaves)
  /\ stage' = "fetch"
  /\ IF cpureset THEN Reset6502 ELSE i' = leaves /\ UNCHANGED cycles
  /\ cpureset' = FALSE
  /\ UNCHANGED <<realirq, todo, leaves, fresh, resets, ula>>

-----------------------------------------------------------------------------
(* runelk: exec6502 returns, and between two frames the user may reset the  *)
(* machine.  resetula leaves the line, the start address, and the cycles.   *)
ResetUla ==
  /\ ScreenReset /\ isr' = {} /\ ier' = {}
  /\ UNCHANGED irq

SliceOver == stage = "fetch" /\ cycles >= Slice

EndSlice ==
  /\ SliceOver
  /\ cycles' = cycles - Slice /\ ulacycles' = ulacycles - Slice
  /\ UNCHANGED <<g, ulamode, mode, start, isr, ier, irq, i, realirq, stage,
                 todo, leaves, fresh, cpureset, resets, event>>

UserResets ==
  /\ SliceOver /\ cycles < 2 * Slice     \* abstraction: the slice was the last
  /\ resets < MaxResets
  /\ ulacycles' = ulacycles - Slice /\ resets' = resets + 1
  /\ UNCHANGED <<ulamode, realirq, stage, todo, leaves, fresh, event>>

HardReset ==                           \* resetit
  /\ UserResets /\ Reset6502 /\ ResetUla
  /\ UNCHANGED cpureset

BreakKey ==                            \* break_pressed
  /\ UserResets /\ Reset6502
  /\ UNCHANGED <<g, mode, start, isr, ier, irq, cpureset>>

LoadRom ==                             \* gui_rom_load: reset6502e, resetula
  /\ UserResets /\ ResetUla
  /\ cpureset' = TRUE /\ cycles' = cycles - Slice
  /\ UNCHANGED i

Cpu ==
  \/ Fetch \/ Access \/ Charged
  \/ WriteEnable \/ WriteClear \/ WriteMode \/ WriteStart
  \/ Display_Tick \/ DoInts \/ Enter \/ EndInstruction \/ EndSlice

User == HardReset \/ BreakKey \/ LoadRom

Next == Cpu \/ User

(* The loop of exec6502 and runelk never stops. *)
Spec == Init /\ [][Next]_vars /\ WF_vars(Cpu)

-----------------------------------------------------------------------------
(* Every variable has its type: the counters too, the display is never ahead *)
(* of the CPU except after a reset, which takes the CPU's cycles away.       *)
TypeOK ==
  /\ ScreenTypeOK
  /\ ulamode \in UlaModes
  /\ isr \subseteq Lines /\ ier \subseteq Lines /\ irq \in BOOLEAN
  /\ i \in BOOLEAN /\ realirq \in BOOLEAN
  /\ stage \in {"fetch", "run", "enter"}
  /\ leaves \in BOOLEAN /\ fresh \in BOOLEAN
  /\ todo \in Seq(Steps)
  /\ cycles \in Nat /\ ulacycles \in Nat
  /\ resets = 0 => ulacycles <= cycles
  /\ event \in {"none"} \cup Lines
  /\ cpureset \in BOOLEAN /\ resets \in 0..MaxResets

(* The handler is entered on a sample taken during the instruction that ends *)
(* there, never on an older one, though realirq outlives the instruction.    *)
IrqFresh == stage = "enter" => fresh

(* An interrupt line that stays up while interrupts are enabled is taken.    *)
InterruptTaken == []<>(~irq \/ i)

(* Frame after frame the display raises the clock in the picture, then the   *)
(* blank as the picture goes off, then begins the next frame, whatever the   *)
(* CPU does to its cycles.                                                   *)
AsFrame ==
  INSTANCE Frame WITH
    phase <- CASE g.y < RtcLine -> "upper"
               [] g.y >= RtcLine /\ g.y < EndLine[mode] -> "lower"
               [] OTHER -> "blank",
    shown <- g.dispon
ImplementsFrame == AsFrame!Spec
=============================================================================
