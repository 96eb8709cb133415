------------------------------- MODULE Decode -------------------------------
(***************************************************************************)
(* The regularity of the 6502, to hold the switch of exec6502 against: an  *)
(* opcode is aaabbbcc, where cc and aaa are the operation and bbb the      *)
(* addressing mode; operation and mode give the length and the cycles.     *)
(***************************************************************************)
EXTENDS Instructions

Group(code) == code % 4                \* cc
ModeBits(code) == (code \div 4) % 8    \* bbb
OpBits(code) == code \div 32           \* aaa

(* What the digits mean, "-" where they mean something irregular. *)
GroupOps ==
  << <<"ORA", "AND", "EOR", "ADC", "STA", "LDA", "CMP", "SBC">>,
     <<"ASL", "ROL", "LSR", "ROR", "STX", "LDX", "DEC", "INC">>,
     <<"-", "BIT", "-", "-", "STY", "LDY", "CPY", "CPX">> >>

GroupModes ==
  << <<"(,x)", "zp", "#", "abs", "(),y", "zp,x", "abs,y", "abs,x">>,
     <<"#", "zp", "-", "abs", "-", "zp,x", "-", "abs,x">>,
     <<"#", "zp", "-", "abs", "-", "zp,x", "-", "abs,x">> >>

Row(code) == IF Group(code) = 0 THEN 3 ELSE Group(code)
OpOf(code) == GroupOps[Row(code)][OpBits(code) + 1]

ModeOf(code) ==                        \* LDX and STX index by y
  LET mode == GroupModes[Row(code)][ModeBits(code) + 1]
  IN  IF OpOf(code) \in {"LDX", "STX"}
      THEN CASE mode = "zp,x" -> "zp,y" [] mode = "abs,x" -> "abs,y"
             [] OTHER -> mode
      ELSE mode

(* Combinations that are no instruction: a store into an operand, shifts of *)
(* one, indexes that STX, STY, BIT, CPX and CPY do not have.                *)
Irregular(op, mode) ==
  \/ op = "-" \/ mode = "-"
  \/ mode = "#" /\ op \in Stores \cup Modifies \cup {"BIT"}
  \/ mode \in {"zp,x", "abs,x"} /\ op \in {"BIT", "CPY", "CPX"}
  \/ mode \in {"abs,x", "abs,y"} /\ op \in {"STX", "STY"}

Regular(code) ==
  Group(code) # 3 /\ ~Irregular(OpOf(code), ModeOf(code))

-----------------------------------------------------------------------------
OperandLength(mode) == IF mode \in {"abs", "abs,x", "abs,y"} THEN 2 ELSE 1

Index(mode, r) ==
  CASE mode \in {"zp,x", "abs,x", "(,x)"} -> r.x
    [] mode \in {"zp,y", "abs,y", "(),y"} -> r.y
    [] OTHER -> 0

(* The address before and after indexing, r.pc being at the operand. *)
Base(mode, r, mem) ==
  CASE mode = "#" -> r.pc
    [] mode \in {"abs", "abs,x", "abs,y"} -> WordAt(r, mem)
    [] mode = "(,x)" -> Pointer((mem[r.pc] + r.x) % 256, mem)
    [] mode = "(),y" -> Pointer(mem[r.pc], mem)
    [] OTHER -> mem[r.pc]

Address(mode, r, mem) ==
  CASE mode \in {"zp,x", "zp,y"} -> (Base(mode, r, mem) + Index(mode, r)) % 256
    [] mode \in {"abs,x", "abs,y", "(),y"} ->
         (Base(mode, r, mem) + Index(mode, r)) % 65536
    [] OTHER -> Base(mode, r, mem)

(* The cycles: those of the mode, two more to change memory, and one more   *)
(* to carry into the high byte of an index, which is always taken to write. *)
ModeCycles ==
  ("#" :> 2) @@ ("zp" :> 3) @@ ("zp,x" :> 4) @@ ("zp,y" :> 4) @@
  ("abs" :> 4) @@ ("abs,x" :> 4) @@ ("abs,y" :> 4) @@ ("(,x)" :> 6) @@
  ("(),y" :> 5)

Carries(op, mode, r, mem) ==
  /\ mode \in {"abs,x", "abs,y", "(),y"}
  /\ \/ op \in Stores \cup Modifies
     \/ Hi(Base(mode, r, mem)) # Hi(Address(mode, r, mem))

RegularCycles(op, mode, r, mem) ==
  ModeCycles[mode] + (IF op \in Modifies THEN 2 ELSE 0)
                   + (IF Carries(op, mode, r, mem) THEN 1 ELSE 0)

(* The others, by name *)
OtherCycles(code, r, mem) ==
  LET next == Inc(r.pc)
  IN  CASE code = \h00 -> 7
        [] code \in {\h08, \h48} -> 3
        [] code \in {\h28, \h68} -> 4
        [] code \in {\h20, \h40, \h60} -> 6
        [] code = \h4C -> 3
        [] code = \h6C -> 5
        [] In(Branches, code) ->
             LET target == Execute(code, r, mem).r.pc
             IN  IF target = next THEN 2
                 ELSE IF Hi(target) = Hi(next) THEN 3 ELSE 4
        [] In(Implied, code) -> 2

-----------------------------------------------------------------------------
Charged(bus) == Len(SelectSeq(bus, LAMBDA step : step.k \in {"R", "W", "C"}))
Writes(bus) == SelectSeq(bus, LAMBDA step : step.k = "W")

(* What an instruction leaves and writes *)
Expected(op, mode, r, mem) ==
  LET ea == Address(mode, r, mem)
      past == [r EXCEPT !.pc = (@ + OperandLength(mode)) % 65536]
      modified == ModifyOp(op, past, mem[ea])
  IN  CASE op \in Stores -> [r |-> past, writes |-> <<Write(ea, StoreOp(op, r))>>]
        [] op \in Modifies -> [ r |-> modified.r,
             writes |-> <<Write(ea, mem[ea]), Write(ea, modified.m)>> ]
        [] OTHER -> [r |-> ReadOp(op, past, mem[ea]), writes |-> <<>>]

(* ADC through a pointer takes a cycle less than the other instructions.    *)
Forgets(code) == code \in {\h61, \h71}

(* Every regular opcode does what its digits say in the cycles they say,    *)
(* and every opcode but BRK samples the interrupt lines, each of the        *)
(* documented ones right before its last access.                            *)
FollowsPattern(code, r, mem) ==
  LET did == Execute(code, r, mem)
      cycles == 1 + Charged(did.bus) + (IF Forgets(code) THEN 1 ELSE 0)
      op == OpOf(code)
      mode == ModeOf(code)
  IN  IF Regular(code)
      THEN /\ did.r = Expected(op, mode, r, mem).r
           /\ Writes(did.bus) = Expected(op, mode, r, mem).writes
           /\ cycles = RegularCycles(op, mode, r, mem)
           /\ did.bus[Len(did.bus) - 1] = Sample
      ELSE \E section \in
             {Break, StackOps, Implied, Branches, Jumps} : In(section, code)
           => /\ cycles = OtherCycles(code, r, mem)
              /\ code # 0 => did.bus[Len(did.bus) - 1] = Sample

SamplesLines(code, r, mem) ==
  LET did == Execute(code, r, mem)
  IN  did.r.i \/ Sample \in ToSet(did.bus)

-----------------------------------------------------------------------------
(* The adder against arithmetic: decimal for numbers of two digits, binary  *)
(* for numbers with a sign.                                                 *)
IsDecimal(n) == Digit(n) <= 9 /\ Tens(n) <= 9
Decimal(n) == Digit(n) + 10 * Tens(n)
Signed(n) == IF Neg(n) THEN n - 2 * Sign ELSE n

AddsDecimal(a, m, c) ==
  LET sum == AdcDecimal(a, m, c, [z |-> FALSE, n |-> FALSE])
      difference == SbcDecimal(a, m, c)
  IN  IsDecimal(a) /\ IsDecimal(m) =>
        /\ IsDecimal(sum.a) /\ IsDecimal(difference.a)
        /\ Decimal(sum.a) + (IF sum.c THEN 100 ELSE 0)
             = Decimal(a) + Decimal(m) + c
        /\ Decimal(difference.a) - (IF difference.c THEN 0 ELSE 100)
             = Decimal(a) - Decimal(m) - (1 - c)
=============================================================================
