---------------------------- MODULE Instructions ----------------------------
(***************************************************************************)
(* The instructions of the 6502, the switch of exec6502 in src/6502.c: for *)
(* each opcode what it does to the registers, what it does on the bus, in  *)
(* which order, and where the interrupt lines are sampled (doints).        *)
(*                                                                         *)
(* A bus step is a read R, a read r that is charged no cycle, a write W, a *)
(* cycle C without access, or a sample I.  r stands for the registers      *)
(* after the opcode has been fetched, mem for the memory, a function.      *)
(***************************************************************************)
EXTENDS Adder, Bitwise, Sequences, SequencesExt

Flags == {"c", "z", "i", "d", "v", "n"}
Word(lo, hi) == lo + 256 * hi
Lo(w) == w % 256
Hi(w) == w \div 256
Inc(w) == (w + 1) % 65536
Stack(s) == 256 + s

Step(k, at, value) == [k |-> k, at |-> at, v |-> value]
Read(at) == Step("R", at, 0)
FreeRead(at) == Step("r", at, 0)
Write(at, value) == Step("W", at, value)
Sample == Step("I", 0, 0)
Charge == Step("C", 0, 0)

(* The flags as a byte, with bits 4 and 5 as given, and back. *)
Pushed(r, bits) ==
  bits + (IF r.c THEN 1 ELSE 0) + (IF r.z THEN 2 ELSE 0)
       + (IF r.i THEN 4 ELSE 0) + (IF r.d THEN 8 ELSE 0)
       + (IF r.v THEN 64 ELSE 0) + (IF r.n THEN 128 ELSE 0)

Pulled(r, byte) ==
  [r EXCEPT !.c = byte & 1 # 0, !.z = byte & 2 # 0, !.i = byte & 4 # 0,
            !.d = byte & 8 # 0, !.v = byte & 64 # 0, !.n = byte & 128 # 0]

-----------------------------------------------------------------------------
(* What the instructions do to registers and flags. *)
Carry(r) == IF r.c THEN 1 ELSE 0
WithZN(r, n) == [r EXCEPT !.z = n = 0, !.n = n >= 128]
SetA(r, n) == WithZN([r EXCEPT !.a = n], n)
SetX(r, n) == WithZN([r EXCEPT !.x = n], n)
SetY(r, n) == WithZN([r EXCEPT !.y = n], n)

Compare(r, register, m) ==
  [WithZN(r, Low(register - m)) EXCEPT !.c = register >= m]

Summed(r, sum) ==
  [r EXCEPT !.a = sum.a, !.c = sum.c, !.z = sum.z, !.n = sum.n, !.v = sum.v]

ADC(r, m) ==
  Summed(r, IF r.d THEN AdcDecimal(r.a, m, Carry(r), [z |-> r.z, n |-> r.n])
            ELSE AdcBinary(r.a, m, Carry(r)))
SBC(r, m) ==
  Summed(r, IF r.d THEN SbcDecimal(r.a, m, Carry(r))
            ELSE SbcBinary(r.a, m, Carry(r)))

BIT(r, m) ==
  [r EXCEPT !.z = m & r.a = 0, !.v = m & 64 # 0, !.n = m & 128 # 0]

(* instructions that read a byte m of memory *)
ReadOp(op, r, m) ==
  CASE op = "ORA" -> SetA(r, r.a | m)
    [] op = "AND" -> SetA(r, r.a & m)
    [] op = "EOR" -> SetA(r, r.a ^^ m)
    [] op = "ADC" -> ADC(r, m)
    [] op = "SBC" -> SBC(r, m)
    [] op = "LDA" -> SetA(r, m)
    [] op = "LDX" -> SetX(r, m)
    [] op = "LDY" -> SetY(r, m)
    [] op = "CMP" -> Compare(r, r.a, m)
    [] op = "CPX" -> Compare(r, r.x, m)
    [] op = "CPY" -> Compare(r, r.y, m)
    [] op = "BIT" -> BIT(r, m)
    [] op = "NOP" -> r

(* instructions that write a byte *)
StoreOp(op, r) ==
  CASE op = "STA" -> r.a
    [] op = "STX" -> r.x
    [] op = "STY" -> r.y
    [] op = "SAX" -> r.a & r.x

(* instructions that change a byte m, of memory or the accumulator *)
Shifted(r, carry, m) == [r |-> WithZN([r EXCEPT !.c = carry], m), m |-> m]

ModifyOp(op, r, m) ==
  CASE op = "ASL" -> Shifted(r, m >= 128, Lo(2 * m))
    [] op = "ROL" -> Shifted(r, m >= 128, Lo(2 * m) + Carry(r))
    [] op = "LSR" -> Shifted(r, m % 2 = 1, m \div 2)
    [] op = "ROR" -> Shifted(r, m % 2 = 1, m \div 2 + 128 * Carry(r))
    [] op = "INC" -> [r |-> WithZN(r, Lo(m + 1)), m |-> Lo(m + 1)]
    [] op = "DEC" -> [r |-> WithZN(r, Low(m - 1)), m |-> Low(m - 1)]
    [] op = "RLA" -> LET shifted == Lo(2 * m) + Carry(r)
                     IN  [r |-> SetA([r EXCEPT !.c = m >= 128], r.a & shifted),
                          m |-> shifted]
    [] op = "DCP" -> [r |-> Compare(r, r.a, Low(m - 1)), m |-> Low(m - 1)]

Stores == {"STA", "STX", "STY", "SAX"}
Modifies == {"ASL", "ROL", "LSR", "ROR", "INC", "DEC", "RLA", "DCP"}

(* The end of an instruction on the byte at ea; before are its steps up to  *)
(* there.  Its lines are sampled before the last access.                    *)
Done(r, before, ea, op, mem) ==
  CASE op \in Stores ->
         [r |-> r, bus |-> before \o <<Sample, Write(ea, StoreOp(op, r))>>]
    [] op \in Modifies ->
         LET modified == ModifyOp(op, r, mem[ea])
         IN  [r |-> modified.r,
              bus |-> before \o << Read(ea), Write(ea, mem[ea]), Sample,
                                   Write(ea, modified.m) >>]
    [] OTHER ->
         [r |-> ReadOp(op, r, mem[ea]), bus |-> before \o <<Sample, Read(ea)>>]

-----------------------------------------------------------------------------
(* The opcodes of each section of the switch, and what it does.  A section  *)
(* is a record of sets of opcodes by instruction.                           *)
Names(section, code) == {op \in DOMAIN section : code \in section[op]}
In(section, code) == Names(section, code) # {}
NameOf(section, code) == CHOOSE op \in Names(section, code) : TRUE

(* BRK samples nothing: what was sampled before it stays, but it sets i.    *)
Break == [BRK |-> {\h00}]

Vector(r, bits, at, mem) ==            \* the way into a handler
  [ r |-> [r EXCEPT !.s = (r.s + 253) % 256, !.i = TRUE,
                    !.pc = Word(mem[at], mem[at + 1])],
    bus |-> << Write(Stack(r.s), Hi(r.pc)),
               Write(Stack((r.s + 255) % 256), Lo(r.pc)),
               Write(Stack((r.s + 254) % 256), Pushed(r, bits)),
               Read(at), Read(at + 1) >> ]

DoBreak(r, mem) ==
  LET entered == Vector([r EXCEPT !.pc = Inc(@)], 48, \hFFFE, mem)
  IN  [r |-> entered.r, bus |-> Append(entered.bus, Charge)]

StackOps == [PHP |-> {\h08}, PLP |-> {\h28}, PHA |-> {\h48}, PLA |-> {\h68}]

Push(op, r) ==
  [ r |-> [r EXCEPT !.s = (r.s + 255) % 256],
    bus |-> << Read(r.pc), Sample,
               Write(Stack(r.s), IF op = "PHA" THEN r.a ELSE Pushed(r, 48)) >> ]

Pull(op, r, mem) ==
  LET s == (r.s + 1) % 256
      up == [r EXCEPT !.s = s]
  IN  [ r |-> IF op = "PLA" THEN SetA(up, mem[Stack(s)])
              ELSE Pulled(up, mem[Stack(s)]),
        bus |-> <<Read(r.pc), Read(Stack(r.s)), Sample, Read(Stack(s))>> ]

DoStack(op, r, mem) ==
  IF op \in {"PHA", "PHP"} THEN Push(op, r) ELSE Pull(op, r, mem)

(* on registers and flags: the next byte is read and dropped *)
Implied ==
  [ ASL |-> {\h0A}, CLC |-> {\h18}, ROL |-> {\h2A}, SEC |-> {\h38},
    LSR |-> {\h4A}, CLI |-> {\h58}, ROR |-> {\h6A}, SEI |-> {\h78},
    DEY |-> {\h88}, TXA |-> {\h8A}, TYA |-> {\h98}, TXS |-> {\h9A},
    TAY |-> {\hA8}, TAX |-> {\hAA}, CLV |-> {\hB8}, TSX |-> {\hBA},
    INY |-> {\hC8}, DEX |-> {\hCA}, CLD |-> {\hD8}, INX |-> {\hE8},
    SED |-> {\hF8},
    NOP |-> {\h1A, \h3A, \h5A, \h7A, \hDA, \hEA, \hFA} ]

OnRegisters(op, r) ==
  CASE op \in {"ASL", "ROL", "LSR", "ROR"} ->
         LET shifted == ModifyOp(op, r, r.a) IN [shifted.r EXCEPT !.a = shifted.m]
    [] op = "CLC" -> [r EXCEPT !.c = FALSE]
    [] op = "SEC" -> [r EXCEPT !.c = TRUE]
    [] op = "CLI" -> [r EXCEPT !.i = FALSE]
    [] op = "SEI" -> [r EXCEPT !.i = TRUE]
    [] op = "CLV" -> [r EXCEPT !.v = FALSE]
    [] op = "CLD" -> [r EXCEPT !.d = FALSE]
    [] op = "SED" -> [r EXCEPT !.d = TRUE]
    [] op = "TXA" -> SetA(r, r.x)
    [] op = "TYA" -> SetA(r, r.y)
    [] op = "TAX" -> SetX(r, r.a)
    [] op = "TAY" -> SetY(r, r.a)
    [] op = "TSX" -> SetX(r, r.s)
    [] op = "TXS" -> [r EXCEPT !.s = r.x]
    [] op = "INX" -> SetX(r, Lo(r.x + 1))
    [] op = "INY" -> SetY(r, Lo(r.y + 1))
    [] op = "DEX" -> SetX(r, Low(r.x - 1))
    [] op = "DEY" -> SetY(r, Low(r.y - 1))
    [] op = "NOP" -> r

DoImplied_SamplesNothing(op, r) ==     \* mutant: no doints
  [r |-> OnRegisters(op, r), bus |-> <<Read(r.pc)>>]

DoImplied(op, r) == [r |-> OnRegisters(op, r), bus |-> <<Sample, Read(r.pc)>>]

-----------------------------------------------------------------------------
(* Immediate *)
Immediate ==
  [ ORA |-> {\h09}, AND |-> {\h29}, EOR |-> {\h49}, ADC |-> {\h69},
    NOP |-> {\h89}, LDY |-> {\hA0}, LDX |-> {\hA2}, LDA |-> {\hA9},
    CPY |-> {\hC0}, CMP |-> {\hC9}, CPX |-> {\hE0}, SBC |-> {\hE9} ]

DoImmediate(op, r, mem) ==
  [ r |-> ReadOp(op, [r EXCEPT !.pc = Inc(@)], mem[r.pc]),
    bus |-> <<Sample, Read(r.pc)>> ]

(* Zero page *)
ZeroPage ==
  [ NOP |-> {\h04, \h44, \h64},
    ORA |-> {\h05}, ASL |-> {\h06}, BIT |-> {\h24}, AND |-> {\h25},
    ROL |-> {\h26}, EOR |-> {\h45}, LSR |-> {\h46}, ADC |-> {\h65},
    ROR |-> {\h66}, STY |-> {\h84}, STA |-> {\h85}, STX |-> {\h86},
    LDY |-> {\hA4}, LDA |-> {\hA5}, LDX |-> {\hA6}, CPY |-> {\hC4},
    CMP |-> {\hC5}, DEC |-> {\hC6}, CPX |-> {\hE4}, SBC |-> {\hE5},
    INC |-> {\hE6} ]

DoZeroPage(op, r, mem) ==
  Done([r EXCEPT !.pc = Inc(@)], <<Read(r.pc)>>, mem[r.pc], op, mem)

(* Zero page indexed: by x, and by y for LDX and STX; it stays in page 0. *)
ZeroPageX ==
  [ NOP |-> {\h14, \h34, \h54, \h74, \hD4, \hF4},
    ORA |-> {\h15}, ASL |-> {\h16}, AND |-> {\h35}, ROL |-> {\h36},
    EOR |-> {\h55}, LSR |-> {\h56}, ADC |-> {\h75}, ROR |-> {\h76},
    STY |-> {\h94}, STA |-> {\h95}, STX |-> {\h96}, LDY |-> {\hB4},
    LDA |-> {\hB5}, LDX |-> {\hB6}, CMP |-> {\hD5}, DEC |-> {\hD6},
    SBC |-> {\hF5}, INC |-> {\hF6} ]

ZeroPageIndex(op, r) == IF op \in {"LDX", "STX"} THEN r.y ELSE r.x

DoZeroPageX(op, r, mem) ==
  LET base == mem[r.pc]
  IN  Done([r EXCEPT !.pc = Inc(@)], <<Read(r.pc), Read(base)>>,
           (base + ZeroPageIndex(op, r)) % 256, op, mem)

(* Absolute, in the order of the switch *)
AbsoluteBelow80 ==
  [ NOP |-> {\h0C}, ORA |-> {\h0D}, ASL |-> {\h0E}, BIT |-> {\h2C},
    AND |-> {\h2D}, ROL |-> {\h2E}, RLA |-> {\h2F}, EOR |-> {\h4D},
    LSR |-> {\h4E}, ADC |-> {\h6D}, ROR |-> {\h6E} ]

AbsoluteFrom80 ==
  [ STY |-> {\h8C}, STA |-> {\h8D}, STX |-> {\h8E}, LDY |-> {\hAC},
    LDA |-> {\hAD}, LDX |-> {\hAE}, CPY |-> {\hCC}, CMP |-> {\hCD},
    DEC |-> {\hCE}, CPX |-> {\hEC}, SBC |-> {\hED}, INC |-> {\hEE} ]

Operands(r) == <<Read(r.pc), Read(Inc(r.pc))>>
WordAt(r, mem) == Word(mem[r.pc], mem[Inc(r.pc)])
Past(r) == [r EXCEPT !.pc = Inc(Inc(@))]

DoAbsolute(op, r, mem) == Done(Past(r), Operands(r), WordAt(r, mem), op, mem)

(* Absolute indexed.  The address is first put out without the carry into   *)
(* its high byte: always for a write, else only when there is a carry.      *)
AbsoluteIndexedTo5E ==
  [ X |-> [ORA |-> {\h1D}, ASL |-> {\h1E}, AND |-> {\h3D}, ROL |-> {\h3E},
           EOR |-> {\h5D}, LSR |-> {\h5E}],
    Y |-> [ORA |-> {\h19}, AND |-> {\h39}, EOR |-> {\h59}] ]

AbsoluteIndexedToBD ==
  [ X |-> [ADC |-> {\h7D}, ROR |-> {\h7E}, STA |-> {\h9D}, LDY |-> {\hBC},
           LDA |-> {\hBD}],
    Y |-> [ADC |-> {\h79}, STA |-> {\h99}, LDA |-> {\hB9}] ]

AbsoluteIndexedFromBE ==
  [ X |-> [CMP |-> {\hDD}, DEC |-> {\hDE}, SBC |-> {\hFD}, INC |-> {\hFE},
           NOP |-> {\h1C, \h3C, \h5C, \h7C, \hDC, \hFC}],
    Y |-> [LDX |-> {\hBE}, CMP |-> {\hD9}, SBC |-> {\hF9}] ]

Uncarried(base, ea) == Word(Lo(ea), Hi(base))
Fixup(op, base, ea) ==
  IF Hi(base) # Hi(ea) \/ op \in Stores \cup Modifies
  THEN <<Read(Uncarried(base, ea))>> ELSE <<>>

DoAbsoluteIndexed(op, index, r, mem) ==
  LET base == WordAt(r, mem)
      ea == (base + index) % 65536
  IN  Done(Past(r), Operands(r) \o Fixup(op, base, ea), ea, op, mem)

(* Through a pointer in page 0.  ADC forgets a cycle. *)
IndirectX ==
  [ ORA |-> {\h01}, AND |-> {\h21}, EOR |-> {\h41}, ADC |-> {\h61},
    STA |-> {\h81}, SAX |-> {\h83}, LDA |-> {\hA1}, CMP |-> {\hC1},
    SBC |-> {\hE1} ]

Uncharged(op, done) ==
  IF op = "ADC"
  THEN [done EXCEPT !.bus = Append(Front(@), FreeRead(Last(@).at))] ELSE done

Pointer(at, mem) == Word(mem[at], mem[(at + 1) % 256])

DoIndirectX(op, r, mem) ==
  LET base == mem[r.pc]
      at == (base + r.x) % 256
  IN  Uncharged(op,
        Done([r EXCEPT !.pc = Inc(@)],
             <<Read(r.pc), Read(base), Read(at), Read((at + 1) % 256)>>,
             Pointer(at, mem), op, mem))

(* DCP goes through here only: it samples once more, before its read. *)
IndirectY ==
  [ ORA |-> {\h11}, AND |-> {\h31}, EOR |-> {\h51}, ADC |-> {\h71},
    STA |-> {\h91}, LDA |-> {\hB1}, CMP |-> {\hD1}, DCP |-> {\hD3},
    SBC |-> {\hF1} ]

DoIndirectY(op, r, mem) ==
  LET at == mem[r.pc]
      base == Pointer(at, mem)
      ea == (base + r.y) % 65536
      fixup == IF op = "DCP" THEN Append(Fixup("NOP", base, ea), Sample)
               ELSE Fixup(op, base, ea)
  IN  Uncharged(op,
        Done([r EXCEPT !.pc = Inc(@)],
             <<Read(r.pc), Read(at), Read((at + 1) % 256)>> \o fixup,
             ea, op, mem))

-----------------------------------------------------------------------------
(* Branches sample before each of their reads. *)
Branches ==
  [ BPL |-> {\h10}, BMI |-> {\h30}, BVC |-> {\h50}, BVS |-> {\h70},
    BCC |-> {\h90}, BCS |-> {\hB0}, BNE |-> {\hD0}, BEQ |-> {\hF0} ]

Taken(op, r) ==
  CASE op = "BPL" -> ~r.n [] op = "BMI" -> r.n
    [] op = "BVC" -> ~r.v [] op = "BVS" -> r.v
    [] op = "BCC" -> ~r.c [] op = "BCS" -> r.c
    [] op = "BNE" -> ~r.z [] op = "BEQ" -> r.z

DoBranch_SamplesNothing(op, r, mem) == \* mutant: a branch not taken
  [r |-> [r EXCEPT !.pc = Inc(@)], bus |-> <<Read(r.pc)>>]

DoBranch(op, r, mem) ==
  LET next == [r EXCEPT !.pc = Inc(@)]
      offset == IF mem[r.pc] >= 128 THEN mem[r.pc] - 256 ELSE mem[r.pc]
      target == (next.pc + offset) % 65536
      first == <<Sample, Read(r.pc)>>
      second == <<Sample, Read(next.pc)>>
      third == <<Sample, Read(Uncarried(next.pc, target))>>
  IN  IF ~Taken(op, r) THEN [r |-> next, bus |-> first]
      ELSE [ r |-> [next EXCEPT !.pc = target],
             bus |-> first \o second
                     \o (IF Hi(next.pc) = Hi(target) THEN <<>> ELSE third) ]

(* Calls, jumps and returns.  JMP () takes the high byte of its target from *)
(* the page of the low one.                                                 *)
Jumps ==
  [ JSR |-> {\h20}, RTI |-> {\h40}, JMP |-> {\h4C}, RTS |-> {\h60},
    JMI |-> {\h6C} ]

DoJump(op, r, mem) ==
  LET up(n) == (r.s + n) % 256
      word == WordAt(r, mem)
  IN  CASE op = "JMP" ->
             [ r |-> [r EXCEPT !.pc = word],
               bus |-> <<Read(r.pc), Sample, Read(Inc(r.pc))>> ]
        [] op = "JMI" ->
             LET next == Word(Lo(word + 1), Hi(word))
             IN  [ r |-> [r EXCEPT !.pc = Word(mem[word], mem[next])],
                   bus |-> << Read(r.pc), Read(Inc(r.pc)), Read(word), Sample,
                              Read(next) >> ]
        [] op = "JSR" ->
             [ r |-> [r EXCEPT !.pc = word, !.s = up(254)],
               bus |-> << Read(r.pc), Read(Stack(r.s)),
                          Write(Stack(r.s), Hi(Inc(r.pc))),
                          Write(Stack(up(255)), Lo(Inc(r.pc))),
                          Sample, Read(Inc(r.pc)) >> ]
        [] op = "RTS" ->
             LET back == Word(mem[Stack(up(1))], mem[Stack(up(2))])
             IN  [ r |-> [r EXCEPT !.pc = Inc(back), !.s = up(2)],
                   bus |-> << Read(r.pc), Read(Stack(r.s)),
                              Read(Stack(up(1))), Read(Stack(up(2))),
                              Sample, Read(back) >> ]
        [] op = "RTI" ->
             LET back == Word(mem[Stack(up(2))], mem[Stack(up(3))])
             IN  [ r |-> Pulled([r EXCEPT !.pc = back, !.s = up(3)],
                                mem[Stack(up(1))]),
                   bus |-> << Read(r.pc), Read(Stack(r.s)),
                              Read(Stack(up(1))), Read(Stack(up(2))),
                              Sample, Read(Stack(up(3))) >> ]

(* Any other opcode is skipped with its operand, by its low digit. *)
DoUndefined(code, r) ==
  LET digit == code % 16
      operands == CASE digit \in {\h0, \h2, \h3, \h4, \h7, \h9, \hB} -> 1
                    [] digit \in {\hC, \hE, \hF} -> 2
                    [] OTHER -> 0
  IN  [ r |-> [r EXCEPT !.pc = (@ + operands) % 65536],
        bus |-> (IF operands = 2 THEN <<Charge, Charge>> ELSE <<>>)
                \o <<Charge, Charge, Sample>> ]

-----------------------------------------------------------------------------
(* The switch *)
Indexed == <<AbsoluteIndexedTo5E, AbsoluteIndexedToBD, AbsoluteIndexedFromBE>>

Execute(code, r, mem) ==
  LET as(section) == NameOf(section, code)
      inX == {k \in 1..3 : In(Indexed[k].X, code)}
      inY == {k \in 1..3 : In(Indexed[k].Y, code)}
      table(set) == Indexed[CHOOSE k \in set : TRUE]
  IN  CASE In(Break, code) -> DoBreak(r, mem)
        [] In(StackOps, code) -> DoStack(as(StackOps), r, mem)
        [] In(Implied, code) -> DoImplied(as(Implied), r)
        [] In(Immediate, code) -> DoImmediate(as(Immediate), r, mem)
        [] In(ZeroPage, code) -> DoZeroPage(as(ZeroPage), r, mem)
        [] In(ZeroPageX, code) -> DoZeroPageX(as(ZeroPageX), r, mem)
        [] In(AbsoluteBelow80, code) ->
             DoAbsolute(as(AbsoluteBelow80), r, mem)
        [] In(AbsoluteFrom80, code) -> DoAbsolute(as(AbsoluteFrom80), r, mem)
        [] inX # {} -> DoAbsoluteIndexed(as(table(inX).X), r.x, r, mem)
        [] inY # {} -> DoAbsoluteIndexed(as(table(inY).Y), r.y, r, mem)
        [] In(IndirectX, code) -> DoIndirectX(as(IndirectX), r, mem)
        [] In(IndirectY, code) -> DoIndirectY(as(IndirectY), r, mem)
        [] In(Branches, code) -> DoBranch(as(Branches), r, mem)
        [] In(Jumps, code) -> DoJump(as(Jumps), r, mem)
        [] OTHER -> DoUndefined(code, r)

-----------------------------------------------------------------------------
(* The shape of an instruction, what module Machine knows of it: its bus    *)
(* steps, with pushes apart, and the i flag it leaves.                      *)
Shape(code, r, byte) ==
  LET done == Execute(code, r, [at \in 0..65535 |-> byte])
      kind(step) == IF step.k = "W" /\ step.at \in 256..511 THEN "P" ELSE step.k
  IN  [ masked |-> r.i,
        todo |-> [k \in DOMAIN done.bus |-> kind(done.bus[k])],
        leaves |-> done.r.i ]

(* Registers and memory enough for every shape an instruction can take:     *)
(* flags for the branches, indexes and offsets that cross a page and do not,*)
(* bytes that hold an i flag and do not.                                    *)
Samples ==
  [ a : {0}, x : {0, 255}, y : {0, 255}, s : {255}, pc : {254}, i : BOOLEAN,
    c : BOOLEAN, z : BOOLEAN, d : {FALSE}, v : BOOLEAN, n : BOOLEAN ]

ShapesOf(codes) ==
  { Shape(code, r, byte) : code \in codes, r \in Samples, byte \in {1, 132} }
=============================================================================
