------------------------------ MODULE Simulator ------------------------------
(***************************************************************************)
(* The stand-alone MIPS interpreter (bin/execute.c), run in step with the  *)
(* processor of Nachos (module Mips) on the same program.  The two were    *)
(* written apart; a program should not see which of them runs it.          *)
(*                                                                         *)
(* Addresses are counted from memoffset.  The build's int arithmetic       *)
(* wraps.  What the host leaves undefined (a shift by a word or more, a    *)
(* division by zero, an address outside mem) is followed no further, and   *)
(* neither are system calls, which are the host's.                         *)
(***************************************************************************)
EXTENDS Mips

VARIABLES
    sim,    \* Reg, HI, LO, pc, npc, mem and whether runprogram goes on
    same    \* history: no instruction on which the interpreters differ has run

simVars == <<sim, same>>

\* immed(i); shamt(i) is the field itself.
immed(i) == SignExtend(i.field, HalfBits)

SetReg(s, reg, value) == [s EXCEPT !.Reg[reg] = value]

-----------------------------------------------------------------------------
(* I_SPECIAL                                                               *)

ShiftOps == {"SLL", "SRL", "SRA", "SLLV", "SRLV", "SRAV"}

Shift(op, rs, rt, shamt) ==
    CASE op = "SLL" -> Sll(rt, shamt)
      [] op = "SRL" -> rt \div 2^shamt
      [] op = "SRA" -> Sra(rt, shamt)
      [] op = "SLLV" -> Sll(rt, rs)
      [] op = "SRLV" -> rt \div 2^rs
      [] op = "SRAV" -> Sra(rt, rs)

\* I_JR and I_JALR: the target is read before the link is written.
JumpRegister(s, i, xpc) ==
    LET t == [s EXCEPT !.npc = s.Reg[i.rs]]
    IN  IF i.op = "JALR" THEN SetReg(t, i.rd, Wrap(xpc + 8)) ELSE t

MoveHiLo(s, i) ==
    CASE i.op = "MFHI" -> SetReg(s, i.rd, s.HI)
      [] i.op = "MFLO" -> SetReg(s, i.rd, s.LO)
      [] i.op = "MTHI" -> [s EXCEPT !.HI = s.Reg[i.rs]]
      [] i.op = "MTLO" -> [s EXCEPT !.LO = s.Reg[i.rs]]

\* The high word from the products of half words, each an int shifted as one:
\* what the lower halves carry is lost.
HighWord(t1, t2) ==
    LET h(t) == t \div 2^HalfBits
        l(t) == t % 2^HalfBits
        middle(p) == Sra(Wrap(p), HalfBits)
    IN  Wrap(h(t1) * h(t2) + middle(h(t1) * l(t2)) + middle(h(t2) * l(t1)))

Abs(w) == IF Negative(w) THEN Wrap(-w) ELSE w

MULT(rs, rt) ==
    LET p == [hi |-> HighWord(Abs(rs), Abs(rt)), lo |-> Wrap(Abs(rs) * Abs(rt))]
    IN  IF Negative(rs) # Negative(rt) THEN Negated(p) ELSE p

MULTU(rs, rt) == [hi |-> HighWord(rs, rt), lo |-> Wrap(rs * rt)]

\* I_DIV and I_DIVU
DIV(rs, rt) == [lo |-> Wrap(Quotient(rs, rt)), hi |-> Wrap(rs - rt * Quotient(rs, rt))]

Computed(op, rs, rt) ==
    CASE op = "MULT" -> MULT(rs, rt)
      [] op = "MULTU" -> MULTU(rs, rt)
      [] op = "DIV" -> DIV(Signed(rs), Signed(rt))
      [] op = "DIVU" -> DIV(rs, rt)

ArithOps == {"ADD", "ADDU", "SUB", "SUBU", "AND", "OR", "XOR", "NOR", "SLT", "SLTU"}

Arith(op, rs, rt) ==
    CASE op \in {"ADD", "ADDU"} -> Wrap(rs + rt)
      [] op \in {"SUB", "SUBU"} -> Wrap(rs - rt)
      [] op = "AND" -> And(rs, rt)
      [] op = "OR" -> Or(rs, rt)
      [] op = "XOR" -> Xor(rs, rt)
      [] op = "NOR" -> (2^WordBits - 1) - Or(rs, rt)
      [] op = "SLT" -> Truth(Signed(rs) < Signed(rt))
      [] op = "SLTU" -> Truth(rs < rt)

-----------------------------------------------------------------------------
(* The other opcodes                                                       *)

Branch(s, i, xpc, taken) ==
    IF taken THEN [s EXCEPT !.npc = Wrap(xpc + 4 + 4 * immed(i))] ELSE s

\* I_BCOND: the link is written before the register is tested.
Bcond(s, i, xpc) ==
    LET t == IF i.op \in {"BLTZAL", "BGEZAL"} THEN SetReg(s, R31, Wrap(xpc + 8)) ELSE s
        negative == Negative(t.Reg[i.rs])
    IN  Branch(t, i, xpc, negative = (i.op \in {"BLTZ", "BLTZAL"}))

\* I_J and I_JAL
Jump(s, i, xpc) ==
    LET region == 2^WordBits \div 16
        t == [s EXCEPT !.npc = (xpc - (xpc % region)) + 4 * i.field]
    IN  IF i.op = "JAL" THEN SetReg(t, R31, Wrap(xpc + 8)) ELSE t

Compare(s, i, xpc) ==
    LET rs == s.Reg[i.rs]
        rt == s.Reg[i.rt]
    IN  Branch(s, i, xpc, CASE i.op = "BEQ" -> rs = rt
                            [] i.op = "BNE" -> rs # rt
                            [] i.op = "BLEZ" -> Signed(rs) <= 0
                            [] i.op = "BGTZ" -> Signed(rs) > 0)

\* The logical operations take the sign-extended operand too.
ImmediateResult(i, rs) ==
    LET x == immed(i)
    IN  CASE i.op \in {"ADDI", "ADDIU"} -> Wrap(rs + x)
          [] i.op = "SLTI" -> Truth(Signed(rs) < Signed(x))
          [] i.op = "SLTIU" -> Truth(rs < x)
          [] i.op = "ANDI" -> And(rs, x)
          [] i.op = "ORI" -> Or(rs, x)
          [] i.op = "XORI" -> Xor(rs, x)
          [] i.op = "LUI" -> Sll(i.field, HalfBits)

\* The loads.  LWL means to clear bytes, but -1 >> n is -1.
Fetched(s, i, address) ==
    LET word == ReadMem(s.mem, address - (address % 4), 4)
        old == s.Reg[i.rt]
        here == ByteBits * (address % 4)
        back == ByteBits * ((-address) % 4)
    IN  CASE i.op = "LB" -> SignExtend(ReadMem(s.mem, address, 1), ByteBits)
          [] i.op = "LBU" -> ReadMem(s.mem, address, 1)
          [] i.op = "LH" -> SignExtend(ReadMem(s.mem, address, 2), HalfBits)
          [] i.op = "LHU" -> ReadMem(s.mem, address, 2)
          [] i.op = "LW" -> ReadMem(s.mem, address, 4)
          [] i.op = "LWL" -> Or(old, Sll(word, here))
          [] i.op = "LWR" -> Or(IF here = 0 THEN 0 ELSE old - (old % 2^here), Sra(word, back))

-----------------------------------------------------------------------------
\* What the host makes of these is not defined.
Undefined(s, i) ==
    LET rs == s.Reg[i.rs]
        rt == s.Reg[i.rt]
        address == Wrap(rs + immed(i))
        past == IF i.op \in {"LWL", "LWR"} THEN address - (address % 4) + 4
                                          ELSE address + Size(i.op)
    IN  \/ i.op \in {"SLLV", "SRLV", "SRAV"} /\ rs >= WordBits
        \/ i.op \in {"DIV", "DIVU"} /\ rt = 0
        \/ DivisionTraps(i.op, rs, rt)
        \/ i.op \in Loads \cup {"SB", "SH", "SW"} /\ past > MemSize

Stop(s) == [s EXCEPT !.running = FALSE]

\* One turn of the loop of runprogram.  SWL, SWR, coprocessors and unknown
\* opcodes end it.
Turn(s, i) ==
    LET xpc == s.pc
        t == [s EXCEPT !.pc = s.npc, !.npc = Wrap(s.npc + 4), !.Reg[0] = 0]
        rs == t.Reg[i.rs]
        rt == t.Reg[i.rt]
        address == Wrap(rs + immed(i))
    IN  CASE Undefined(t, i) -> Stop(t)
          [] ~Undefined(t, i) /\ i.op \in ShiftOps -> SetReg(t, i.rd, Shift(i.op, rs, rt, i.field))
          [] i.op \in {"JR", "JALR"} -> JumpRegister(t, i, xpc)
          [] i.op \in {"MFHI", "MFLO", "MTHI", "MTLO"} -> MoveHiLo(t, i)
          [] ~Undefined(t, i) /\ i.op \in {"MULT", "MULTU", "DIV", "DIVU"} ->
               LET p == Computed(i.op, rs, rt) IN [t EXCEPT !.HI = p.hi, !.LO = p.lo]
          [] i.op \in ArithOps -> SetReg(t, i.rd, Arith(i.op, rs, rt))
          [] i.op \in {"BLTZ", "BGEZ", "BLTZAL", "BGEZAL"} -> Bcond(t, i, xpc)
          [] i.op \in Jumps -> Jump(t, i, xpc)
          [] i.op \in {"BEQ", "BNE", "BLEZ", "BGTZ"} -> Compare(t, i, xpc)
          [] i.op \in Immediates -> SetReg(t, i.rt, ImmediateResult(i, rs))
          [] ~Undefined(t, i) /\ i.op \in Loads -> SetReg(t, i.rt, Fetched(t, i, address))
          [] ~Undefined(t, i) /\ i.op \in {"SB", "SH", "SW"} ->
               [t EXCEPT !.mem = WriteMem(@, address, Size(i.op), rt)]
          [] OTHER -> Stop(t)

\* What the high word of a product misses: a carry out of the lower halves of
\* the four products, or the sign of one in the middle that no int can hold.
ProductLost(t1, t2) ==
    LET h(t) == t \div 2^HalfBits
        l(t) == t % 2^HalfBits
        m1 == h(t1) * l(t2)
        m2 == h(t2) * l(t1)
    IN  \/ l(t1) * l(t2) + 2^HalfBits * (l(m1) + l(m2)) >= 2^WordBits
        \/ Negative(m1) \/ Negative(m2)

\* The operands for which the interpreters compute something different.  The OR
\* of mipssim.cc takes rs twice and its SRL and SRLV bring in the sign; the high
\* word of execute.c's MULT and MULTU is not exact.
OperandsDiffer(op, rs, rt, shamt) ==
    CASE op = "OR" -> Or(rs, rt) # rs
      [] op = "SRL" -> Negative(rt) /\ shamt # 0
      [] op = "SRLV" -> Negative(rt) /\ rs # 0
      [] op = "MULT" -> ProductLost(Abs(rs), Abs(rt))
      [] op = "MULTU" -> ProductLost(rs, rt)
      [] OTHER -> FALSE

\* The instructions the interpreters treat differently, in a given state: those
\* operands; partial words; ANDI, ORI and XORI with an operand that execute.c
\* extends with its sign and mipssim.cc does not; an overflow (an exception in
\* Nachos); a call through the register that it links; a relative branch or a
\* call in a delay slot; a jump across a region; and an address that is not
\* aligned.
Differs(s, i) ==
    LET rs == s.Reg[i.rs]
        address == Wrap(rs + immed(i))
        region == 2^WordBits \div 16
    IN  \/ OperandsDiffer(i.op, rs, s.Reg[i.rt], i.field)
        \/ i.op \in {"LWL", "LWR"}
        \/ i.op \in {"ANDI", "ORI", "XORI"} /\ Negative(immed(i))
        \/ i.op \in {"ADD", "ADDI", "SUB"} /\ Overflow(i.op, rs, s.Reg[i.rt], immed(i))
        \/ i.op = "JALR" /\ i.rd = i.rs
        \/ i.op \in Branches \cup {"JAL", "JALR"} /\ s.npc # Wrap(s.pc + 4)
        \/ i.op \in Jumps /\ s.pc \div region # Wrap(s.npc + 4) \div region
        \/ i.op \in Loads \cup Stores /\ address % Size(i.op) # 0

SimInit ==
    /\ Init
    /\ sim = [Reg |-> cpu.r, HI |-> 0, LO |-> 0, pc |-> 0, npc |-> 4, mem |-> cpu.mem,
              running |-> TRUE]
    /\ same = TRUE

\* The processor of Nachos takes a step; the interpreter follows it as long as
\* the two are comparable.
SimNext ==
    \/ /\ OneInstruction
       /\ IF same /\ sim.running
          THEN sim' = Turn(sim, Instr) /\ same' = ~Differs(sim, Instr)
          ELSE UNCHANGED simVars
    \/ (PageFault \/ FetchError \/ Stopped) /\ UNCHANGED simVars

SimSpec == SimInit /\ [][SimNext]_<<vars, simVars>>

-----------------------------------------------------------------------------
(* Properties                                                              *)

\* Both interpreters bring a program to the same place with the same registers
\* and memory, through delay slots, links and loads, as long as it
\* meets no instruction that they are known to treat differently (runprogram
\* against OneInstruction).
InStep ==
    same /\ sim.running /\ status = "running" =>
        /\ \A r \in RegNums \ {0} : sim.Reg[r] = ideal.r[r]
        /\ sim.HI = ideal.hi /\ sim.LO = ideal.lo
        /\ sim.mem = ideal.mem
        /\ sim.pc = ideal.pc /\ sim.npc = ideal.next

\* For all operands the two compute the same, except for the operands that
\* OperandsDiffer names, and for those they do not: in OR, SRL and SRLV the
\* processor of Nachos is wrong, in the high word of a product the interpreter.
\* The low word of a product is always right (runprogram against OneInstruction).
SameArithmetic ==
    \A B \in Others :
        /\ \A op \in ArithOps : (Arith(op, A, B) = Result(op, A, B, 0)) = ~OperandsDiffer(op, A, B, 0)
        /\ A < WordBits =>
               \A op \in ShiftOps : (Shift(op, A, B, A) = Result(op, A, B, A)) = ~OperandsDiffer(op, A, B, A)
        /\ \A op \in {"MULT", "MULTU"} :
               /\ (Computed(op, A, B) = HiLo(op, A, B)) = ~OperandsDiffer(op, A, B, 0)
               /\ Computed(op, A, B).lo = HiLo(op, A, B).lo
        /\ B # 0 => Computed("DIVU", A, B) = HiLo("DIVU", A, B)
        /\ B # 0 /\ ~DivisionTraps("DIV", A, B) => Computed("DIV", A, B) = HiLo("DIV", A, B)

\* mipssim.cc says that it simulates "a MIPS R2/3000 processor" and of Mult that
\* it gives "the double-length result of the multiplication"; execute.c runs the
\* same programs.  They give every instruction the same meaning.
InterpretersAgree ==
    \A B \in Others :
        /\ \A op \in ArithOps : Arith(op, A, B) = Result(op, A, B, 0)
        /\ A < WordBits => \A op \in ShiftOps : Shift(op, A, B, A) = Result(op, A, B, A)
        /\ \A op \in {"MULT", "MULTU"} : Computed(op, A, B) = HiLo(op, A, B)

=============================================================================
