--------------------------------- MODULE Mips ---------------------------------
(***************************************************************************)
(* The simulated processor (machine/mipssim.cc): decoding, arithmetic,     *)
(* branches with their delay slot, delayed loads, memory accesses and      *)
(* exceptions, for words of WordBits bits.  Bytes have WordBits/4 bits and *)
(* immediate operands WordBits/2, as 8 and 16 are to 32.                   *)
(*                                                                         *)
(* A program is a sequence of instructions from address 0 on, apart from   *)
(* the data; any fetch or access may meet a page fault, after which the    *)
(* kernel has the instruction executed again.  PrevPCReg and BadVAddrReg   *)
(* only serve debugging and the kernel and are left out.                   *)
(***************************************************************************)
EXTENDS Integers, Sequences

CONSTANTS
    WordBits,
    RegNums,    \* the registers that programs use; 0, 1 and 2 are among them
    R31,        \* the register calls leave the return address in
    MemSize,    \* bytes of data
    Programs,
    Samples     \* pairs of words that programs start with in registers 1 and 2

ByteBits == WordBits \div 4
HalfBits == WordBits \div 2

Word == 0..(2^WordBits - 1)
Wrap(n) == n % 2^WordBits
Negative(w) == w >= 2^(WordBits - 1)
Signed(w) == IF Negative(w) THEN w - 2^WordBits ELSE w
SignExtend(w, bits) == IF w >= 2^(bits - 1) THEN w + 2^WordBits - 2^bits ELSE w
Sll(w, n) == Wrap(w * 2^n)
Sra(w, n) == Wrap(Signed(w) \div 2^n)
Truth(p) == IF p THEN 1 ELSE 0

\* The bitwise operators of C, from their bits in common.
And(x, y) ==
    LET common[n \in 0..WordBits] ==
            IF n = 0 THEN 0
            ELSE common[n - 1] + 2^(n - 1) * ((x \div 2^(n - 1)) % 2) * ((y \div 2^(n - 1)) % 2)
    IN  common[WordBits]
Or(x, y) == x + y - And(x, y)
Xor(x, y) == x + y - 2 * And(x, y)

VARIABLES
    program,    \* the program that runs
    cpu,        \* registers and memory
    ideal,      \* history: a processor without delayed loads and page faults
    loadUse,    \* history: the instruction after a load used its register
    status      \* "running", "exited" after an exception, or "aborted"

vars == <<program, cpu, ideal, loadUse, status>>

-----------------------------------------------------------------------------
(* Instruction::Decode                                                     *)

\* opTable: the instructions with an immediate operand, and the jumps; the
\* others have a shift amount.
Jumps == {"J", "JAL"}
Branches == {"BEQ", "BNE", "BLEZ", "BGTZ", "BLTZ", "BGEZ", "BLTZAL", "BGEZAL"}
Loads == {"LB", "LBU", "LH", "LHU", "LW", "LWL", "LWR"}
Stores == {"SB", "SH", "SW", "SWL", "SWR"}
Immediates == {"ADDI", "ADDIU", "SLTI", "SLTIU", "ANDI", "ORI", "XORI", "LUI"}

\* instr->extra
Extra(i) ==
    IF i.op \in Branches \cup Loads \cup Stores \cup Immediates
    THEN SignExtend(i.field, HalfBits) ELSE i.field

\* The register an arithmetic instruction sets.
Dest(i) == IF i.op \in Immediates THEN i.rt ELSE i.rd

-----------------------------------------------------------------------------
(* Arithmetic                                                              *)

Ops == {"ADDU", "SUBU", "AND", "OR", "XOR", "NOR", "SLT", "SLTU", "SLL", "SRL", "SRA",
        "SLLV", "SRLV", "SRAV", "ADDIU", "SLTI", "SLTIU", "ANDI", "ORI", "XORI", "LUI"}

Result(op, rs, rt, x) ==
    LET low == x % 2^HalfBits      \* extra & 0xffff
        amount == rs % WordBits    \* registers[instr->rs] & 0x1f
    IN  CASE op \in {"ADDU", "ADD"} -> Wrap(rs + rt)
          [] op \in {"ADDIU", "ADDI"} -> Wrap(rs + x)
          [] op \in {"SUBU", "SUB"} -> Wrap(rs - rt)
          [] op = "AND" -> And(rs, rt)
          [] op = "OR" -> Or(rs, rs)
          [] op = "XOR" -> Xor(rs, rt)
          [] op = "NOR" -> (2^WordBits - 1) - Or(rs, rt)
          [] op = "ANDI" -> And(rs, low)
          [] op = "ORI" -> Or(rs, low)
          [] op = "XORI" -> Xor(rs, low)
          [] op = "LUI" -> Sll(x, HalfBits)
          [] op = "SLT" -> Truth(Signed(rs) < Signed(rt))
          [] op = "SLTI" -> Truth(Signed(rs) < Signed(x))
          [] op = "SLTU" -> Truth(rs < rt)
          [] op = "SLTIU" -> Truth(rs < x)
          [] op = "SLL" -> Sll(rt, x)
          [] op = "SLLV" -> Sll(rt, amount)
          [] op \in {"SRA", "SRL"} -> Sra(rt, x)
          [] op \in {"SRAV", "SRLV"} -> Sra(rt, amount)

\* The tests of ADD, ADDI and SUB, on the signs of operands and result.
Overflow(op, rs, rt, x) ==
    LET b == IF op = "ADDI" THEN x ELSE rt
        differ == Negative(rs) # Negative(b)
    IN  /\ differ = (op = "SUB")
        /\ Negative(rs) # Negative(Result(op, rs, b, x))

\* One iteration of the loop of Mult; a is shifted as an int.
MultStep(s) ==
    LET odd == s.a % 2 = 1
        lo == IF odd THEN Wrap(s.lo + s.bLo) ELSE s.lo
        hi == IF odd THEN Wrap(s.hi + s.bHi + Truth(lo < s.bLo)) ELSE s.hi
    IN  [a |-> Sra(s.a, 1), bHi |-> Wrap(2 * s.bHi + Truth(Negative(s.bLo))),
         bLo |-> Wrap(2 * s.bLo), hi |-> hi, lo |-> lo]

\* The whole loop.  It breaks when no bit of a is left: then nothing is added.
MultLoop(a, b) ==
    LET before[i \in 0..WordBits] ==
            IF i = 0 THEN [a |-> a, bHi |-> 0, bLo |-> b, hi |-> 0, lo |-> 0]
            ELSE MultStep(before[i - 1])
    IN  [hi |-> before[WordBits].hi, lo |-> before[WordBits].lo]

\* Mutant: the carry of the negation is lost.
NegatedNoCarry(p) == [hi |-> Wrap(-p.hi - 1), lo |-> Wrap(-p.lo)]

\* Two's complement of a double word.
Negated(p) == [hi |-> Wrap(-p.hi - 1 + Truth(p.lo = 0)), lo |-> Wrap(-p.lo)]

Mult(a, b, signedArith) ==
    LET neg(w) == signedArith /\ Negative(w)
        abs(w) == IF neg(w) THEN Wrap(-w) ELSE w
        product == MultLoop(abs(a), abs(b))
    IN  IF a = 0 \/ b = 0 THEN [hi |-> 0, lo |-> 0]
        ELSE IF neg(a) # neg(b) THEN Negated(product) ELSE product

\* C's division rounds towards zero.
Quotient(a, b) ==
    LET abs(n) == IF n < 0 THEN -n ELSE n
    IN  IF (a < 0) = (b < 0) THEN abs(a) \div abs(b) ELSE -(abs(a) \div abs(b))

Divide(a, b) ==
    IF b = 0 THEN [hi |-> 0, lo |-> 0]
    ELSE [hi |-> Wrap(a - b * Quotient(a, b)), lo |-> Wrap(Quotient(a, b))]

\* The host's division of the least int by -1 stops Nachos.
DivisionTraps(op, rs, rt) ==
    op = "DIV" /\ Signed(rs) = -(2^(WordBits - 1)) /\ Signed(rt) = -1

HiLo(op, rs, rt) ==
    CASE op = "MULT" -> Mult(rs, rt, TRUE)
      [] op = "MULTU" -> Mult(rs, rt, FALSE)
      [] op = "DIV" -> Divide(Signed(rs), Signed(rt))
      [] op = "DIVU" -> Divide(rs, rt)

-----------------------------------------------------------------------------
(* Memory (Machine::ReadMem and WriteMem, Translate's checks)              *)

Legal(address, size) == address % size = 0 /\ address + size <= MemSize

\* Little-endian, as the host is.
ReadMem(mem, address, size) ==
    LET first[n \in 0..size] ==
            IF n = 0 THEN 0
            ELSE first[n - 1] + mem[address + n - 1] * 2^(ByteBits * (n - 1))
    IN  first[size]

WriteMem(mem, address, size, w) ==
    [a \in DOMAIN mem |-> IF a \in address..(address + size - 1)
                          THEN (w \div 2^(ByteBits * (a - address))) % 2^ByteBits
                          ELSE mem[a]]

Size(op) ==
    CASE op \in {"LB", "LBU", "SB"} -> 1
      [] op \in {"LH", "LHU", "SH"} -> 2
      [] OTHER -> 4

\* LWL, LWR, SWL and SWR assert that the address is aligned.
Asserts(op, address) == op \in {"LWL", "LWR", "SWL", "SWR"} /\ address % 4 # 0

\* What LWL and LWR take for the old contents of the register.
Current(c, reg) == IF c.loadReg = reg THEN c.loadValue ELSE c.r[reg]

\* The value a load brings (nextLoadValue); for LWL and LWR, case 0.
Loaded(c, i, address) ==
    LET value == ReadMem(c.mem, address, Size(i.op))
        old == Current(c, i.rt)
    IN  CASE i.op = "LB" -> SignExtend(value, ByteBits)
          [] i.op = "LH" -> SignExtend(value, HalfBits)
          [] i.op = "LWR" -> (old - (old % 2^ByteBits)) + value \div 2^(3 * ByteBits)
          [] OTHER -> value

\* The word a store writes; for SWL and SWR, case 0.
Stored(c, i, address) ==
    LET rt == c.r[i.rt]
    IN  IF i.op = "SWR"
        THEN (ReadMem(c.mem, address, 4) % 2^(3 * ByteBits)) + Sll(rt, 3 * ByteBits)
        ELSE rt

-----------------------------------------------------------------------------
(* Machine::OneInstruction                                                 *)

\* Machine::DelayedLoad
DelayedLoad(c, reg, value) ==
    [c EXCEPT !.r = [[@ EXCEPT ![c.loadReg] = c.loadValue] EXCEPT ![0] = 0],
              !.loadReg = reg, !.loadValue = value]

\* The end of OneInstruction, with the next delayed load.
FinishLoad(c, pcAfter, reg, value) ==
    [status |-> "running",
     cpu |-> [DelayedLoad(c, reg, value) EXCEPT !.pc = c.next, !.next = pcAfter]]

Finish(c, pcAfter) == FinishLoad(c, pcAfter, 0, 0)

\* RaiseException, and the kernel ends the process.
Exception(c) == [status |-> "exited", cpu |-> DelayedLoad(c, 0, 0)]

Abort(c) == [status |-> "aborted", cpu |-> c]

Set(c, reg, value) == [c EXCEPT !.r[reg] = value]

\* The return address of the instructions that link.
Link(c, i) ==
    CASE i.op \in {"JAL", "BLTZAL", "BGEZAL"} -> Set(c, R31, Wrap(c.next + 4))
      [] i.op = "JALR" -> Set(c, i.rd, Wrap(c.next + 4))
      [] OTHER -> c

Taken(op, rs, rt) ==
    CASE op = "BEQ" -> rs = rt
      [] op = "BNE" -> rs # rt
      [] op = "BLEZ" -> Signed(rs) <= 0
      [] op = "BGTZ" -> Signed(rs) > 0
      [] op \in {"BLTZ", "BLTZAL"} -> Negative(rs)
      [] op \in {"BGEZ", "BGEZAL"} -> ~Negative(rs)

\* Where a branch or jump goes after its delay slot; the link register has
\* been set already.
Target(c, i) ==
    LET after == Wrap(c.next + 4)
        region == 2^WordBits \div 16    \* jumps stay within 2^28 bytes
    IN  CASE i.op \in {"JR", "JALR"} -> c.r[i.rs]
          [] i.op \in Jumps -> (after - (after % region)) + 4 * Extra(i)
          [] OTHER -> IF Taken(i.op, c.r[i.rs], c.r[i.rt])
                      THEN Wrap(c.next + 4 * Extra(i)) ELSE after

\* A load or store; the access comes before any register is set.
Access(c, i) ==
    LET address == Wrap(c.r[i.rs] + Extra(i))
        after == Wrap(c.next + 4)
    IN  CASE Asserts(i.op, address) -> Abort(c)
          [] ~Asserts(i.op, address) /\ ~Legal(address, Size(i.op)) -> Exception(c)
          [] OTHER ->
               IF i.op \in Loads
               THEN FinishLoad(c, after, i.rt, Loaded(c, i, address))
               ELSE Finish([c EXCEPT !.mem = WriteMem(@, address, Size(i.op), Stored(c, i, address))],
                           after)

\* Moves from and to the multiplier, and what it computes.
Multiplier(c, i) ==
    LET rs == c.r[i.rs]
        after == Wrap(c.next + 4)
    IN  CASE i.op = "MFHI" -> Finish(Set(c, i.rd, c.hi), after)
          [] i.op = "MFLO" -> Finish(Set(c, i.rd, c.lo), after)
          [] i.op = "MTHI" -> Finish([c EXCEPT !.hi = rs], after)
          [] i.op = "MTLO" -> Finish([c EXCEPT !.lo = rs], after)
          [] OTHER -> LET p == HiLo(i.op, rs, c.r[i.rt])
                      IN  IF DivisionTraps(i.op, rs, c.r[i.rt]) THEN Abort(c)
                          ELSE Finish([c EXCEPT !.hi = p.hi, !.lo = p.lo], after)

\* One instruction; any other op is reserved or unimplemented.  The kernel
\* advances the program counters at a system call (ExceptionHandler).
Execute(c, i) ==
    LET rs == c.r[i.rs]
        rt == c.r[i.rt]
        after == Wrap(c.next + 4)
    IN  CASE i.op \in Ops -> Finish(Set(c, Dest(i), Result(i.op, rs, rt, Extra(i))), after)
          [] i.op \in {"ADD", "ADDI", "SUB"} ->
               IF Overflow(i.op, rs, rt, Extra(i)) THEN Exception(c)
               ELSE Finish(Set(c, Dest(i), Result(i.op, rs, rt, Extra(i))), after)
          [] i.op \in Branches \cup Jumps \cup {"JR", "JALR"} ->
               Finish(Link(c, i), Target(Link(c, i), i))
          [] i.op \in Loads \cup Stores -> Access(c, i)
          [] i.op \in {"MFHI", "MFLO", "MTHI", "MTLO", "MULT", "MULTU", "DIV", "DIVU"} ->
               Multiplier(c, i)
          [] i.op = "SYSCALL" -> Finish(c, after)
          [] OTHER -> Exception(c)

-----------------------------------------------------------------------------
\* Mutant: an exception drops the load under way.
RaiseExceptionDrops(c) == [c EXCEPT !.loadReg = 0, !.loadValue = 0]

\* Machine::RaiseException, as far as the processor is concerned.
RaiseException(c) == DelayedLoad(c, 0, 0)

\* A processor whose loads take effect at once.
Ideal(c, i) == DelayedLoad(Execute(c, i).cpu, 0, 0)

\* The registers an instruction reads or sets before a load under way has come
\* in; LWL and LWR look at that load themselves.
Touches(i) ==
    CASE i.op \in Loads -> {i.rs}
      [] i.op \in Stores \cup Immediates -> {i.rs, i.rt}
      [] i.op \in Branches \cup {"JAL"} -> {i.rs, i.rt, R31}
      [] i.op \in {"J", "SYSCALL"} -> {}
      [] OTHER -> {i.rs, i.rt, i.rd}

Registers(a, b) == [p \in RegNums |-> CASE p = 1 -> a [] p = 2 -> b [] OTHER -> 0]

InitialCpu(r, mem) ==
    [r |-> r, hi |-> 0, lo |-> 0, pc |-> 0, next |-> 4, loadReg |-> 0, loadValue |-> 0, mem |-> mem]

\* Some contents, different for neighbouring bytes.
InitialMem == [a \in 0..(MemSize - 1) |-> (3 * a + a \div 4) % 2^ByteBits]

Init ==
    /\ \/ \E s \in Samples : program \in Programs /\ cpu = InitialCpu(Registers(s[1], s[2]), InitialMem)
       \/ \E a \in Word : program = <<>> /\ cpu = InitialCpu(Registers(a, 0), InitialMem)
    /\ ideal = cpu
    /\ loadUse = FALSE
    /\ status = "running"

Fetchable == cpu.pc % 4 = 0 /\ cpu.pc \div 4 < Len(program)

Instr == program[cpu.pc \div 4 + 1]

OneInstruction ==
    /\ status = "running"
    /\ Fetchable
    /\ LET o == Execute(cpu, Instr)
       IN  cpu' = o.cpu /\ status' = o.status
    /\ ideal' = Ideal(ideal, Instr)
    /\ loadUse' = (loadUse \/ cpu.loadReg \in Touches(Instr) \ {0})
    /\ UNCHANGED program

\* The fetch, or the access of a load or store, meets a page that is not in
\* memory: nothing has been changed yet, and the kernel returns.
PageFault ==
    /\ status = "running"
    /\ cpu' = RaiseException(cpu)
    /\ UNCHANGED <<program, ideal, loadUse, status>>

\* An address outside the program.
FetchError ==
    /\ status = "running"
    /\ ~Fetchable
    /\ cpu' = RaiseException(cpu)
    /\ status' = "exited"
    /\ UNCHANGED <<program, ideal, loadUse>>

Stopped == status # "running" /\ UNCHANGED vars

Next == OneInstruction \/ PageFault \/ FetchError \/ Stopped

Spec == Init /\ [][Next]_vars

-----------------------------------------------------------------------------
(* Properties                                                              *)

TypeOK ==
    /\ cpu.r \in [RegNums -> Word] /\ cpu.r[0] = 0
    /\ {cpu.hi, cpu.lo, cpu.pc, cpu.next, cpu.loadValue} \subseteq Word
    /\ cpu.loadReg \in RegNums
    /\ \A a \in DOMAIN cpu.mem : cpu.mem[a] \in 0..(2^ByteBits - 1)
    /\ loadUse \in BOOLEAN
    /\ status \in {"running", "exited", "aborted"}

\* Delayed loads and page faults cannot be seen by a program that leaves the
\* register of a load alone in the next instruction: registers, memory and
\* the place of execution are those of a processor without either, whatever
\* branch, system call or second load comes in between (DelayedLoad,
\* RaiseException, the early returns of OneInstruction).
DelayInvisible == status = "running" /\ ~loadUse => DelayedLoad(cpu, 0, 0) = ideal

\* A behaviour without a program only has an operand, to be combined with all
\* others.
Others == IF program = <<>> /\ status = "running" THEN Word ELSE {}
A == cpu.r[1]

\* Multiplication and division give the exact double-length product, and
\* quotient and remainder, for signed and unsigned operands (Mult, OP_DIV).
MultiplierRight ==
    \A B \in Others :
    LET Double(p) == p.hi * 2^WordBits + p.lo
    IN  /\ Double(HiLo("MULTU", A, B)) = A * B
        /\ Double(HiLo("MULT", A, B)) = (Signed(A) * Signed(B)) % 2^(2 * WordBits)
        /\ B # 0 => LET q == HiLo("DIVU", A, B)
                    IN  q.lo * B + q.hi = A /\ q.hi < B
        /\ B # 0 /\ ~DivisionTraps("DIV", A, B) =>
               LET q == HiLo("DIV", A, B)
               IN  /\ Signed(q.lo) * Signed(B) + Signed(q.hi) = Signed(A)
                   /\ q.hi = 0 \/ Negative(q.hi) = Negative(A)

\* ADD, ADDI and SUB raise an overflow exception exactly when the result does
\* not fit a word.
OverflowExact ==
    \A B \in Others :
    LET Fits(n) == n \in -(2^(WordBits - 1))..(2^(WordBits - 1) - 1)
    IN  /\ Overflow("ADD", A, B, 0) = ~Fits(Signed(A) + Signed(B))
        /\ Overflow("ADDI", A, 0, B) = ~Fits(Signed(A) + Signed(B))
        /\ Overflow("SUB", A, B, 0) = ~Fits(Signed(A) - Signed(B))

=============================================================================
