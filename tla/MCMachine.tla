------------------------------ MODULE MCMachine ------------------------------
(***************************************************************************)
(* Memory, processor and disk, checked in one run: each behaviour is one   *)
(* of demand paging, of the disk, of the simulated processor, of the       *)
(* host's processor switching threads, of the tools that make a program    *)
(* and load it, or of the system calls that copy to and from user memory.  *)
(***************************************************************************)
EXTENDS Paging, Sequences, TLC

CONSTANTS
    p1, p2, p3,
    SectorsPerTrack, NumTracks, RotationTime, SeekTime, MaxLate, MaxTime,
    WordBits, RegNums, R31, MemSize, Programs, Samples,
    Threads, MainThread, Unset, StackTop, Depths, t1, t2, t3,
    Coffs, Zero, Junk, PageSize, UserStackSize, HeaderSize, StackMargin,
    MemBytes, BytesPerPage, Memories, Inputs

VARIABLES
    part,
    totalTicks, lastSector, bufferInit, active, request,
    program, cpu, ideal, loadUse, status, sim, same,
    host, running, where, pc, regs, object, words, eax_save, root, frame, forked, kept, calls,
    tool, order, coff, stage, i, noffH, written, exists, memory, sp,
    mem, resident, call, num, buffer, input, output, before, returned

D == INSTANCE Disk
P == INSTANCE Simulator
H == INSTANCE ContextSwitch
X == INSTANCE Executables
U == INSTANCE UserIO

diskVars == <<totalTicks, lastSector, bufferInit, active, request>>
cpuVars == <<program, cpu, ideal, loadUse, status, sim, same>>
hostVars == <<host, running, where, pc, regs, object, words, eax_save, root, frame, forked,
              kept, calls>>
loadVars == <<tool, order, coff, stage, i, noffH, written, exists, memory, sp>>
ioVars == <<mem, resident, call, num, buffer, input, output, before, returned>>

-----------------------------------------------------------------------------
(* Values of the constants                                                 *)

\* A main program of one page that starts programs of two pages.
SmallPrograms == p1 :> 1 @@ p2 :> 2 @@ p3 :> 2

I(op, rs, rt, rd, field) == [op |-> op, rs |-> rs, rt |-> rt, rd |-> rd, field |-> field]

\* The instructions of the programs: loads, a store, arithmetic, a branch, a
\* jump, two calls, a return and a system call.
Core == {
    I("LW", 0, 1, 0, 0), I("LB", 2, 1, 0, 1), I("LWR", 0, 1, 0, 4), I("SW", 0, 1, 0, 4),
    I("ADDU", 1, 2, 2, 0), I("ADDI", 2, 1, 0, 15), I("BNE", 1, 2, 0, 1), I("J", 0, 0, 0, 2),
    I("BGEZAL", 1, 0, 0, 1), I("JR", 3, 0, 0, 0), I("JALR", 2, 0, 0, 0), I("SYSCALL", 0, 0, 0, 0)}

\* All programs of three of these.  The empty program has all operands.
MCPrograms == {<<a, b, c>> : a \in Core, b \in Core, c \in Core}
MCSamples == {0, 192} \X {4, 127}

\* The main thread calls SWITCH from two depths of its stack.
MCDepths == [t \in Threads |-> IF t = MainThread THEN {3, 4} ELSE {3}]

\* Five sections in the order of the linker, some of them empty, perhaps with a
\* gap before the last, perhaps in a file that was cut short; and a section
\* that is none of the five, with right or wrong magic numbers.
SectionNames == <<".text", ".rdata", ".data", ".sbss", ".bss">>

Sections(sizes, gap, cut) ==
    LET start[k \in 1..5] == IF k = 1 THEN 0 ELSE start[k - 1] + sizes[k - 1]
    IN  [k \in 1..5 |->
            [name |-> SectionNames[k], size |-> sizes[k],
             paddr |-> IF k = 5 THEN start[k] + gap ELSE start[k],
             stored |-> IF k >= 4 THEN 0 ELSE IF k = cut /\ sizes[k] > 0 THEN sizes[k] - 1
                        ELSE sizes[k]]]

MCCoffs ==
    {[sections |-> Sections(<<text, rdata, data, sbss, bss>>, gap, cut),
      mipsel |-> TRUE, omagic |-> TRUE] :
        text \in 0..2, rdata \in 0..1, data \in 0..1, sbss \in 0..1, bss \in 0..1,
        gap \in 0..1, cut \in {0, 1, 3}}
    \cup {[sections |-> <<[name |-> ".comment", size |-> 1, paddr |-> 0, stored |-> 1]>>,
           mipsel |-> m, omagic |-> o] : m \in BOOLEAN, o \in BOOLEAN}

AnyCoff == [sections |-> <<>>, mipsel |-> TRUE, omagic |-> TRUE]

\* A string that ends anywhere, or nowhere; and what may be typed or read.
MCMemories == {[a \in 0..(MemBytes - 1) |-> IF a = end THEN 0 ELSE 10 + a] : end \in 0..MemBytes}
MCInputs == {<<>>, <<1>>, <<1, 2>>, <<1, 2, 3>>, <<1, 2, 3, 4>>, <<1, 0, 2>>}

-----------------------------------------------------------------------------
\* The parts that a behaviour is not about have one initial state.
OtherParts ==
    /\ part # "paging" => virtualOption = 0
    /\ part # "cpu" => program = <<>> /\ cpu = P!InitialCpu(P!Registers(0, 0), P!InitialMem)
    /\ part # "host" => host = "i386"
    /\ part # "io" => mem = (CHOOSE m \in Memories : TRUE) /\ resident = {}

MCInit ==
    /\ part \in {"paging", "disk", "cpu", "host", "load", "io"}
    /\ OtherParts
    /\ Init /\ D!Init /\ P!SimInit /\ H!Init /\ U!Init
    /\ IF part = "load" THEN X!Init
       ELSE X!Begin("coff2noff", [converter |-> "little", loader |-> "little"], AnyCoff)

MCNext ==
    /\ UNCHANGED part
    /\ \/ part = "paging" /\ Next /\ UNCHANGED <<diskVars, cpuVars, hostVars, loadVars, ioVars>>
       \/ part = "disk" /\ D!Next /\ UNCHANGED <<vars, cpuVars, hostVars, loadVars, ioVars>>
       \/ part = "cpu" /\ P!SimNext /\ UNCHANGED <<vars, diskVars, hostVars, loadVars, ioVars>>
       \/ part = "host" /\ H!Next /\ UNCHANGED <<vars, diskVars, cpuVars, loadVars, ioVars>>
       \/ part = "load" /\ X!Next /\ UNCHANGED <<vars, diskVars, cpuVars, hostVars, ioVars>>
       \/ part = "io" /\ U!Next /\ UNCHANGED <<vars, diskVars, cpuVars, hostVars, loadVars>>

MCSpec ==
    MCInit /\ [][MCNext]_<<part, vars, diskVars, cpuVars, hostVars, loadVars, ioVars>>

-----------------------------------------------------------------------------
(* Properties                                                              *)

\* Each request of the disk takes as long as the platter needs: the sector has
\* passed under the head, a write is not served from the track buffer, and the
\* latency is positive and bounded (ComputeLatency).
LatencyRight ==
    part = "disk" => D!TypeOK /\ D!SectorPassed /\ D!WriteIsPhysical /\ D!LatencyBounded

\* Programs do not see delayed loads and page faults.
DelayInvisible == part = "cpu" => P!TypeOK /\ P!DelayInvisible

\* MULT, MULTU, DIV and DIVU are exact, ADD, ADDI and SUB raise an overflow
\* exactly when there is one, and the two interpreters of the repository
\* (machine/mipssim.cc and bin/execute.c) agree in every step of a program, and
\* for all operands, except where Differs and OperandsDiffer say how they differ.
ArithmeticExact ==
    part = "cpu" => P!MultiplierRight /\ P!OverflowExact /\ P!InStep /\ P!SameArithmetic

\* The two interpreters compute the same for all operands.
InterpretersAgree == part = "cpu" => P!InterpretersAgree

\* SWITCH gives each thread its registers and its stack back, and starts a new
\* thread in the right function.
ContextKept == part = "host" => H!ContextKept /\ H!RootCalls

\* A program is in memory where its instructions expect it.
ImageRight == part = "load" => X!ImageRight

\* Uninitialized data is zero, in one piece.
UninitializedRight == part = "load" => X!UninitializedRight

\* The system calls Read and Write copy the bytes they say.
CopiesRight == part = "io" => U!CopiesRight

\* They do what syscall.h says.
IOContract == part = "io" => U!IOContract

=============================================================================
