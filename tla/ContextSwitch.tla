---------------------------- MODULE ContextSwitch ----------------------------
(***************************************************************************)
(* SWITCH and ThreadRoot (threads/switch.c) with the offsets of switch.h,  *)
(* and Thread::StackAllocate (threads/thread.cc), for the i386, the MIPS   *)
(* and the HP PA-RISC (HOST_SNAKE): one instruction of SWITCH is one step. *)
(*                                                                         *)
(* Interrupts are off and nothing interleaves; what can go wrong is that a *)
(* register is lost, because it is not saved, because it is used before it *)
(* is saved, or because two offsets collide.  Compiled code keeps the      *)
(* conventions of each machine: a call preserves the callee-saved          *)
(* registers and leaves anything in the others.                            *)
(***************************************************************************)
EXTENDS Naturals, Sequences, SequencesExt

CONSTANTS
    Threads,
    MainThread,     \* runs from the start, on the host's stack
    Unset,          \* a word that nobody has set
    StackTop,       \* words of a stack below the ones StackAllocate keeps free
    Depths          \* Depths[t]: where esp can be when thread t calls SWITCH

Machines == {"i386", "MIPS", "SNAKE"}

VARIABLES
    host,       \* the machine
    running,    \* the thread whose code runs, SWITCH called from it included
    where,      \* what runs: "code", "ThreadRoot" or "SWITCH"
    pc,         \* the next instruction of SWITCH
    regs,       \* the registers of the host
    object,     \* Thread objects: the words from stackTop on, by offset
    words,      \* i386: the top words of each thread's stack
    eax_save,   \* i386: the variable _eax_save
    root,       \* how many of its three calls a thread's ThreadRoot has made
    frame,      \* what the function that ThreadRoot called has to restore
    forked,     \* threads that have a stack
    kept,       \* history: the registers a thread needs back from SWITCH
    calls       \* history: the calls of each thread's ThreadRoot

vars == <<host, running, where, pc, regs, object, words, eax_save, root, frame, forked,
          kept, calls>>

-----------------------------------------------------------------------------
(* switch.h: the registers in the order of their offsets                   *)

SavedMIPS == <<"sp", "s0", "s1", "s2", "s3", "s4", "s5", "s6", "s7", "fp", "ra">>
SavedSNAKE == <<"sp", "r3", "r4", "r5", "r6", "r7", "r8", "r9", "r10", "r11", "r12", "r13",
                "r14", "r15", "r16", "r17", "r18", "rp">>
Savedi386 == <<"esp", "eax", "ebx", "ecx", "edx", "ebp", "esi", "edi", "PC">>

SavedRegs(h) == CASE h = "i386" -> Savedi386 [] h = "MIPS" -> SavedMIPS [] h = "SNAKE" -> SavedSNAKE

Offset(r) == 4 * (SelectInSeq(SavedRegs(host), LAMBDA s : s = r) - 1)

\* The registers of ThreadRoot.
RootRegs(h) ==
    CASE h = "i386" -> [InitialPC |-> "esi", InitialArg |-> "edx", WhenDonePC |-> "edi",
                        StartupPC |-> "ecx", PC |-> "PC"]
      [] h = "MIPS" -> [InitialPC |-> "s0", InitialArg |-> "s1", WhenDonePC |-> "s2",
                        StartupPC |-> "s3", PC |-> "ra"]
      [] h = "SNAKE" -> [InitialPC |-> "r3", InitialArg |-> "r4", WhenDonePC |-> "r5",
                         StartupPC |-> "r6", PC |-> "rp"]

Registers(h) ==
    CASE h = "i386" -> ToSet(Savedi386) \ {"PC"}
      [] h = "MIPS" -> ToSet(SavedMIPS) \cup {"a0", "a1"}
      [] h = "SNAKE" -> ToSet(SavedSNAKE) \cup {"arg0", "arg1"}

StackReg == IF host = "i386" THEN "esp" ELSE "sp"

\* What compiled code relies on after a call, the stack pointer aside.
CalleeSaved ==
    CASE host = "i386" -> {"ebx", "esi", "edi", "ebp"}
      [] host = "MIPS" -> ToSet(SavedMIPS) \ {"sp", "ra"}
      [] host = "SNAKE" -> ToSet(SavedSNAKE) \ {"sp", "rp"}

-----------------------------------------------------------------------------
(* SWITCH: each instruction moves a word from one place to another         *)

Reg(r) == [kind |-> "register", reg |-> r]
Field(r, saved) == [kind |-> "field", reg |-> r, saved |-> saved]  \* of the Thread that r points to
Stack(k) == [kind |-> "stack", at |-> k]                           \* k words above esp
EaxSave == [kind |-> "eax_save"]

\* The registers in the order in which the i386 saves and loads them.
Moved == <<"ebx", "ecx", "edx", "esi", "edi", "ebp", "esp">>
Save(regFile, r) == [k \in DOMAIN regFile |-> <<Reg(regFile[k]), Field(r, regFile[k])>>]
Load(regFile, r) == [k \in DOMAIN regFile |-> <<Field(r, regFile[k]), Reg(regFile[k])>>]

\* Mutant: ebx is used for the old eax and the return address before it is saved.
SWITCHi386Early ==
    <<<<Reg("eax"), EaxSave>>, <<Stack(1), Reg("eax")>>,
      <<EaxSave, Reg("ebx")>>, <<Reg("ebx"), Field("eax", "eax")>>,
      <<Stack(0), Reg("ebx")>>, <<Reg("ebx"), Field("eax", "PC")>>>>
    \o Save(Moved, "eax")
    \o <<<<Stack(2), Reg("eax")>>,
         <<Field("eax", "eax"), Reg("ebx")>>, <<Reg("ebx"), EaxSave>>>>
    \o Load(Moved, "eax")
    \o <<<<Field("eax", "PC"), Reg("eax")>>, <<Reg("eax"), Stack(1)>>, <<EaxSave, Reg("eax")>>>>

\* eax points to t1, then to t2; its own value goes through eax_save and ebx.
SWITCHi386 ==
    <<<<Reg("eax"), EaxSave>>, <<Stack(1), Reg("eax")>>>>
    \o Save(Moved, "eax")
    \o <<<<EaxSave, Reg("ebx")>>, <<Reg("ebx"), Field("eax", "eax")>>,
         <<Stack(0), Reg("ebx")>>, <<Reg("ebx"), Field("eax", "PC")>>,
         <<Stack(2), Reg("eax")>>,
         <<Field("eax", "eax"), Reg("ebx")>>, <<Reg("ebx"), EaxSave>>>>
    \o Load(Moved, "eax")
    \o <<<<Field("eax", "PC"), Reg("eax")>>, <<Reg("eax"), Stack(1)>>, <<EaxSave, Reg("eax")>>>>

SWITCHMIPS == Save(SavedMIPS, "a0") \o Load(SavedMIPS, "a1")

\* r18 is restored in the delay slot of the jump, after rp.
SWITCHSNAKE ==
    Save(SavedSNAKE, "arg0") \o Load([SavedSNAKE EXCEPT ![17] = "rp", ![18] = "r18"], "arg1")

Code == CASE host = "i386" -> SWITCHi386 [] host = "MIPS" -> SWITCHMIPS [] host = "SNAKE" -> SWITCHSNAKE

Read(place) ==
    CASE place.kind = "register" -> regs[place.reg]
      [] place.kind = "field" -> object[regs[place.reg]][Offset(place.saved)]
      [] place.kind = "stack" -> words[regs["esp"].thread][regs["esp"].depth + place.at]
      [] place.kind = "eax_save" -> eax_save

Instruction ==
    /\ where = "SWITCH" /\ pc <= Len(Code)
    /\ LET v == Read(Code[pc][1])
           to == Code[pc][2]
       IN  /\ regs' = IF to.kind = "register" THEN [regs EXCEPT ![to.reg] = v] ELSE regs
           /\ object' = IF to.kind = "field"
                        THEN [object EXCEPT ![regs[to.reg]][Offset(to.saved)] = v] ELSE object
           /\ words' = IF to.kind = "stack"
                       THEN [words EXCEPT ![regs["esp"].thread][regs["esp"].depth + to.at] = v]
                       ELSE words
           /\ eax_save' = IF to.kind = "eax_save" THEN v ELSE eax_save
    /\ pc' = pc + 1
    /\ UNCHANGED <<host, running, where, root, frame, forked, kept, calls>>

After(t) == [code |-> "after SWITCH", thread |-> t]
ThreadRoot == [code |-> "ThreadRoot"]

Top(t, n) == [thread |-> t, depth |-> n]

\* Where the jump at the end goes.  On the i386 ret pops the return address, and
\* the caller then takes the two arguments off the stack.
Target == IF host = "i386" THEN Read(Stack(0)) ELSE regs[RootRegs(host).PC]
Popped == IF host # "i386" THEN 0 ELSE IF Target = ThreadRoot THEN 1 ELSE 3

Returning == where = "SWITCH" /\ pc > Len(Code)

Jump ==
    /\ Returning
    /\ running' = IF Target = ThreadRoot THEN regs[StackReg].thread ELSE Target.thread
    /\ where' = IF Target = ThreadRoot THEN "ThreadRoot" ELSE "code"
    /\ regs' = [regs EXCEPT ![StackReg].depth = @ + Popped]
    /\ pc' = 0
    /\ UNCHANGED <<host, object, words, eax_save, root, frame, forked, kept, calls>>

-----------------------------------------------------------------------------
(* Thread::StackAllocate and ThreadRoot                                    *)

\* The functions a new thread calls.
Func(t) == [code |-> "func", thread |-> t]
InterruptEnable == [code |-> "InterruptEnable"]
ThreadFinish == [code |-> "ThreadFinish"]
Arg(t) == [arg |-> t]

\* The stack; the four words above stackTop are "to be on the safe side".
Words == 0..(StackTop + 3)

\* The initial frame; on the i386 the return address is on the stack as well.
StackAllocate(t) ==
    LET at(f) == Offset(RootRegs(host)[f])
    IN  /\ words' = IF host = "i386" THEN [words EXCEPT ![t][StackTop - 1] = ThreadRoot] ELSE words
        /\ object' = [object EXCEPT
             ![t] = [o \in DOMAIN @ |->
                CASE o = 0 -> Top(t, IF host = "i386" THEN StackTop - 1 ELSE StackTop)
                  [] o = at("PC") -> ThreadRoot
                  [] o = at("StartupPC") -> InterruptEnable
                  [] o = at("InitialPC") -> Func(t)
                  [] o = at("InitialArg") -> Arg(t)
                  [] o = at("WhenDonePC") -> ThreadFinish
                  [] OTHER -> @[o]]]

\* Thread::Fork by the running thread.
Fork(t) ==
    /\ where = "code"
    /\ t \notin forked
    /\ StackAllocate(t)
    /\ forked' = forked \cup {t}
    /\ UNCHANGED <<host, running, where, pc, regs, eax_save, root, frame, kept, calls>>

\* What a function called by ThreadRoot has to leave as it was.
Preserved == [r \in CalleeSaved \cup {StackReg} |-> regs[r]]

\* ThreadRoot makes its next call.  The argument is pushed before the first call
\* on the i386, and moved before the second on the others.  The MIPS clears fp
\* first.
RootCall ==
    /\ where = "ThreadRoot"
    /\ LET t == running
           function == <<"StartupPC", "InitialPC", "WhenDonePC">>[root[t] + 1]
           d == regs[StackReg].depth
           pushes == host = "i386" /\ root[t] = 0
       IN  /\ words' = IF pushes
                       THEN [words EXCEPT ![t][d - 1] = regs["ebp"],
                                          ![t][d - 2] = regs[RootRegs(host).InitialArg]]
                       ELSE words
           /\ regs' = CASE pushes -> [regs EXCEPT !["ebp"] = Top(t, d - 1), !["esp"].depth = d - 2]
                        [] host = "MIPS" /\ root[t] = 0 -> [regs EXCEPT !["fp"] = Unset]
                        [] OTHER -> regs
           /\ calls' = [calls EXCEPT ![t] = Append(@,
                 [to |-> regs[RootRegs(host)[function]],
                  arg |-> IF function # "InitialPC" THEN Unset
                          ELSE IF host = "i386" THEN words[t][d]
                          ELSE regs[RootRegs(host).InitialArg]])]
           /\ frame' = [frame EXCEPT ![t] = [r \in DOMAIN Preserved |-> regs'[r]]]
           /\ root' = [root EXCEPT ![t] = @ + 1]
    /\ where' = "code"
    /\ UNCHANGED <<host, running, pc, object, eax_save, forked, kept>>

\* A function that ThreadRoot called returns; ThreadFinish does not.
FunctionReturns ==
    /\ where = "code"
    /\ running # MainThread /\ root[running] < 3
    /\ regs' = [r \in DOMAIN regs |-> IF r \in DOMAIN Preserved THEN frame[running][r] ELSE Unset]
    /\ where' = "ThreadRoot"
    /\ UNCHANGED <<host, running, pc, object, words, eax_save, root, frame, forked, kept, calls>>

\* Scheduler::Run, called at some depth, calls SWITCH(t, t2).
CallSWITCH(t2, d) ==
    LET t == running
        busy == [r \in DOMAIN regs |-> IF r = StackReg THEN Top(t, d)
                                       ELSE [thread |-> t, at |-> d, reg |-> r]]
    IN  /\ where = "code"
        /\ t2 \in forked \ {t} /\ root[t2] < 3
        /\ regs' = CASE host = "i386" -> [busy EXCEPT !["esp"] = Top(t, d - 3)]
                     [] host = "MIPS" -> [busy EXCEPT !["a0"] = t, !["a1"] = t2, !["ra"] = After(t)]
                     [] host = "SNAKE" -> [busy EXCEPT !["arg0"] = t, !["arg1"] = t2, !["rp"] = After(t)]
        /\ words' = IF host # "i386" THEN words
                    ELSE [words EXCEPT ![t][d - 3] = After(t), ![t][d - 2] = t, ![t][d - 1] = t2]
        /\ kept' = [kept EXCEPT ![t] = [r \in DOMAIN Preserved |-> busy[r]]]
        /\ where' = "SWITCH" /\ pc' = 1
        /\ UNCHANGED <<host, running, object, eax_save, root, frame, forked, calls>>

\* Code that neither forks, switches nor returns.
Compute == where = "code" /\ UNCHANGED vars

-----------------------------------------------------------------------------
Init ==
    /\ host \in Machines
    /\ running = MainThread
    /\ where = "code" /\ pc = 0
    /\ regs = [r \in Registers(host) |-> IF r = StackReg THEN Top(MainThread, StackTop) ELSE Unset]
    /\ object = [t \in Threads |-> [o \in {Offset(r) : r \in ToSet(SavedRegs(host))} |-> Unset]]
    /\ words = [t \in Threads |-> [n \in Words |-> Unset]]
    /\ eax_save = Unset
    /\ root = [t \in Threads |-> 0]
    /\ frame = [t \in Threads |-> <<>>]
    /\ forked = {MainThread}
    /\ kept = [t \in Threads |-> <<>>]
    /\ calls = [t \in Threads |-> <<>>]

Next ==
    \/ Instruction \/ Jump \/ RootCall \/ FunctionReturns \/ Compute
    \/ \E t \in Threads : Fork(t)
    \/ \E t2 \in Threads, d \in Depths[running] : CallSWITCH(t2, d)

-----------------------------------------------------------------------------
(* Properties                                                              *)

\* SWITCH returns to a thread that called it, with the stack pointer and all the
\* registers that thread relies on as they were, however the others have
\* switched, forked and finished in between; or it starts a new thread.  It
\* writes inside the stacks only.
ContextKept ==
    /\ where = "SWITCH" /\ ~Returning /\ Code[pc][2].kind = "stack" =>
          regs["esp"].depth + Code[pc][2].at \in DOMAIN words[regs["esp"].thread]
    /\ Returning =>
        \/ /\ Target = ThreadRoot
           /\ regs[StackReg].thread \in forked /\ root[regs[StackReg].thread] = 0
        \/ \E t \in forked :
              /\ Target = After(t)
              /\ \A r \in CalleeSaved : regs[r] = kept[t][r]
              /\ regs[StackReg].thread = t
              /\ regs[StackReg].depth + Popped = kept[t][StackReg].depth

\* A new thread enables interrupts, calls the function it was forked with on the
\* argument it was forked with, and then finishes (StackAllocate), though it
\* may be switched out inside each of the calls.
RootCalls ==
    \A t \in Threads :
        IsPrefix(calls[t], <<[to |-> InterruptEnable, arg |-> Unset],
                             [to |-> Func(t), arg |-> Arg(t)],
                             [to |-> ThreadFinish, arg |-> Unset]>>)

=============================================================================
