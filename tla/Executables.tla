----------------------------- MODULE Executables -----------------------------
(***************************************************************************)
(* From an object file to the memory of a process: coff2noff and coff2flat *)
(* (bin/), and the loader in the constructor of AddrSpace                  *)
(* (userprog/addrspace.cc).                                                *)
(*                                                                         *)
(* A byte of a section is the pair of the section's number and its offset, *)
(* so that a byte in the wrong place shows.  Sizes are in bytes; a page, a *)
(* stack and a header have few of them.  The swap file can be created.     *)
(***************************************************************************)
EXTENDS Naturals, Sequences

CONSTANTS
    Coffs,          \* object files: sections and whether the headers are right
    Zero, Junk,     \* a byte 0, and a byte that nobody has set
    PageSize,
    UserStackSize,  \* of AddrSpace, StackSize of coff2flat
    HeaderSize,     \* sizeof(NoffHeader)
    StackMargin     \* the 16 of InitRegisters, at most UserStackSize

VARIABLES
    tool,       \* "coff2noff" or "coff2flat"
    order,      \* byte orders of the hosts that convert and that load
    coff,       \* the object file
    stage,      \* where the conversion or the loading is
    i,          \* the section that is next
    noffH,      \* the NOFF header under construction: three segments
    written,    \* bytes written after the header
    exists,     \* the output file has not been unlinked
    memory,     \* contents of the address space, or of the flat file
    sp          \* the stack register

vars == <<tool, order, coff, stage, i, noffH, written, exists, memory, sp>>

NoSegment == [virtualAddr |-> 0, inFileAddr |-> 0, size |-> 0]

\* Conversion of the object file c begins.
Begin(t, hosts, c) ==
    /\ tool = t /\ order = hosts /\ coff = c
    /\ stage = "headers"
    /\ i = 1
    /\ noffH = [code |-> NoSegment, initData |-> NoSegment, uninitData |-> NoSegment]
    /\ written = <<>>
    /\ exists = TRUE
    /\ memory = <<>>
    /\ sp = 0

Init ==
    \E t \in {"coff2noff", "coff2flat"}, c \in Coffs,
       hosts \in [{"converter", "loader"} -> {"little", "big"}] : Begin(t, hosts, c)

Section == coff.sections[i]

\* The bytes that are in the file for section k.
Contents(k) == [b \in 1..coff.sections[k].stored |-> <<k, b - 1>>]

\* Read found fewer bytes than the section has.
TooShort == Section.stored < Section.size

-----------------------------------------------------------------------------
(* coff2noff                                                               *)

\* Every error path: the output is removed.
Fail ==
    /\ stage' = "failed"
    /\ exists' = FALSE
    /\ UNCHANGED <<tool, order, coff, i, noffH, written, memory, sp>>

\* The magic numbers are MIPSEL and OMAGIC; ShortToHost has put them in the
\* order of the host.
ReadHeaders ==
    /\ tool = "coff2noff" /\ stage = "headers"
    /\ IF coff.mipsel /\ coff.omagic
       THEN stage' = "copy" /\ UNCHANGED <<tool, order, coff, i, noffH, written, exists, memory, sp>>
       ELSE Fail

\* Mutant: Read does not compare what it got with what it asked for.
CopyToShort(segment) ==
    \/ Fail
    \/ /\ noffH' = [noffH EXCEPT ![segment] =
              [virtualAddr |-> Section.paddr, inFileAddr |-> HeaderSize + Len(written),
               size |-> Section.size]]
       /\ written' = written \o Contents(i)
       /\ i' = i + 1
       /\ UNCHANGED <<tool, order, coff, stage, exists, memory, sp>>

\* A section that is copied: Read, which needs the whole section, then Write,
\* which the host may refuse.
CopyTo(segment) ==
    \/ Fail
    \/ /\ ~TooShort
       /\ noffH' = [noffH EXCEPT ![segment] =
              [virtualAddr |-> Section.paddr, inFileAddr |-> HeaderSize + Len(written),
               size |-> Section.size]]
       /\ written' = written \o Contents(i)
       /\ i' = i + 1
       /\ UNCHANGED <<tool, order, coff, stage, exists, memory, sp>>

\* Space for uninitialized data.  The comparison of the addresses is the
\* code's.
AddSpace ==
    LET bss == noffH.uninitData
    IN  IF bss.size # 0 /\ Section.paddr = bss.virtualAddr + bss.size THEN Fail
        ELSE /\ noffH' = [noffH EXCEPT !.uninitData =
                    IF bss.size # 0 THEN [bss EXCEPT !.size = @ + Section.size]
                    ELSE [bss EXCEPT !.virtualAddr = Section.paddr, !.size = Section.size]]
             /\ i' = i + 1
             /\ UNCHANGED <<tool, order, coff, stage, written, exists, memory, sp>>

SkipEmpty ==
    /\ i' = i + 1
    /\ UNCHANGED <<tool, order, coff, stage, noffH, written, exists, memory, sp>>

\* One turn of the loop over the sections.
CopySection ==
    /\ tool = "coff2noff" /\ stage = "copy" /\ i <= Len(coff.sections)
    /\ CASE Section.size = 0 -> SkipEmpty
         [] Section.size # 0 /\ Section.name = ".text" -> CopyTo("code")
         [] Section.size # 0 /\ Section.name \in {".data", ".rdata"} ->
              IF noffH.initData.size # 0 THEN Fail ELSE CopyTo("initData")
         [] Section.size # 0 /\ Section.name \in {".bss", ".sbss"} -> AddSpace
         [] OTHER -> Fail

\* The header goes to the front of the file.
WriteHeader ==
    /\ tool = "coff2noff" /\ stage = "copy" /\ i > Len(coff.sections)
    /\ \/ stage' = "noff" /\ UNCHANGED <<tool, order, coff, i, noffH, written, exists, memory, sp>>
       \/ Fail

-----------------------------------------------------------------------------
(* AddrSpace::AddrSpace and InitRegisters                                  *)

divRoundUp(n, s) == (n + s - 1) \div s

\* WordToHost swaps the bytes of a word on a host with the other order than the
\* simulated machine; SwapHeader does it to the whole header.
WordToHost(host, wordOrder) ==
    IF host = "little" THEN wordOrder ELSE IF wordOrder = "little" THEN "big" ELSE "little"

\* The header is in the order of the host that wrote it.
IsNoff ==
    \/ order["converter"] = order["loader"]
    \/ WordToHost(order["loader"], order["converter"]) = order["loader"]

\* The file is copied to the start of the address space, from behind the header
\* on, in a buffer that nobody has cleared.
AddrSpace ==
    /\ stage = "noff"
    /\ LET size == noffH.code.size + noffH.initData.size + noffH.uninitData.size + UserStackSize
           numPages == divRoundUp(size, PageSize)
           rounded == numPages * PageSize
       IN  IF IsNoff
           THEN \E old \in {Zero, Junk} :
                  /\ memory' = [a \in 0..(rounded - 1) |->
                                  IF a < Len(written) THEN written[a + 1] ELSE old]
                  /\ sp' = rounded - StackMargin
                  /\ stage' = "loaded"
           ELSE stage' = "rejected" /\ UNCHANGED <<memory, sp>>
    /\ UNCHANGED <<tool, order, coff, i, noffH, written, exists>>

-----------------------------------------------------------------------------
(* coff2flat                                                               *)

\* Errors leave the output as it is.
FlatFail ==
    /\ stage' = "failed"
    /\ UNCHANGED <<tool, order, coff, i, noffH, written, exists, memory, sp>>

\* The words of the headers are not converted.
FlatHeaders ==
    /\ tool = "coff2flat" /\ stage = "headers"
    /\ IF coff.mipsel /\ coff.omagic /\ order["converter"] = "little"
       THEN stage' = "copy" /\ UNCHANGED <<tool, order, coff, i, noffH, written, exists, memory, sp>>
       ELSE FlatFail

\* One turn of the loop: sections are written one after the other.
FlatSection ==
    /\ tool = "coff2flat" /\ stage = "copy" /\ i <= Len(coff.sections)
    /\ \/ Section.name \notin {".bss", ".sbss"} /\ (TooShort \/ Section.size > 0) /\ FlatFail
       \/ /\ Section.name \notin {".bss", ".sbss"} => ~TooShort
          /\ written' = IF Section.name \in {".bss", ".sbss"} THEN written
                        ELSE written \o Contents(i)
          /\ i' = i + 1
          /\ UNCHANGED <<tool, order, coff, stage, noffH, exists, memory, sp>>

Top == LET ends == {coff.sections[k].paddr + coff.sections[k].size : k \in 1..Len(coff.sections)}
       IN  IF ends = {} THEN 0 ELSE CHOOSE t \in ends : \A e \in ends : e <= t

\* A word 0 at the end of the stack; what is skipped reads as zeros.
FlatStack ==
    /\ tool = "coff2flat" /\ stage = "copy" /\ i > Len(coff.sections)
    /\ \/ FlatFail
       \/ /\ memory' = [a \in 0..(Top + UserStackSize - 1) |->
                          IF a < Len(written) /\ a < Top + UserStackSize - 4
                          THEN written[a + 1] ELSE Zero]
          /\ stage' = "loaded"
          /\ UNCHANGED <<tool, order, coff, i, noffH, written, exists, sp>>

-----------------------------------------------------------------------------
Done == stage \in {"failed", "rejected", "loaded"} /\ UNCHANGED vars

Next ==
    \/ ReadHeaders \/ CopySection \/ WriteHeader \/ AddrSpace
    \/ FlatHeaders \/ FlatSection \/ FlatStack
    \/ Done

Spec == Init /\ [][Next]_vars

-----------------------------------------------------------------------------
(* Properties                                                              *)

Uninitialized(k) == coff.sections[k].name \in {".bss", ".sbss"}

\* Linked as addrspace.cc asks ("-N -T 0"): the sections follow each other from
\* address 0 on, the uninitialized ones last.
Linked ==
    /\ coff.sections # <<>> => coff.sections[1].paddr = 0
    /\ \A k \in 1..(Len(coff.sections) - 1) :
          coff.sections[k + 1].paddr = coff.sections[k].paddr + coff.sections[k].size
    /\ \A k, l \in 1..Len(coff.sections) : Uninitialized(k) /\ k < l => Uninitialized(l)

\* The address belongs to byte b of an initialized section k.
Initialized(a, k, b) ==
    /\ ~Uninitialized(k) /\ b < coff.sections[k].size
    /\ a = coff.sections[k].paddr + b

\* A linked program is in memory byte for byte where its instructions expect it,
\* whichever way it took: coff2noff and the loader, which looks at none of the
\* addresses in the header, or coff2flat, which leaves zeros everywhere else;
\* there is room for the uninitialized data too, and the stack starts clear of
\* it.  A file whose conversion by coff2noff fails does not stay behind: that
\* is every linked program with both .sbss and .bss.
ImageRight ==
    /\ stage = "loaded" /\ Linked =>
         /\ \A k \in 1..Len(coff.sections) : \A b \in 0..(coff.sections[k].size - 1) :
               /\ coff.sections[k].paddr + b \in DOMAIN memory
               /\ ~Uninitialized(k) => memory[coff.sections[k].paddr + b] = <<k, b>>
         /\ tool = "coff2noff" => sp >= Top /\ sp \in DOMAIN memory
         /\ tool = "coff2flat" =>
               \A a \in DOMAIN memory :
                   \/ memory[a] = Zero
                   \/ \E k \in 1..Len(coff.sections), b \in 0..Top : Initialized(a, k, b)
    /\ tool = "coff2noff" /\ stage = "failed" => ~exists

\* noff.h: uninitialized data "should be zero'ed before use"; coff2noff.c: it
\* "should be zero'd on program startup", and of .bss and .sbss "make sure they
\* are contiguous".  A program starts with its uninitialized data zero, and
\* coff2noff makes one segment of .sbss and .bss only when they are contiguous.
UninitializedRight ==
    /\ stage = "loaded" /\ Linked =>
         \A k \in 1..Len(coff.sections) : \A b \in 0..(coff.sections[k].size - 1) :
             Uninitialized(k) => memory[coff.sections[k].paddr + b] = Zero
    /\ tool = "coff2noff" /\ stage \in {"noff", "loaded"} =>
         \A k, l \in 1..Len(coff.sections) :
             /\ Uninitialized(k) /\ Uninitialized(l) /\ k < l
             /\ coff.sections[k].size # 0 /\ coff.sections[l].size # 0
             => coff.sections[l].paddr = coff.sections[k].paddr + coff.sections[k].size

=============================================================================
