-------------------------------- MODULE Paging --------------------------------
(***************************************************************************)
(* Address spaces and demand paging: AddrSpace (userprog/addrspace.cc),    *)
(* the page fault and the ends of a process in ExceptionHandler            *)
(* (userprog/exception.cc), the page table walk of Machine::Translate      *)
(* (machine/translate.cc) and the frame bitmap (userprog/bitmap.cc).       *)
(*                                                                         *)
(* The timer can switch processes between any two user instructions, and   *)
(* an exception is handled without a switch, so a step is one memory       *)
(* access or one exception of any process.  A page is one value: the       *)
(* executable's image, or what the process last wrote.  Executables are    *)
(* NOFF files and the UNIX files behind FILESYS_STUB do not fail.          *)
(***************************************************************************)
EXTENDS Naturals

CONSTANTS
    Processes,     \* the processes Nachos may run
    Main,          \* the one StartProcess loads
    NoProcess,     \* the NULL pointer in IPT
    Invalid,       \* a page table entry with valid = FALSE
    NumPhysPages,  \* frames of main memory
    NumPages,      \* AddrSpace::numPages of each process's program
    MaxWrites      \* bound: values a process writes to one page

Frames == 0..(NumPhysPages - 1)
Pages(p) == 0..(NumPages[p] - 1)

ASSUME PagingAssumption ==
    /\ Main \in Processes
    /\ NoProcess \notin Processes
    /\ NumPhysPages \in Nat \ {0}
    /\ NumPages \in [Processes -> Nat]
    /\ Invalid \notin Frames
    /\ MaxWrites \in Nat

VARIABLES
    virtualOption, \* the -V argument: 0 demand paging, 1 FIFO, 2 random
    alive,       \* processes that have an address space
    ended,       \* processes that had one
    pageTable,   \* AddrSpace::pageTable: physicalPage, or Invalid
    bitMap,      \* the frames whose bit is set in the global bitMap
    IPT,         \* the inverted page table: the process of a frame
    IPT_VP,      \* and its virtual page
    mainMemory,  \* Machine::mainMemory, a page per frame
    swapFiles,   \* the processes whose swap file exists
    expected,    \* history: what each process last stored in each page
    nachos       \* "running", "ended", or "failed ASSERT"

vars == <<virtualOption, alive, ended, pageTable, bitMap, IPT, IPT_VP, mainMemory, swapFiles,
          expected, nachos>>

\* The page the executable's copy in the swap file has at v.
Image(p, v) == [proc |-> p, page |-> v, value |-> 0]

Blank == [proc |-> NoProcess, page |-> 0, value |-> 0]

Init ==
    /\ virtualOption \in 0..2
    /\ alive = {Main}
    /\ ended = {}
    /\ pageTable = [p \in Processes |-> [v \in Pages(p) |-> Invalid]]
    /\ bitMap = {}
    /\ IPT = [f \in Frames |-> NoProcess]
    /\ IPT_VP = [f \in Frames |-> 0]
    /\ mainMemory = [f \in Frames |-> Blank]
    /\ swapFiles = {Main}
    /\ expected = [p \in Processes |-> [v \in Pages(p) |-> Image(p, v)]]
    /\ nachos = "running"

Executes(p) == nachos = "running" /\ p \in alive

-----------------------------------------------------------------------------
(* AddrSpace                                                               *)

\* The constructor, called by Exec: the program is copied to the swap file
\* and no page is valid.
AddrSpace(p) ==
    /\ nachos = "running"
    /\ alive # {}
    /\ p \notin alive \cup ended
    /\ alive' = alive \cup {p}
    /\ swapFiles' = swapFiles \cup {p}
    /\ UNCHANGED <<virtualOption, ended, pageTable, bitMap, IPT, IPT_VP, mainMemory,
                   expected, nachos>>

\* Mutant: no bit of the bitmap is cleared.
DeleteKeepsBits(p) ==
    /\ swapFiles' = swapFiles \ {p}
    /\ alive' = alive \ {p}
    /\ ended' = ended \cup {p}
    /\ UNCHANGED <<virtualOption, bitMap, pageTable, IPT, IPT_VP, mainMemory, expected,
                   nachos>>

\* The destructor, and the end of the process that follows it everywhere.
\* It clears the bits of all frames, whoever uses them.
Delete(p) ==
    /\ bitMap' = {}
    /\ swapFiles' = swapFiles \ {p}
    /\ alive' = alive \ {p}
    /\ ended' = ended \cup {p}
    /\ UNCHANGED <<virtualOption, pageTable, IPT, IPT_VP, mainMemory, expected, nachos>>

EndNachos(how) ==
    /\ nachos' = how
    /\ UNCHANGED <<virtualOption, alive, ended, pageTable, bitMap, IPT, IPT_VP,
                   mainMemory, swapFiles, expected>>

\* SC_Exit first clears the bit numbered numPages, which must exist.
Exit(p) ==
    /\ Executes(p)
    /\ IF NumPages[p] \in Frames THEN Delete(p) ELSE EndNachos("failed ASSERT")

\* Every other exception ends the process; in "main", Nachos, if comparing
\* the name with a string literal says so.
FatalException(p) ==
    /\ Executes(p)
    /\ \/ Delete(p)
       \/ p = Main /\ EndNachos("ended")

-----------------------------------------------------------------------------
(* Memory                                                                  *)

\* BitMap::Find: f is the first clear bit.
Find(f) ==
    /\ f \in Frames \ bitMap
    /\ \A g \in Frames \ bitMap : f <= g

\* Mutant: the frame is handed out without being marked.
LoadNotMarked(p, v, f) ==
    /\ IPT' = [IPT EXCEPT ![f] = p]
    /\ IPT_VP' = [IPT_VP EXCEPT ![f] = v]
    /\ mainMemory' = [mainMemory EXCEPT ![f] = Image(p, v)]
    /\ pageTable' = [pageTable EXCEPT ![p][v] = f]
    /\ UNCHANGED <<virtualOption, bitMap, alive, ended, swapFiles, expected, nachos>>

\* The page is read from the swap file into the frame that was found.
Load(p, v, f) ==
    /\ bitMap' = bitMap \cup {f}
    /\ IPT' = [IPT EXCEPT ![f] = p]
    /\ IPT_VP' = [IPT_VP EXCEPT ![f] = v]
    /\ mainMemory' = [mainMemory EXCEPT ![f] = Image(p, v)]
    /\ pageTable' = [pageTable EXCEPT ![p][v] = f]
    /\ UNCHANGED <<virtualOption, alive, ended, swapFiles, expected, nachos>>

\* PageFaultException.  Without a free frame options 1 and 2 pick a victim
\* and look at its owner's page table, but evict nothing: the instruction is
\* restarted and faults again.
PageFault(p, v) ==
    /\ Executes(p)
    /\ pageTable[p][v] = Invalid
    /\ \/ \E f \in 0..NumPhysPages :
            /\ Find(f)
            /\ IF p \in swapFiles THEN Load(p, v, f) ELSE EndNachos("ended")
       \/ /\ bitMap = Frames
          /\ \/ virtualOption = 0 /\ EndNachos("ended")
             \/ virtualOption # 0 /\ UNCHANGED vars

\* A store through a valid entry (Translate, WriteMem).
WriteMem(p, v) ==
    /\ Executes(p)
    /\ pageTable[p][v] # Invalid
    /\ expected[p][v].value < MaxWrites
    /\ LET page == [Image(p, v) EXCEPT !.value = expected[p][v].value + 1]
       IN  /\ mainMemory' = [mainMemory EXCEPT ![pageTable[p][v]] = page]
           /\ expected' = [expected EXCEPT ![p][v] = page]
    /\ UNCHANGED <<virtualOption, alive, ended, pageTable, bitMap, IPT, IPT_VP, swapFiles,
                   nachos>>

\* Nachos has ended, or its last process has.
Stopped == (nachos # "running" \/ alive = {}) /\ UNCHANGED vars

Next ==
    \/ \E p \in Processes : AddrSpace(p) \/ Exit(p) \/ FatalException(p)
    \/ \E p \in Processes : \E v \in Pages(p) : PageFault(p, v) \/ WriteMem(p, v)
    \/ Stopped

Spec == Init /\ [][Next]_vars

-----------------------------------------------------------------------------
(* Properties                                                              *)

TypeOK ==
    /\ virtualOption \in 0..2
    /\ alive \subseteq Processes
    /\ ended \subseteq Processes
    /\ DOMAIN pageTable = Processes
    /\ \A p \in Processes : pageTable[p] \in [Pages(p) -> Frames \cup {Invalid}]
    /\ bitMap \subseteq Frames
    /\ IPT \in [Frames -> Processes \cup {NoProcess}]
    /\ IPT_VP \in [Frames -> Nat]
    /\ DOMAIN mainMemory = Frames
    /\ swapFiles \subseteq Processes
    /\ DOMAIN expected = Processes
    /\ \A p \in Processes : DOMAIN expected[p] = Pages(p)
    /\ nachos \in {"running", "ended", "failed ASSERT"}

\* The inverted page table is right about every frame in use: its process
\* has not exited and its page table agrees, so that the handler may follow
\* IPT[f]->space->pageTable when it looks for a victim (PageFaultException).
IPTAccurate ==
    \A f \in bitMap :
        /\ IPT[f] \in alive
        /\ IPT_VP[f] \in Pages(IPT[f])
        /\ pageTable[IPT[f]][IPT_VP[f]] = f

\* A process has its swap file exactly as long as it lives, so a fault always
\* finds the file and none is left over (AddrSpace, ~AddrSpace).
SwapFilesExact == swapFiles = alive

\* What the handler of page faults relies on, at every moment.
PagingInv == TypeOK /\ IPTAccurate /\ SwapFilesExact

\* Until the first process exits, every process finds in its memory what it
\* last stored there, or what its program put there (PageFaultException).
PrivateUntilExit ==
    ended = {} =>
        \A p \in alive : \A v \in Pages(p) :
            pageTable[p][v] # Invalid => mainMemory[pageTable[p][v]] = expected[p][v]

\* The project notes on Exit: consult the inverted page table and clear the
\* bits used by currentThread.  Then no two pages ever share a frame.
FramesExclusive ==
    \A p, q \in alive : \A v \in Pages(p), w \in Pages(q) :
        pageTable[p][v] = pageTable[q][w] /\ pageTable[p][v] # Invalid => p = q /\ v = w

=============================================================================
