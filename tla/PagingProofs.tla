----------------------------- MODULE PagingProofs -----------------------------
(***************************************************************************)
(* Paging for any processes, programs and size of memory: what the handler *)
(* of page faults relies on, and that memory is private until a process    *)
(* exits.                                                                  *)
(***************************************************************************)
EXTENDS Paging, TLAPS

\* While no process has exited, the bitmap and the inverted page table know of
\* every frame that a page table maps.  The first exit breaks this: the
\* destructor clears the bits of all frames.
FramesKnown ==
    ended = {} =>
        \A p \in Processes : \A v \in Pages(p) :
            pageTable[p][v] # Invalid =>
                /\ pageTable[p][v] \in bitMap
                /\ IPT[pageTable[p][v]] = p
                /\ IPT_VP[pageTable[p][v]] = v

\* A page that is not in memory has never been written: pages stay once they
\* are there.
Untouched ==
    \A p \in Processes : \A v \in Pages(p) :
        pageTable[p][v] = Invalid => expected[p][v] = Image(p, v)

\* The inductive invariant.
PInv == PagingInv /\ FramesKnown /\ Untouched /\ PrivateUntilExit

-----------------------------------------------------------------------------
\* No page is in memory when Nachos starts.
LEMMA PInitInv == Init => PInv
<1> SUFFICES ASSUME Init PROVE PInv
  OBVIOUS
<1> USE PagingAssumption DEF Init
<1>1. TypeOK
  BY DEF TypeOK
<1>2. IPTAccurate /\ SwapFilesExact
  BY DEF IPTAccurate, SwapFilesExact
<1>3. FramesKnown /\ Untouched /\ PrivateUntilExit
  BY DEF FramesKnown, Untouched, PrivateUntilExit
<1> QED BY <1>1, <1>2, <1>3 DEF PInv, PagingInv

\* A process that starts has no page in memory yet.
LEMMA AddrSpaceKeeps ==
  ASSUME PInv, NEW p \in Processes, AddrSpace(p)
  PROVE  PInv'
<1> USE DEF AddrSpace
<1>1. TypeOK'
  BY DEF PInv, PagingInv, TypeOK
<1>2. IPTAccurate' /\ SwapFilesExact'
  BY DEF PInv, PagingInv, IPTAccurate, SwapFilesExact
<1>3. FramesKnown' /\ Untouched'
  BY DEF PInv, FramesKnown, Untouched
<1>4. PrivateUntilExit'
  <2> SUFFICES ASSUME ended = {},
                      NEW q \in alive \cup {p}, NEW v \in Pages(q), pageTable[q][v] # Invalid
               PROVE  mainMemory[pageTable[q][v]] = expected[q][v]
    BY DEF PrivateUntilExit
  <2>1. q \in alive
    BY DEF PInv, PagingInv, TypeOK, FramesKnown, IPTAccurate
  <2> QED BY <2>1 DEF PInv, PrivateUntilExit
<1> QED BY <1>1, <1>2, <1>3, <1>4 DEF PInv, PagingInv

\* The destructor frees all frames, so the inverted page table has nothing left
\* to be wrong about; what else is promised ends with the first exit.
LEMMA DeleteKeeps ==
  ASSUME PInv, NEW p \in Processes, Delete(p)
  PROVE  PInv'
<1> USE DEF Delete
<1>1. TypeOK'
  BY DEF PInv, PagingInv, TypeOK
<1>2. IPTAccurate' /\ SwapFilesExact'
  BY DEF PInv, PagingInv, IPTAccurate, SwapFilesExact
<1>3. FramesKnown' /\ Untouched' /\ PrivateUntilExit'
  BY DEF PInv, FramesKnown, Untouched, PrivateUntilExit
<1> QED BY <1>1, <1>2, <1>3 DEF PInv, PagingInv

\* Nachos ends or a step changes nothing.
LEMMA EndKeeps ==
  ASSUME PInv, NEW how \in {"ended", "failed ASSERT"}, EndNachos(how) \/ UNCHANGED vars
  PROVE  PInv'
<1> USE DEF EndNachos, vars
<1>1. TypeOK'
  BY DEF PInv, PagingInv, TypeOK
<1>2. IPTAccurate' /\ SwapFilesExact'
  BY DEF PInv, PagingInv, IPTAccurate, SwapFilesExact
<1>3. FramesKnown' /\ Untouched' /\ PrivateUntilExit'
  <2>1. /\ ended' = ended /\ alive' = alive /\ pageTable' = pageTable /\ bitMap' = bitMap
        /\ IPT' = IPT /\ IPT_VP' = IPT_VP /\ mainMemory' = mainMemory /\ expected' = expected
    OBVIOUS
  <2>2. FramesKnown'
    BY <2>1 DEF PInv, FramesKnown
  <2>3. Untouched'
    BY <2>1 DEF PInv, Untouched
  <2>4. PrivateUntilExit'
    BY <2>1 DEF PInv, PrivateUntilExit
  <2> QED BY <2>2, <2>3, <2>4
<1> QED BY <1>1, <1>2, <1>3 DEF PInv, PagingInv

\* A page is loaded into a frame whose bit was clear.
LEMMA LoadKeeps ==
  ASSUME PInv, NEW p \in alive, NEW v \in Pages(p), pageTable[p][v] = Invalid,
         NEW f \in Frames \ bitMap, Load(p, v, f)
  PROVE  PInv'
<1> USE PagingAssumption DEF Load
<1>0. p \in Processes /\ v \in Nat
  <2>1. p \in Processes /\ NumPages[p] \in Nat
    BY DEF PInv, PagingInv, TypeOK
  <2> QED BY <2>1 DEF Pages
<1>1. TypeOK'
  BY <1>0 DEF PInv, PagingInv, TypeOK
<1>2. \A q \in Processes : \A w \in Pages(q) :
        pageTable'[q][w] = IF q = p /\ w = v THEN f ELSE pageTable[q][w]
  BY <1>0 DEF PInv, PagingInv, TypeOK
<1>3. /\ \A g \in Frames : IPT'[g] = IF g = f THEN p ELSE IPT[g]
      /\ \A g \in Frames : IPT_VP'[g] = IF g = f THEN v ELSE IPT_VP[g]
      /\ \A g \in Frames : mainMemory'[g] = IF g = f THEN Image(p, v) ELSE mainMemory[g]
  BY DEF PInv, PagingInv, TypeOK
<1>4. IPTAccurate'
  <2> SUFFICES ASSUME NEW g \in bitMap \cup {f}
               PROVE  /\ IPT'[g] \in alive
                      /\ IPT_VP'[g] \in Pages(IPT'[g])
                      /\ pageTable'[IPT'[g]][IPT_VP'[g]] = g
    BY DEF IPTAccurate
  <2>1. CASE g = f
    BY <1>0, <1>2, <1>3, <2>1
  <2>2. CASE g \in bitMap
    <3>1. /\ g \in Frames /\ g # f
          /\ IPT[g] \in alive /\ IPT[g] \in Processes
          /\ IPT_VP[g] \in Pages(IPT[g])
          /\ pageTable[IPT[g]][IPT_VP[g]] = g
      BY <2>2 DEF PInv, PagingInv, TypeOK, IPTAccurate
    <3> QED BY <1>2, <1>3, <3>1
  <2> QED BY <2>1, <2>2
<1>5. SwapFilesExact'
  BY DEF PInv, PagingInv, SwapFilesExact
<1>6. FramesKnown'
  <2> SUFFICES ASSUME ended = {}, NEW q \in Processes, NEW w \in Pages(q),
                      pageTable'[q][w] # Invalid
               PROVE  /\ pageTable'[q][w] \in bitMap \cup {f}
                      /\ IPT'[pageTable'[q][w]] = q
                      /\ IPT_VP'[pageTable'[q][w]] = w
    BY DEF FramesKnown
  <2>1. CASE q = p /\ w = v
    BY <1>2, <1>3, <2>1
  <2>2. CASE ~(q = p /\ w = v)
    <3>1. /\ pageTable'[q][w] = pageTable[q][w]
          /\ pageTable[q][w] \in bitMap
          /\ IPT[pageTable[q][w]] = q /\ IPT_VP[pageTable[q][w]] = w
      BY <1>2, <2>2 DEF PInv, FramesKnown
    <3>2. pageTable[q][w] \in Frames /\ pageTable[q][w] # f
      BY <3>1 DEF PInv, PagingInv, TypeOK
    <3> QED BY <1>3, <3>1, <3>2
  <2> QED BY <2>1, <2>2
<1>7. Untouched'
  <2> SUFFICES ASSUME NEW q \in Processes, NEW w \in Pages(q), pageTable'[q][w] = Invalid
               PROVE  expected[q][w] = Image(q, w)
    BY DEF Untouched
  <2>1. pageTable[q][w] = Invalid
    BY <1>2
  <2> QED BY <2>1 DEF PInv, Untouched
<1>8. PrivateUntilExit'
  <2> SUFFICES ASSUME ended = {}, NEW q \in alive, NEW w \in Pages(q),
                      pageTable'[q][w] # Invalid
               PROVE  mainMemory'[pageTable'[q][w]] = expected[q][w]
    BY DEF PrivateUntilExit
  <2>0. q \in Processes
    BY DEF PInv, PagingInv, TypeOK
  <2>1. CASE q = p /\ w = v
    BY <1>2, <1>3, <2>0, <2>1 DEF PInv, Untouched
  <2>2. CASE ~(q = p /\ w = v)
    <3>1. pageTable'[q][w] = pageTable[q][w] /\ pageTable[q][w] \in bitMap
      BY <1>2, <2>0, <2>2 DEF PInv, FramesKnown
    <3>2. pageTable[q][w] \in Frames /\ pageTable[q][w] # f
      BY <3>1 DEF PInv, PagingInv, TypeOK
    <3>3. mainMemory[pageTable[q][w]] = expected[q][w]
      BY <3>1 DEF PInv, PrivateUntilExit
    <3> QED BY <1>3, <3>1, <3>2, <3>3
  <2> QED BY <2>1, <2>2
<1> QED BY <1>1, <1>4, <1>5, <1>6, <1>7, <1>8 DEF PInv, PagingInv

\* A store changes one frame, which no other page has until a process exits.
LEMMA WriteMemKeeps ==
  ASSUME PInv, NEW p \in Processes, NEW v \in Pages(p), WriteMem(p, v)
  PROVE  PInv'
<1> USE DEF WriteMem, Executes
<1> DEFINE page == [Image(p, v) EXCEPT !.value = expected[p][v].value + 1]
           f == pageTable[p][v]
<1>0. f \in Frames
  BY DEF PInv, PagingInv, TypeOK
<1>1. TypeOK'
  BY DEF PInv, PagingInv, TypeOK
<1>2. IPTAccurate' /\ SwapFilesExact'
  BY DEF PInv, PagingInv, IPTAccurate, SwapFilesExact
<1>3. \A q \in Processes : \A w \in Pages(q) :
        expected'[q][w] = IF q = p /\ w = v THEN page ELSE expected[q][w]
  BY DEF PInv, PagingInv, TypeOK
<1>4. FramesKnown' /\ Untouched'
  BY <1>3 DEF PInv, FramesKnown, Untouched
<1>5. PrivateUntilExit'
  <2> SUFFICES ASSUME ended = {}, NEW q \in alive, NEW w \in Pages(q),
                      pageTable[q][w] # Invalid
               PROVE  mainMemory'[pageTable[q][w]] = expected'[q][w]
    BY DEF PrivateUntilExit
  <2>0. q \in Processes /\ pageTable[q][w] \in Frames /\ DOMAIN mainMemory = Frames
    BY DEF PInv, PagingInv, TypeOK
  <2>1. CASE q = p /\ w = v
    BY <1>0, <1>3, <2>0, <2>1
  <2>2. CASE ~(q = p /\ w = v)
    <3>1. pageTable[q][w] # f
      BY <2>0, <2>2 DEF PInv, FramesKnown
    <3>2. mainMemory'[pageTable[q][w]] = mainMemory[pageTable[q][w]]
      BY <1>0, <2>0, <3>1
    <3> QED BY <1>3, <2>0, <2>2, <3>2 DEF PInv, PrivateUntilExit
  <2> QED BY <2>1, <2>2
<1> QED BY <1>1, <1>2, <1>4, <1>5 DEF PInv, PagingInv

-----------------------------------------------------------------------------
\* The invariant holds at every moment of every run of Nachos.
THEOREM PagingInvariant == Spec => []PInv
<1>1. ASSUME PInv, [Next]_vars PROVE PInv'
  <2> USE <1>1
  <2>1. ASSUME NEW p \in Processes, AddrSpace(p) PROVE PInv'
    BY <2>1, AddrSpaceKeeps
  <2>2. ASSUME NEW p \in Processes, Exit(p) \/ FatalException(p) PROVE PInv'
    BY <2>2, DeleteKeeps, EndKeeps DEF Exit, FatalException
  <2>3. ASSUME NEW p \in Processes, NEW v \in Pages(p), PageFault(p, v) PROVE PInv'
    <3>1. p \in alive /\ pageTable[p][v] = Invalid
      BY <2>3 DEF PageFault, Executes
    <3>2. CASE \E f \in 0..NumPhysPages :
                 Find(f) /\ IF p \in swapFiles THEN Load(p, v, f) ELSE EndNachos("ended")
      BY <3>1, <3>2, LoadKeeps, EndKeeps DEF Find
    <3>3. CASE EndNachos("ended") \/ UNCHANGED vars
      BY <3>3, EndKeeps
    <3> QED BY <2>3, <3>2, <3>3 DEF PageFault
  <2>4. ASSUME NEW p \in Processes, NEW v \in Pages(p), WriteMem(p, v) PROVE PInv'
    BY <2>4, WriteMemKeeps
  <2>5. CASE Stopped \/ UNCHANGED vars
    BY <2>5, EndKeeps DEF Stopped
  <2> QED BY <2>1, <2>2, <2>3, <2>4, <2>5 DEF Next
<1> QED BY <1>1, PInitInv, PTL DEF Spec

\* The inverted page table is right about every frame in use and swap files
\* live exactly as long as their processes, so the handler of page faults may
\* follow both (PageFaultException in ExceptionHandler).
THEOREM PagingSafe == Spec => []PagingInv
<1>1. PInv => PagingInv
  BY DEF PInv
<1> QED BY <1>1, PagingInvariant, PTL

\* Until the first process exits, every process finds in memory what it last
\* stored there (PageFaultException and Translate).
THEOREM MemoryPrivate == Spec => []PrivateUntilExit
<1>1. PInv => PrivateUntilExit
  BY DEF PInv
<1> QED BY <1>1, PagingInvariant, PTL

\* Until then no two pages share a frame: only ~AddrSpace, which clears the bits
\* of all frames, can make FramesExclusive false.
THEOREM SharingNeedsExit == Spec => [](ended = {} => FramesExclusive)
<1>1. PInv => (ended = {} => FramesExclusive)
  <2> SUFFICES ASSUME PInv, ended = {},
                      NEW p \in alive, NEW q \in alive, NEW v \in Pages(p), NEW w \in Pages(q),
                      pageTable[p][v] = pageTable[q][w], pageTable[p][v] # Invalid
               PROVE  p = q /\ v = w
    BY DEF FramesExclusive
  <2>1. p \in Processes /\ q \in Processes
    BY DEF PInv, PagingInv, TypeOK
  <2> QED BY <2>1 DEF PInv, FramesKnown
<1> QED BY <1>1, PagingInvariant, PTL

=============================================================================
