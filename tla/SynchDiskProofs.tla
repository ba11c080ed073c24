--------------------------- MODULE SynchDiskProofs ---------------------------
(***************************************************************************)
(* The synchronous disk for any finite set of threads: requests, pending   *)
(* interrupts and waiting threads match, and one client never makes the    *)
(* disk's assertion fail.                                                  *)
(***************************************************************************)
EXTENDS SynchDisk, SemaphoresProofs

\* At most one completion is pending or unconsumed, and exactly then one thread
\* is inside ReadSector or WriteSector: a second thread that finds the disk
\* idle takes the first one's completion.
OneInside ==
    \/ /\ io[DiskSem] = 0 /\ value[DiskSem] = 0
       /\ requesting = {}
    \/ /\ \/ io[DiskSem] = 1 /\ value[DiskSem] = 0
          \/ io[DiskSem] = 0 /\ value[DiskSem] = 1
       /\ \E t \in clients : requesting = {t}

\* The threads inside are those that wait in P.
InsideWaits == requesting = {t \in Threads : waitsFor[t] = DiskSem}

\* The inductive invariant.
DInv ==
    /\ SInv
    /\ active \in BOOLEAN /\ io[DiskSem] = (IF active THEN 1 ELSE 0)
    /\ aborted \in BOOLEAN
    /\ clients \subseteq Threads
    /\ OneInside
    /\ InsideWaits
    /\ OneClientSafe

\* Nobody uses the disk at first.
LEMMA DInitInv == DInit => DInv
<1> SUFFICES ASSUME DInit PROVE DInv
  OBVIOUS
<1>1. SInv
  BY SInitInv DEF DInit
<1>2. io[DiskSem] = 0 /\ value[DiskSem] = 0 /\ DiskSem # NoSem
  BY SynchDiskAssumption, SemsAssumption DEF DInit, SInit
<1>3. InsideWaits
  BY <1>2 DEF DInit, SInit, InsideWaits
<1> QED BY <1>1, <1>2, <1>3 DEF DInit, DInv, OneInside, OneClientSafe

\* The types that the steps below need.
LEMMA DTypes ==
  ASSUME DInv
  PROVE  /\ Sems = {DiskSem} /\ DiskSem # NoSem
         /\ currentThread \in Threads
         /\ waitsFor \in [Threads -> Sems \cup {NoSem}]
         /\ value \in [Sems -> 0..MaxValue] /\ io \in [Sems -> 0..MaxValue]
         /\ MaxValue \in Nat \ {0}
  BY SynchDiskAssumption, SemsAssumption DEF DInv, SInv, SchedulerInv, TypeOK, STypeOK

\* A thread that runs its own code is not inside ReadSector or WriteSector.
LEMMA CodeIsOutside ==
  ASSUME DInv, InCode
  PROVE  currentThread \notin requesting /\ waitsFor[currentThread] = NoSem
<1>1. pc[currentThread] = "code" /\ currentThread \in Threads
  BY DTypes DEF InCode
<1>2. waitsFor[currentThread] = NoSem
  BY <1>1, NotWaiting DEF DInv
<1> QED BY <1>2, DTypes DEF DInv, InsideWaits

-----------------------------------------------------------------------------
\* ReadSector and WriteSector, up to the first test in P.
LEMMA TransferKeeps ==
  ASSUME DInv, ~aborted, Transfer
  PROVE  DInv'
<1> DEFINE c == currentThread
<1>0. /\ InCode /\ c \in clients /\ c \in Threads /\ c \notin requesting
      /\ waitsFor[c] = NoSem
  BY DTypes, CodeIsOutside DEF Transfer
<1>1. CASE active /\ aborted' = TRUE /\ UNCHANGED <<allVars, clients, active, requesting>>
  <2>1. SInv'
    BY <1>1, SNextKeepsInv DEF DInv, allVars
  <2>2. \E t \in clients : t # c
    BY <1>0, <1>1 DEF DInv, OneInside
  <2>3. Cardinality(clients) # 1
    <3> SUFFICES ASSUME Cardinality(clients) = 1 PROVE FALSE
      OBVIOUS
    <3>1. IsFiniteSet(clients)
      BY FS_Subset, SemsAssumption DEF DInv
    <3>2. \E x : clients = {x}
      BY <3>1, FS_Singleton
    <3> QED BY <1>0, <2>2, <3>2
  <2> QED BY <1>1, <2>1, <2>3
         DEF DInv, OneInside, InsideWaits, OneClientSafe, allVars, semVars
<1>2. CASE ~active /\ Transfer /\ aborted' = aborted
  <2>0. /\ io[DiskSem] = 0 /\ active' = TRUE /\ UNCHANGED <<clients, aborted>>
        /\ io' = [io EXCEPT ![DiskSem] = 1] /\ PLoop(DiskSem)
        /\ requesting' = IF waitsFor'[c] = DiskSem THEN requesting \cup {c} ELSE requesting
    BY <1>2, DTypes DEF Transfer, DInv
  <2>1. io' \in [Sems -> 0..MaxValue] /\ io'[DiskSem] = 1
    BY <2>0, DTypes
  <2>2. CASE value[DiskSem] = 0
    <3>1. /\ value' = value /\ waitsFor' = [waitsFor EXCEPT ![c] = DiskSem] /\ Block
          /\ requesting = {}
      BY <2>0, <2>2 DEF PLoop, DInv, OneInside
    <3>2. waitsFor'[c] = DiskSem
      BY <1>0, <3>1, DTypes
    <3>3. requesting' = {c}
      BY <2>0, <3>1, <3>2
    <3>4. InsideWaits'
      BY <1>0, <3>1, <3>3, DTypes DEF DInv, InsideWaits
    <3>5. OneInside'
      BY <1>0, <2>0, <2>1, <2>2, <3>1, <3>3 DEF OneInside
    <3>6. SInv'
      <4>1. \A r \in Sems : value'[r] + io'[r] <= MaxValue
        BY <2>1, <2>2, <3>1, DTypes
      <4>2. SchedulerInv'
        BY <3>1, NextKeepsSchedulerInv DEF DInv, SInv, Next
      <4> QED BY <1>0, <2>0, <2>1, <4>1, <4>2, DTypes, PKeepsInv DEF DInv, SInv, InCode
    <3> QED BY <2>0, <2>1, <3>4, <3>5, <3>6 DEF DInv, OneClientSafe
  <2>3. CASE value[DiskSem] # 0
    <3>1. /\ value' = [value EXCEPT ![DiskSem] = 0] /\ Critical
          /\ waitsFor' = [waitsFor EXCEPT ![c] = NoSem]
          /\ \E t \in clients : requesting = {t}
      BY <2>0, <2>3, DTypes DEF PLoop, DInv, OneInside
    <3>2. waitsFor' = waitsFor /\ value'[DiskSem] = 0
      BY <1>0, <3>1, DTypes
    <3>3. requesting' = requesting
      BY <1>0, <2>0, <3>2, DTypes
    <3>4. InsideWaits'
      BY <3>2, <3>3 DEF DInv, InsideWaits
    <3>5. OneInside'
      BY <2>0, <2>1, <3>1, <3>2, <3>3 DEF OneInside
    <3>6. SInv'
      <4>1. \A r \in Sems : value'[r] + io'[r] <= MaxValue
        BY <2>1, <3>2, DTypes
      <4>2. SchedulerInv'
        BY <3>1, NextKeepsSchedulerInv DEF DInv, SInv, Next
      <4> QED BY <1>0, <2>0, <2>1, <4>1, <4>2, DTypes, PKeepsInv DEF DInv, SInv, InCode
    <3> QED BY <2>0, <2>1, <3>4, <3>5, <3>6 DEF DInv, OneClientSafe
  <2> QED BY <2>2, <2>3
<1> QED BY <1>1, <1>2 DEF Transfer

\* The thread inside tests value again.
LEMMA TransferAgainKeeps ==
  ASSUME DInv, TransferAgain
  PROVE  DInv'
<1> DEFINE c == currentThread
<1>1. SInv'
  BY DTypes, SNextKeepsInv DEF TransferAgain, SNext, DInv
<1>2. /\ PLoop(DiskSem) /\ io' = io /\ waitsFor[c] = DiskSem /\ c \in Threads
      /\ requesting' = IF waitsFor'[c] = NoSem THEN requesting \ {c} ELSE requesting
      /\ UNCHANGED <<clients, active, aborted>>
  BY DTypes DEF TransferAgain, PAgain
<1>3. requesting = {c} /\ c \in clients
  BY <1>2 DEF DInv, OneInside, InsideWaits
<1>4. CASE value[DiskSem] = 0
  <2>1. value' = value /\ waitsFor' = waitsFor
    BY <1>2, <1>4, DTypes DEF PLoop
  <2>2. requesting' = requesting
    BY <1>2, <2>1, DTypes
  <2> QED BY <1>1, <1>2, <2>1, <2>2 DEF DInv, OneInside, InsideWaits, OneClientSafe
<1>5. CASE value[DiskSem] # 0
  <2>1. /\ value' = [value EXCEPT ![DiskSem] = 0] /\ io[DiskSem] = 0
        /\ waitsFor' = [waitsFor EXCEPT ![c] = NoSem]
    BY <1>2, <1>5, DTypes DEF PLoop, DInv, OneInside
  <2>2. value'[DiskSem] = 0 /\ waitsFor'[c] = NoSem
    BY <1>2, <2>1, DTypes
  <2>3. requesting' = {}
    BY <1>2, <1>3, <2>2
  <2>4. InsideWaits'
    BY <1>2, <1>3, <2>1, <2>3, DTypes DEF DInv, InsideWaits
  <2> QED BY <1>1, <1>2, <2>1, <2>2, <2>3, <2>4 DEF DInv, OneInside, OneClientSafe
<1> QED BY <1>4, <1>5

\* The interrupt: the pending completion becomes a unit of value.
LEMMA DiskInterruptKeeps ==
  ASSUME DInv, SInv', HandlerV(DiskSem), HandleInterrupt,
         UNCHANGED <<clients, requesting, aborted>>
  PROVE  DInv'
<1>1. /\ io[DiskSem] = 1 /\ value[DiskSem] = 0 /\ waitsFor' = waitsFor
      /\ io' = [io EXCEPT ![DiskSem] = 0] /\ value' = [value EXCEPT ![DiskSem] = 1]
      /\ active' = FALSE /\ \E t \in clients : requesting = {t}
  <2>1. /\ io[DiskSem] > 0 /\ io' = [io EXCEPT ![DiskSem] = io[DiskSem] - 1]
        /\ value' = [value EXCEPT ![DiskSem] = value[DiskSem] + 1]
        /\ waitsFor' = waitsFor /\ active' = FALSE
    BY DEF HandlerV, VEffect, HandleInterrupt
  <2>2. io[DiskSem] = 1 /\ value[DiskSem] = 0 /\ \E t \in clients : requesting = {t}
    BY <2>1 DEF DInv, OneInside
  <2> QED BY <2>1, <2>2
<1>2. io'[DiskSem] = 0 /\ value'[DiskSem] = 1
  BY <1>1, DTypes
<1> QED BY <1>1, <1>2 DEF DInv, OneInside, InsideWaits, OneClientSafe

\* Every step of the threads, the disk and its interface preserves the
\* invariant.
LEMMA DNextKeeps == DInv /\ [DNext]_dVars => DInv'
<1> SUFFICES ASSUME DInv, [DNext]_dVars PROVE DInv'
  OBVIOUS
<1>1. CASE ~aborted /\ Transfer
  BY <1>1, TransferKeeps
<1>2. CASE TransferAgain
  BY <1>2, TransferAgainKeeps
<1>3. CASE DiskInterrupt
  <2>1. SInv'
    BY <1>3, DTypes, SNextKeepsInv DEF DiskInterrupt, SNext, DInv
  <2> QED BY <1>3, <2>1, DiskInterruptKeeps DEF DiskInterrupt, CompletionInterrupt
<1>4. CASE DIdle
  <2>1. SInv'
    BY <1>4, SNextKeepsInv DEF DIdle, SNext, DInv
  <2>2. CASE HandlerV(DiskSem)
    <3>1. io' # io
      BY <2>2, DTypes DEF HandlerV
    <3> QED BY <1>4, <2>1, <2>2, <3>1, DiskInterruptKeeps DEF DIdle
  <2>3. CASE UNCHANGED semVars
    BY <1>4, <2>1, <2>3 DEF DIdle, semVars, DInv, OneInside, InsideWaits, OneClientSafe
  <2> QED BY <1>4, <2>2, <2>3, DTypes DEF DIdle, SIdle
<1>5. CASE (ThreadStep /\ UNCHANGED diskVars) \/ UNCHANGED dVars
  <2>1. SInv'
    BY <1>5, SNextKeepsInv DEF ThreadStep, SNext, DInv, dVars
  <2>2. UNCHANGED <<semVars, diskVars>>
    BY <1>5 DEF ThreadStep, TimerInterrupt, SHalt, dVars, allVars
  <2> QED BY <2>1, <2>2 DEF semVars, diskVars, DInv, OneInside, InsideWaits, OneClientSafe
<1> QED BY <1>1, <1>2, <1>3, <1>4, <1>5 DEF DNext, Aborted

-----------------------------------------------------------------------------
(* The results.                                                            *)

\* The inductive invariant holds in every reachable state.
THEOREM DiskInvariant == DSpec => []DInv
<1> QED BY DInitInv, DNextKeeps, PTL DEF DSpec

\* The threads inside ReadSector and WriteSector are as many as the requests in
\* progress and the completions not consumed.
THEOREM RequestsSafe == DSpec => []RequestsAccounted
<1>1. DInv => RequestsAccounted
  <2> SUFFICES ASSUME DInv PROVE RequestsAccounted
    OBVIOUS
  <2>1. DTypeOK
    BY DEF DInv, SInv, OneInside, DTypeOK
  <2>2. Cardinality(requesting) = io[DiskSem] + value[DiskSem]
    <3>1. CASE requesting = {}
      BY <3>1, FS_EmptySet DEF DInv, OneInside
    <3>2. ASSUME NEW t \in clients, requesting = {t} PROVE Cardinality(requesting) = 1
      BY <3>2, FS_Singleton
    <3> QED BY <3>1, <3>2 DEF DInv, OneInside
  <2> QED BY <2>1, <2>2 DEF RequestsAccounted
<1> QED BY <1>1, DiskInvariant, PTL

\* A single client of the disk never meets ASSERT(!active) in ReadRequest.
THEOREM OneClientNeverAborts == DSpec => []OneClientSafe
<1>1. DInv => OneClientSafe
  BY DEF DInv
<1> QED BY <1>1, DiskInvariant, PTL

=============================================================================
