------------------------------ MODULE SynchDisk ------------------------------
(***************************************************************************)
(* The synchronous disk interface (filesys/synchdisk.cc) used by several   *)
(* threads: semaphore and threads from module Semaphores, the disk reduced *)
(* to its active flag and its completion interrupt (machine/disk.cc).      *)
(*                                                                         *)
(* ReadSector and WriteSector acquire a lock, make a request and wait for  *)
(* its interrupt in P.  The Lock of threads/synch.cc is a dummy: Acquire   *)
(* and Release do nothing, so neither appears here.  A request and the     *)
(* first test in P run without an interrupt in between, in one step.       *)
(***************************************************************************)
EXTENDS Semaphores

CONSTANTS
    DiskSem  \* SynchDisk::semaphore, created with value 0

ASSUME SynchDiskAssumption ==
    /\ Sems = {DiskSem}
    /\ InitialValue[DiskSem] = 0
    /\ MaxValue # 0

VARIABLES
    clients,    \* the threads that use the disk, chosen once
    active,     \* Disk::active
    requesting, \* the threads inside ReadSector or WriteSector
    aborted     \* TRUE once an ASSERT has failed

diskVars == <<clients, active, requesting, aborted>>
dVars == <<allVars, diskVars>>

DInit ==
    /\ SInit
    /\ clients \in SUBSET Threads
    /\ active = FALSE
    /\ requesting = {}
    /\ aborted = FALSE

-----------------------------------------------------------------------------
\* Mutant: the thread returns without waiting for the interrupt.
TransferNoWait ==
    /\ InCode
    /\ currentThread \in clients
    /\ \/ active /\ aborted' = TRUE /\ UNCHANGED <<allVars, clients, active, requesting>>
       \/ /\ ~active
          /\ active' = TRUE
          /\ io' = [io EXCEPT ![DiskSem] = @ + 1]
          /\ Critical
          /\ UNCHANGED <<clients, requesting, aborted, value, queue, waitsFor>>

\* ReadSector and WriteSector up to the first test in P; the request asserts
\* that the disk is not active.
Transfer ==
    /\ InCode
    /\ currentThread \in clients
    /\ \/ active /\ aborted' = TRUE /\ UNCHANGED <<allVars, clients, active, requesting>>
       \/ /\ ~active
          /\ active' = TRUE
          /\ io' = [io EXCEPT ![DiskSem] = @ + 1]
          /\ PLoop(DiskSem)
          /\ requesting' = IF waitsFor'[currentThread] = DiskSem
                           THEN requesting \cup {currentThread} ELSE requesting
          /\ UNCHANGED <<clients, aborted>>

\* The thread gets the processor back inside P and, if it can, returns.
TransferAgain ==
    /\ PAgain(DiskSem)
    /\ requesting' = IF waitsFor'[currentThread] = NoSem
                     THEN requesting \ {currentThread} ELSE requesting
    /\ UNCHANGED <<clients, active, aborted>>

\* Disk::HandleInterrupt, before it calls RequestDone and so V.
HandleInterrupt == active' = FALSE

\* Mutant: RequestDone does not call V.
DiskInterruptNoV ==
    /\ InHandlers
    /\ io[DiskSem] > 0
    /\ io' = [io EXCEPT ![DiskSem] = @ - 1]
    /\ HandleInterrupt
    /\ UNCHANGED <<vars, value, queue, waitsFor, clients, requesting, aborted>>

DiskInterrupt ==
    /\ CompletionInterrupt(DiskSem)
    /\ HandleInterrupt
    /\ UNCHANGED <<clients, requesting, aborted>>

\* Interrupt::Idle calls the disk's interrupt, or the timer's before it.
DIdle ==
    /\ SIdle
    /\ IF io' = io THEN UNCHANGED active ELSE HandleInterrupt
    /\ UNCHANGED <<clients, requesting, aborted>>

\* The thread system goes on without touching the disk.
ThreadStep ==
    \/ (\E t \in Threads : Fork(t)) /\ UNCHANGED semVars
    \/ (Yield \/ Finish \/ Dispatch \/ IdleReturn \/ OneTickReturn) /\ UNCHANGED semVars
    \/ TimerInterrupt \/ SHalt \/ (Halted /\ UNCHANGED semVars)

\* ASSERT calls Abort, which ends the program.
Aborted == aborted /\ UNCHANGED dVars

DNext ==
    \/ ~aborted /\ Transfer
    \/ ~aborted /\ TransferAgain
    \/ ~aborted /\ DiskInterrupt
    \/ ~aborted /\ DIdle
    \/ ~aborted /\ ThreadStep /\ UNCHANGED diskVars
    \/ Aborted

DSpec == DInit /\ [][DNext]_dVars

\* As in module Semaphores.
DFairSpec ==
    /\ DSpec
    /\ WF_dVars(DNext)
    /\ SF_dVars(TimerInterrupt /\ UNCHANGED diskVars)
    /\ SF_dVars(DiskInterrupt \/ (DIdle /\ io' # io))

-----------------------------------------------------------------------------
(* Properties                                                              *)

\* Types, and the disk does one thing at a time: it is active exactly while
\* its one completion interrupt is pending (ReadRequest, HandleInterrupt).
DTypeOK ==
    /\ STypeOK
    /\ requesting \subseteq clients
    /\ aborted \in BOOLEAN
    /\ io[DiskSem] = IF active THEN 1 ELSE 0

\* The threads inside ReadSector or WriteSector are as many as the requests in
\* progress and the completions not consumed: none sleeps for an interrupt
\* that will not come, and none is let through by a completion too many.
RequestsAccounted ==
    /\ DTypeOK
    /\ Cardinality(requesting) = io[DiskSem] + value[DiskSem]

\* One thread alone can use the disk, whatever the scheduler does: it returns
\* from each operation only after its interrupt, so the next request finds the
\* disk idle (ReadSector, RequestDone; ASSERT(!active) in ReadRequest).
OneClientSafe == Cardinality(clients) = 1 => ~aborted

\* And each of its operations returns.
TransferCompletes ==
    \A t \in Threads : (clients = {t} /\ t \in requesting) ~> t \notin requesting

=============================================================================
