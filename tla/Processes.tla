------------------------------ MODULE Processes ------------------------------
(***************************************************************************)
(* User processes: the system calls Exec, Join, Exit, Yield and Halt       *)
(* (userprog/exception.cc) and the USER_PROGRAM parts of Thread::Finish    *)
(* and Scheduler::Run, on top of module Threads.                           *)
(*                                                                         *)
(* A thread here is a user process.  It executes user instructions with    *)
(* interrupts on, each followed by OneTick, so every system call is one    *)
(* step.  The build is userprog's: files are UNIX files, so no system call *)
(* waits for a device, and the timer is the only source of interrupts.     *)
(***************************************************************************)
EXTENDS Threads

VARIABLES
    parent,         \* Thread::parent, the process to wake in Finish
    isJoined,       \* Thread::isJoined
    ID,             \* Thread::ID
    activeThreads,  \* the global list of processes started by Exec
    threadID,       \* the global counter of IDs
    fresh,          \* processes that have not run processCreator yet
    machineRegs,    \* whose register values and page table the machine holds
    userRegisters   \* whose values Thread::userRegisters holds, per process

procVars == <<parent, isJoined, ID, activeThreads, threadID>>
cpuVars == <<machineRegs, userRegisters>>
pVars == <<vars, procVars, fresh, cpuVars>>

\* StartProcess has loaded the first program into the main thread, with ID 0.
PInit ==
    /\ Init
    /\ parent = [t \in Threads |-> NoThread]
    /\ isJoined = [t \in Threads |-> FALSE]
    /\ ID = [t \in Threads |-> 0]
    /\ activeThreads = <<>>
    /\ threadID = 1
    /\ fresh = {}
    /\ machineRegs = Main
    /\ userRegisters = [t \in Threads |-> NoThread]

\* currentThread executes user instructions.
InUser == InCode /\ currentThread \notin fresh

\* The process getID returns: the one with that ID on activeThreads, or NULL.
getID(toGet) ==
    LET found == {t \in Range(activeThreads) : ID[t] = toGet}
    IN  IF found = {} THEN NoThread ELSE CHOOSE t \in found : TRUE

-----------------------------------------------------------------------------
(* System calls                                                            *)

Exec(t) ==
    /\ InUser
    /\ Fork(t)
    /\ ID' = [ID EXCEPT ![t] = threadID]
    /\ activeThreads' = Append(activeThreads, t)
    /\ threadID' = threadID + 1
    /\ fresh' = fresh \cup {t}
    /\ UNCHANGED <<parent, isJoined, cpuVars>>

\* A user instruction, and a system call that changes nothing here: a failed
\* Exec, a Join of no process, Read and Write.  OneTick follows.
UserInstruction == InUser /\ Critical /\ UNCHANGED <<procVars, fresh, cpuVars>>

\* Mutant: Join returns at once.
JoinNoWait(id) ==
    /\ InUser
    /\ getID(id) # NoThread
    /\ parent' = [parent EXCEPT ![getID(id)] = currentThread]
    /\ isJoined' = [isJoined EXCEPT ![currentThread] = TRUE]
    /\ Critical
    /\ UNCHANGED <<ID, activeThreads, threadID, fresh, cpuVars>>

Join(id) ==
    /\ InUser
    /\ LET child == getID(id)
       IN  /\ child # NoThread
           /\ ~isJoined[currentThread]
           /\ parent' = [parent EXCEPT ![child] = currentThread]
    /\ isJoined' = [isJoined EXCEPT ![currentThread] = TRUE]
    /\ Block
    /\ UNCHANGED <<ID, activeThreads, threadID, fresh, cpuVars>>

\* Sleep has returned in Join: the process goes on with its next instruction.
JoinReturn ==
    /\ pc[currentThread] = "Woken"
    /\ Critical
    /\ UNCHANGED <<procVars, fresh, cpuVars>>

\* The list after Finish has gone around it once to drop t: the size is read
\* again on each turn, so when t is not the last element, the last one is not
\* reached and ends up in front.
WithoutThread(list, t) ==
    LET n == Len(list)
        k == CHOOSE k \in 1..n : list[k] = t
    IN  IF t \notin Range(list) THEN list
        ELSE IF k = n THEN SubSeq(list, 1, n - 1)
        ELSE <<list[n]>> \o SubSeq(list, 1, k - 1) \o SubSeq(list, k + 1, n - 1)

\* Mutant: the joined process is made ready twice, at both ends of the list.
WakeUpFromJoinTwice(p, st) ==
    /\ isJoined' = [isJoined EXCEPT ![p] = FALSE]
    /\ status' = [st EXCEPT ![p] = "READY"]
    /\ readyList' = <<p>> \o Append(readyList, p)

WakeUpFromJoin(p, st) ==
    /\ isJoined' = [isJoined EXCEPT ![p] = FALSE]
    /\ status' = [st EXCEPT ![p] = "READY"]
    /\ readyList' = <<p>> \o readyList

\* Mutant: a process with a joined parent forgets to wake it.
PFinishNoWake ==
    /\ threadToBeDestroyed' = currentThread
    /\ pc' = [pc EXCEPT ![currentThread] = "Finish"]
    /\ status' = [status EXCEPT ![currentThread] = "BLOCKED"]
    /\ activeThreads' = WithoutThread(activeThreads, currentThread)
    /\ UNCHANGED <<currentThread, yieldOnReturn, machineStatus, parent, ID, threadID,
                   fresh, cpuVars, isJoined, readyList>>

\* Thread::Finish in the USER_PROGRAM build.
PFinish ==
    /\ threadToBeDestroyed' = currentThread
    /\ pc' = [pc EXCEPT ![currentThread] = "Finish"]
    /\ LET blocked == [status EXCEPT ![currentThread] = "BLOCKED"]
       IN  IF parent[currentThread] # NoThread
           THEN WakeUpFromJoin(parent[currentThread], blocked)
           ELSE status' = blocked /\ UNCHANGED <<isJoined, readyList>>
    /\ activeThreads' = WithoutThread(activeThreads, currentThread)
    /\ UNCHANGED <<currentThread, yieldOnReturn, machineStatus, parent, ID, threadID,
                   fresh, cpuVars>>

\* Exit, and every exception that ends a process; the address space goes too
\* (Paging).
Exit == InUser /\ PFinish

\* Halt, and Abort: an exception in "main" ends Nachos if the comparison of
\* its name with the string literal succeeds.
HaltCall ==
    /\ InUser
    /\ machineStatus' = "Halted"
    /\ UNCHANGED <<status, pc, readyList, currentThread, threadToBeDestroyed,
                   yieldOnReturn, procVars, fresh, cpuVars>>

-----------------------------------------------------------------------------
(* Starting and switching processes                                        *)

\* A process gets the processor for the first time, after ThreadRoot.
processCreator ==
    /\ InCode
    /\ currentThread \in fresh
    /\ fresh' = fresh \ {currentThread}
    /\ machineRegs' = currentThread
    /\ status' = [t \in Threads |-> IF t = threadToBeDestroyed THEN "DELETED" ELSE status[t]]
    /\ threadToBeDestroyed' = NoThread
    /\ UNCHANGED <<pc, readyList, currentThread, yieldOnReturn, machineStatus,
                   procVars, userRegisters>>

\* Mutant: the registers of the process that loses the processor are lost.
SwitchStateNoSave ==
    IF currentThread' = currentThread THEN UNCHANGED cpuVars
    ELSE /\ machineRegs' = IF pc[currentThread'] = "ThreadRoot"
                           THEN machineRegs ELSE userRegisters[currentThread']
         /\ UNCHANGED userRegisters

\* What Scheduler::Run does around SWITCH: save the registers of the old
\* process; the tail, which a new process does not execute, restores those of
\* the next one and its page table.
SwitchState ==
    IF currentThread' = currentThread THEN UNCHANGED cpuVars
    ELSE /\ userRegisters' = [userRegisters EXCEPT ![currentThread] = machineRegs]
         /\ machineRegs' = IF pc[currentThread'] = "ThreadRoot"
                           THEN machineRegs ELSE userRegisters[currentThread']

YieldCall == InUser /\ Yield /\ SwitchState /\ UNCHANGED <<procVars, fresh>>

EndOfTick == OneTickReturn /\ SwitchState /\ UNCHANGED <<procVars, fresh>>

PDispatch == Dispatch /\ SwitchState /\ UNCHANGED <<procVars, fresh>>

Tick == TimerTick /\ UNCHANGED <<procVars, fresh, cpuVars>>

\* Idle finds no interrupt pending, or only the timer's.
PHalt == Halt /\ UNCHANGED <<procVars, fresh, cpuVars>>

PNext ==
    \/ \E t \in Threads : Exec(t) \/ Join(ID[t])
    \/ UserInstruction \/ JoinReturn \/ Exit \/ HaltCall \/ YieldCall
    \/ processCreator \/ EndOfTick \/ PDispatch \/ Tick \/ PHalt
    \/ Halted /\ UNCHANGED <<procVars, fresh, cpuVars>>

PSpec == PInit /\ [][PNext]_pVars

\* The processor keeps executing and the timer keeps firing (see Threads);
\* nothing is assumed of what programs do.
PFairSpec == PSpec /\ WF_pVars(PNext) /\ SF_pVars(Tick)

-----------------------------------------------------------------------------
(* Properties                                                              *)

\* The processes that have been started and have not finished.
Live == {t \in Threads : status[t] # "JUST_CREATED" /\ pc[t] # "Finish"}

\* The processes asleep in Join.
Joining == {t \in Threads : status[t] = "BLOCKED" /\ pc[t] = "Sleep"}

PTypeOK ==
    /\ parent \in [Threads -> Threads \cup {NoThread}]
    /\ isJoined \in [Threads -> BOOLEAN]
    /\ ID \in [Threads -> Nat]
    /\ activeThreads \in Seq(Threads)
    /\ threadID \in Nat
    /\ fresh \subseteq Threads
    /\ machineRegs \in Threads
    /\ userRegisters \in [Threads -> Threads \cup {NoThread}]

\* Finish wakes a process that is asleep in Join, never one that runs, is
\* ready or has been deleted; and no sleeping process can be woken twice.
ParentAsleep ==
    /\ \A t \in Live : parent[t] # NoThread => parent[t] \in Joining
    /\ \A t, u \in Live : parent[t] = parent[u] /\ parent[t] # NoThread => t = u

\* activeThreads holds exactly the live processes that Exec started, once
\* each and under different IDs, so Join finds the process it was asked for
\* (Exec, getID, and the loop in Finish).
ActiveExact ==
    /\ Range(activeThreads) = Live \ {Main}
    /\ \A i, j \in 1..Len(activeThreads) : ID[activeThreads[i]] = ID[activeThreads[j]] => i = j
    /\ \A t \in Range(activeThreads) : ID[t] \in 1..(threadID - 1)

\* The process layer keeps the thread system's invariant, although it puts
\* processes on the ready list in its own way (WakeUpFromJoin) and deletes
\* carcasses in one more place (processCreator).  No carcass is forgotten in
\* this build, because a new process deletes the one it finds before its first
\* instruction can switch.  The list of active threads stays exact.
ProcessesKeepScheduler == PTypeOK /\ SchedulerInv /\ NoCarcassForgotten /\ ActiveExact

\* User instructions execute with the registers and the page table of their
\* own process, however processes were interrupted and started in between.
OwnRegisters == InUser => machineRegs = currentThread

\* A process asleep in Join gets the processor again when its child exits.
JoinReturns ==
    \A t, p \in Threads :
        (currentThread = t /\ pc[t] = "Finish" /\ parent[t] = p) ~> currentThread = p

\* thread.cc, Sleep: eventually, some thread will wake this thread up.  For a
\* process asleep in Join that is a live process which has it as its parent.
JoinerHasWaker == \A p \in Joining : \E t \in Live : parent[t] = p

=============================================================================
