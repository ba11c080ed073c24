------------------------------- MODULE Threads -------------------------------
(***************************************************************************)
(* Kernel threads and their scheduler (threads/thread.cc,                  *)
(* threads/scheduler.cc), with the part of the interrupt simulation that   *)
(* decides when a thread may lose the processor (machine/interrupt.cc,     *)
(* threads/system.cc).                                                     *)
(*                                                                         *)
(* Nachos runs on one simulated processor.  Only currentThread executes,   *)
(* and it can be interrupted only inside Interrupt::OneTick, which runs    *)
(* whenever a critical section ends by re-enabling interrupts, and inside  *)
(* Interrupt::Idle.  A step of this module is one such critical section,   *)
(* one interrupt handler, or one context switch.                           *)
(*                                                                         *)
(* What threads block on is left to the clients: Block and Wake stand for  *)
(* any use of Thread::Sleep and Scheduler::ReadyToRun made with interrupts *)
(* off.  Module Semaphores is shown to use them as this module requires.   *)
(***************************************************************************)
EXTENDS Naturals, Sequences, Functions

CONSTANTS
    Threads,     \* the Thread objects the program may create
    Main,        \* the thread Nachos boots in (system.cc, "main")
    NoThread,    \* the NULL pointer
    RandomYield  \* TRUE iff Nachos runs with -rs, which starts the Timer

ASSUME ThreadsAssumption ==
    /\ Main \in Threads
    /\ NoThread \notin Threads
    /\ RandomYield \in BOOLEAN

VARIABLES
    status,               \* Thread::status; "DELETED" once ~Thread has run
    pc,                   \* where each thread is, see PCs
    readyList,            \* Scheduler::readyList
    currentThread,        \* the global of system.cc
    threadToBeDestroyed,  \* the global of system.cc
    yieldOnReturn,        \* Interrupt::yieldOnReturn
    machineStatus         \* Interrupt::status; "Halted" after Halt

vars == <<status, pc, readyList, currentThread, threadToBeDestroyed,
          yieldOnReturn, machineStatus>>

ThreadStatus == {"JUST_CREATED", "RUNNING", "READY", "BLOCKED", "DELETED"}

(***************************************************************************)
(* "none"        not forked yet                                            *)
(* "ThreadRoot"  forked, has never had the processor                       *)
(* "code"        executing the forked procedure, interrupts on             *)
(* "OneTick"     in Interrupt::OneTick, called as interrupts come back on  *)
(* "Yield"       suspended in Scheduler::Run, called by Yield              *)
(* "Sleep"       in Sleep, looking for a successor or suspended in Run     *)
(* "Woken"       returned from Sleep, interrupts still off                 *)
(* "Finish"      in the Sleep called by Finish, which never returns        *)
(***************************************************************************)
PCs == {"none", "ThreadRoot", "code", "OneTick", "Yield", "Sleep", "Woken",
        "Finish"}

Init ==
    /\ status = [t \in Threads |-> IF t = Main THEN "RUNNING" ELSE "JUST_CREATED"]
    /\ pc = [t \in Threads |-> IF t = Main THEN "OneTick" ELSE "none"]
    /\ readyList = <<>>
    /\ currentThread = Main
    /\ threadToBeDestroyed = NoThread
    /\ yieldOnReturn = FALSE
    /\ machineStatus = "SystemMode"

-----------------------------------------------------------------------------
(* Scheduler                                                               *)

\* Mutant: the thread is made READY but never queued.
ReadyToRunForgetsList(t) ==
    /\ status' = [status EXCEPT ![t] = "READY"]
    /\ readyList' = readyList

ReadyToRun(t) ==
    /\ status' = [status EXCEPT ![t] = "READY"]
    /\ readyList' = Append(readyList, t)

\* Where Run's SWITCH lands in the next thread.  A new thread starts in
\* ThreadRoot, which enables interrupts; a thread that called Yield restores
\* the level it had, which was on; either way OneTick runs.  A thread that
\* called Sleep continues in the code that called it.
ResumePoint(next) == IF pc[next] = "Sleep" THEN "Woken" ELSE "OneTick"

\* Scheduler::Run: oldStatus is the threads' status after the caller took
\* currentThread out of RUNNING.  Only a thread that was itself suspended in
\* Run executes the tail of Run, where the carcass is deleted.
Run(next, oldStatus, carcass) ==
    LET inRun == pc[next] # "ThreadRoot"
    IN  /\ currentThread' = next
        /\ status' = [t \in Threads |->
                        IF inRun /\ t = carcass THEN "DELETED"
                        ELSE IF t = next THEN "RUNNING" ELSE oldStatus[t]]
        /\ threadToBeDestroyed' = IF inRun THEN NoThread ELSE carcass

-----------------------------------------------------------------------------
(* Thread                                                                  *)

\* currentThread executes code of its own, with interrupts on.
InCode == machineStatus = "SystemMode" /\ pc[currentThread] = "code"

\* currentThread is in a critical section of a client of this module, either
\* because it just disabled interrupts or because Sleep has returned.
InClient == machineStatus = "SystemMode" /\ pc[currentThread] \in {"code", "Woken"}

Fork(t) ==
    /\ InCode
    /\ status[t] = "JUST_CREATED"
    /\ ReadyToRun(t)
    /\ pc' = [pc EXCEPT ![t] = "ThreadRoot", ![currentThread] = "OneTick"]
    /\ UNCHANGED <<currentThread, threadToBeDestroyed, yieldOnReturn, machineStatus>>

\* Mutant: the thread that yields goes back to the front of the ready list.
YieldBodyToFront ==
    \/ /\ readyList = <<>>
       /\ pc' = [pc EXCEPT ![currentThread] = "OneTick"]
       /\ UNCHANGED <<status, readyList, currentThread, threadToBeDestroyed>>
    \/ /\ readyList # <<>>
       /\ LET next == Head(readyList)
          IN  /\ readyList' = <<currentThread>> \o Tail(readyList)
              /\ pc' = [pc EXCEPT ![currentThread] = "Yield", ![next] = ResumePoint(next)]
              /\ Run(next, [status EXCEPT ![currentThread] = "READY"], threadToBeDestroyed)

\* Thread::Yield up to the point where the thread is switched out, or where
\* it returns because no other thread is ready.
YieldBody ==
    \/ /\ readyList = <<>>
       /\ pc' = [pc EXCEPT ![currentThread] = "OneTick"]
       /\ UNCHANGED <<status, readyList, currentThread, threadToBeDestroyed>>
    \/ /\ readyList # <<>>
       /\ LET next == Head(readyList)
          IN  /\ readyList' = Append(Tail(readyList), currentThread)
              /\ pc' = [pc EXCEPT ![currentThread] = "Yield", ![next] = ResumePoint(next)]
              /\ Run(next, [status EXCEPT ![currentThread] = "READY"], threadToBeDestroyed)

Yield ==
    /\ InCode
    /\ YieldBody
    /\ UNCHANGED <<yieldOnReturn, machineStatus>>

\* A critical section of a client that wakes nobody and does not block.
Critical ==
    /\ InClient
    /\ pc' = [pc EXCEPT ![currentThread] = "OneTick"]
    /\ UNCHANGED <<status, readyList, currentThread, threadToBeDestroyed,
                   yieldOnReturn, machineStatus>>

\* A critical section of a client that ends in Thread::Sleep.
Block ==
    /\ InClient
    /\ status' = [status EXCEPT ![currentThread] = "BLOCKED"]
    /\ pc' = [pc EXCEPT ![currentThread] = "Sleep"]
    /\ UNCHANGED <<readyList, currentThread, threadToBeDestroyed, yieldOnReturn,
                   machineStatus>>

\* What a client must know of a thread before it makes it ready.
Wakeable(t) == status[t] = "BLOCKED" /\ pc[t] = "Sleep"

\* A critical section of a client that makes thread t ready.
MakeReady(t) ==
    /\ InCode
    /\ ReadyToRun(t)
    /\ pc' = [pc EXCEPT ![currentThread] = "OneTick"]
    /\ UNCHANGED <<currentThread, threadToBeDestroyed, yieldOnReturn, machineStatus>>

Wake(t) == Wakeable(t) /\ MakeReady(t)

\* Mutant: the destructor runs in Finish, on the stack of the dying thread.
FinishDeletesAtOnce ==
    /\ InCode
    /\ threadToBeDestroyed' = NoThread
    /\ status' = [status EXCEPT ![currentThread] = "DELETED"]
    /\ pc' = [pc EXCEPT ![currentThread] = "Finish"]
    /\ UNCHANGED <<readyList, currentThread, yieldOnReturn, machineStatus>>

Finish ==
    /\ InCode
    /\ threadToBeDestroyed' = currentThread
    /\ status' = [status EXCEPT ![currentThread] = "BLOCKED"]
    /\ pc' = [pc EXCEPT ![currentThread] = "Finish"]
    /\ UNCHANGED <<readyList, currentThread, yieldOnReturn, machineStatus>>

\* currentThread has given up the processor and is in the loop of Sleep.
InSleep == status[currentThread] # "RUNNING" /\ pc[currentThread] \in {"Sleep", "Finish"}

\* Thread::Sleep finds a thread to run, possibly the one that is sleeping.
Dispatch ==
    /\ machineStatus = "SystemMode"
    /\ InSleep
    /\ readyList # <<>>
    /\ LET next == Head(readyList)
       IN  /\ readyList' = Tail(readyList)
           /\ pc' = [pc EXCEPT ![next] = ResumePoint(next)]
           /\ Run(next, status, threadToBeDestroyed)
    /\ UNCHANGED <<yieldOnReturn, machineStatus>>

-----------------------------------------------------------------------------
(* Interrupts                                                              *)

\* Interrupt handlers run in OneTick, and in Idle.
InHandlers ==
    \/ machineStatus = "SystemMode" /\ pc[currentThread] = "OneTick"
    \/ machineStatus = "IdleMode"

\* Nothing is left to run: Sleep calls Idle.
Idling == machineStatus = "SystemMode" /\ InSleep /\ readyList = <<>>

\* The pending interrupt that CheckIfDue calls: a device's handler, which may
\* make a thread ready, or TimerInterruptHandler, which asks for a yield.
DeviceHandler(t) == ReadyToRun(t) /\ UNCHANGED yieldOnReturn

TimerInterruptHandler ==
    /\ RandomYield
    /\ yieldOnReturn' = TRUE
    /\ UNCHANGED <<status, readyList>>

SilentHandler == UNCHANGED <<status, readyList, yieldOnReturn>>

Handler ==
    \/ \E t \in Threads : Wakeable(t) /\ DeviceHandler(t)
    \/ TimerInterruptHandler
    \/ SilentHandler

Interrupt ==
    /\ InHandlers
    /\ Handler
    /\ UNCHANGED <<pc, currentThread, threadToBeDestroyed, machineStatus>>

\* Interrupt::Idle advances the clock to the next interrupt and calls it.
Idle ==
    /\ Idling
    /\ machineStatus' = "IdleMode"
    /\ Handler
    /\ UNCHANGED <<pc, currentThread, threadToBeDestroyed>>

\* Mutant: a yield asked for while idle is still pending afterwards.
IdleReturnKeepsYield ==
    /\ machineStatus = "IdleMode"
    /\ machineStatus' = "SystemMode"
    /\ UNCHANGED <<status, pc, readyList, currentThread, threadToBeDestroyed,
                   yieldOnReturn>>

IdleReturn ==
    /\ machineStatus = "IdleMode"
    /\ machineStatus' = "SystemMode"
    /\ yieldOnReturn' = FALSE
    /\ UNCHANGED <<status, pc, readyList, currentThread, threadToBeDestroyed>>

\* Interrupt::Idle finds no interrupt worth waiting for.
Halt ==
    /\ Idling
    /\ machineStatus' = "Halted"
    /\ UNCHANGED <<status, pc, readyList, currentThread, threadToBeDestroyed,
                   yieldOnReturn>>

\* The end of OneTick: nothing more is due.
OneTickReturn ==
    /\ machineStatus = "SystemMode"
    /\ pc[currentThread] = "OneTick"
    /\ yieldOnReturn' = FALSE
    /\ \/ /\ ~yieldOnReturn
          /\ pc' = [pc EXCEPT ![currentThread] = "code"]
          /\ UNCHANGED <<status, readyList, currentThread, threadToBeDestroyed>>
       \/ /\ yieldOnReturn
          /\ YieldBody
    /\ UNCHANGED machineStatus

\* A halted machine stays halted.
Halted == machineStatus = "Halted" /\ UNCHANGED vars

-----------------------------------------------------------------------------
Next ==
    \/ \E t \in Threads : Fork(t) \/ Wake(t)
    \/ Yield \/ Critical \/ Block \/ Finish \/ Dispatch
    \/ Interrupt \/ Idle \/ IdleReturn \/ Halt \/ OneTickReturn \/ Halted

Spec == Init /\ [][Next]_vars

\* The simulated processor never stops by itself, and with -rs the Timer
\* re-arms itself with a finite delay each time it fires while every OneTick
\* advances the clock, so the timer keeps firing as long as ticks keep coming.
TimerTick ==
    /\ InHandlers
    /\ TimerInterruptHandler
    /\ UNCHANGED <<pc, currentThread, threadToBeDestroyed, machineStatus>>

-----------------------------------------------------------------------------
(* Properties                                                              *)

TypeOK ==
    /\ status \in [Threads -> ThreadStatus]
    /\ pc \in [Threads -> PCs]
    /\ readyList \in Seq(Threads)
    /\ currentThread \in Threads
    /\ threadToBeDestroyed \in Threads \cup {NoThread}
    /\ yieldOnReturn \in BOOLEAN
    /\ machineStatus \in {"SystemMode", "IdleMode", "Halted"}

\* Which points of the code a thread can be at, given its status.  A thread
\* that is not running is suspended at one of the places SWITCH can leave it
\* or start it, and currentThread is RUNNING unless it is looking for a
\* successor in Sleep.
PlaceOK ==
    /\ \A t \in Threads :
         /\ status[t] = "JUST_CREATED" => pc[t] = "none"
         /\ status[t] = "RUNNING" => t = currentThread /\ pc[t] \in {"code", "OneTick", "Woken"}
         /\ status[t] = "READY" => pc[t] \in {"ThreadRoot", "Yield", "Sleep"}
         /\ status[t] = "BLOCKED" => pc[t] \in {"Sleep", "Finish"}
         /\ status[t] = "DELETED" => pc[t] = "Finish" /\ t # currentThread
    /\ status[currentThread] # "RUNNING" => InSleep
    /\ machineStatus = "IdleMode" => InSleep

\* The ready list holds every READY thread exactly once and nothing else
\* (ReadyToRun, FindNextToRun): no thread is lost, none is dispatched twice.
ReadyListExact ==
    /\ Range(readyList) = {t \in Threads : status[t] = "READY"}
    /\ \A i, j \in 1..Len(readyList) : readyList[i] = readyList[j] => i = j

\* threadToBeDestroyed names a thread that has finished, so deleting it frees
\* no stack that will be switched to again (Finish, Run).
CarcassFinished ==
    threadToBeDestroyed # NoThread =>
        status[threadToBeDestroyed] = "BLOCKED" /\ pc[threadToBeDestroyed] = "Finish"

\* The scheduler's correctness: one thread runs, the ready list is exact, and
\* only finished threads wait for deletion.
SchedulerInv == TypeOK /\ PlaceOK /\ ReadyListExact /\ CarcassFinished

\* A yield asked for by the timer is taken by the thread that was interrupted,
\* or dropped by Idle; it never carries over into other code (OneTick, Idle).
YieldRequestLocal == yieldOnReturn => InHandlers

\* A Thread object is deleted only from another thread's stack, after it
\* called Finish (thread.cc, NOTE on Finish; ASSERT in ~Thread).
DeletedFromOtherStack ==
    [][\A t \in Threads : status[t] # "DELETED" /\ status'[t] = "DELETED" =>
          pc[t] = "Finish" /\ currentThread' # t]_vars

\* Once a thread has finished it never runs again, whatever the others do.
FinishedStaysFinished ==
    [][\A t \in Threads : pc[t] = "Finish" => pc'[t] = "Finish" /\ status'[t] # "RUNNING"]_vars

\* With time slicing on, FIFO order makes every ready thread run eventually.
NoStarvation == \A t \in Threads : status[t] = "READY" ~> status[t] = "RUNNING"

\* What the note on Finish promises: Run calls the destructor of a finished
\* thread, so until then threadToBeDestroyed remembers it.
NoCarcassForgotten ==
    \A t \in Threads : status[t] = "BLOCKED" /\ pc[t] = "Finish" => threadToBeDestroyed = t

=============================================================================
