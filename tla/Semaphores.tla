----------------------------- MODULE Semaphores -----------------------------
(***************************************************************************)
(* Semaphores (threads/synch.cc) used by kernel threads and by interrupt   *)
(* handlers, on top of module Threads.                                     *)
(*                                                                         *)
(* P and V run with interrupts off, so each pass through P's loop and each *)
(* V is one step.  V makes the first waiter READY and increments value;    *)
(* the waiter tests value again when it gets the processor, so another     *)
(* thread may have taken the unit in between.                              *)
(*                                                                         *)
(* Devices are represented by io: the number of started requests of which  *)
(* the completion interrupt, whose handler calls V, is still pending.      *)
(***************************************************************************)
EXTENDS Threads, FiniteSets

CONSTANTS
    Sems,          \* the Semaphore objects
    NoSem,         \* marks a thread that is not in P
    InitialValue,  \* the constructor's argument, per semaphore
    MaxValue       \* bound: value plus pending completions never exceeds it

ASSUME SemsAssumption ==
    /\ IsFiniteSet(Threads)
    /\ NoSem \notin Sems
    /\ MaxValue \in Nat
    /\ InitialValue \in [Sems -> 0..MaxValue]

VARIABLES
    value,     \* Semaphore::value
    queue,     \* Semaphore::queue
    waitsFor,  \* the semaphore whose P the thread is in, or NoSem
    io         \* completion interrupts pending, per semaphore

semVars == <<value, queue, waitsFor, io>>
allVars == <<vars, semVars>>

SInit ==
    /\ Init
    /\ value = InitialValue
    /\ queue = [s \in Sems |-> <<>>]
    /\ waitsFor = [t \in Threads |-> NoSem]
    /\ io = [s \in Sems |-> 0]

-----------------------------------------------------------------------------
(* Semaphore                                                               *)

\* Mutant: the thread sleeps without having queued itself.
PLoopForgetsQueue(s) ==
    \/ /\ value[s] = 0
       /\ waitsFor' = [waitsFor EXCEPT ![currentThread] = s]
       /\ Block
       /\ UNCHANGED <<value, queue>>
    \/ /\ value[s] # 0
       /\ value' = [value EXCEPT ![s] = @ - 1]
       /\ waitsFor' = [waitsFor EXCEPT ![currentThread] = NoSem]
       /\ Critical
       /\ UNCHANGED queue

\* One pass through the loop of Semaphore::P by currentThread.
PLoop(s) ==
    \/ /\ value[s] = 0
       /\ queue' = [queue EXCEPT ![s] = Append(@, currentThread)]
       /\ waitsFor' = [waitsFor EXCEPT ![currentThread] = s]
       /\ Block
       /\ UNCHANGED value
    \/ /\ value[s] # 0
       /\ value' = [value EXCEPT ![s] = @ - 1]
       /\ waitsFor' = [waitsFor EXCEPT ![currentThread] = NoSem]
       /\ Critical
       /\ UNCHANGED queue

P(s) == InCode /\ PLoop(s) /\ UNCHANGED io

\* Sleep has returned inside P: back to the test of value.
PAgain(s) ==
    /\ pc[currentThread] = "Woken"
    /\ waitsFor[currentThread] = s
    /\ PLoop(s)
    /\ UNCHANGED io

\* Mutant: V wakes a waiter only when it raises value from zero.
VEffectWakesAtZeroOnly(s, wakes, silent) ==
    /\ value' = [value EXCEPT ![s] = @ + 1]
    /\ \/ queue[s] # <<>> /\ value[s] = 0 /\ queue' = [queue EXCEPT ![s] = Tail(@)] /\ wakes
       \/ (queue[s] = <<>> \/ value[s] # 0) /\ UNCHANGED queue /\ silent

\* Mutant: V looks at the first waiter without removing it from the queue.
VEffectKeepsWaiter(s, wakes, silent) ==
    /\ value' = [value EXCEPT ![s] = @ + 1]
    /\ (queue[s] # <<>> /\ wakes) \/ (queue[s] = <<>> /\ silent)
    /\ UNCHANGED queue

\* The effect of Semaphore::V: wakes is the step that makes the first waiter
\* ready, silent the same step when nobody waits.
VEffect(s, wakes, silent) ==
    /\ value' = [value EXCEPT ![s] = @ + 1]
    /\ \/ queue[s] # <<>> /\ queue' = [queue EXCEPT ![s] = Tail(@)] /\ wakes
       \/ queue[s] = <<>> /\ UNCHANGED queue /\ silent

V(s) ==
    /\ InCode
    /\ value[s] + io[s] < MaxValue
    /\ VEffect(s, MakeReady(Head(queue[s])), Critical)
    /\ UNCHANGED <<waitsFor, io>>

-----------------------------------------------------------------------------
(* Devices whose interrupt handler calls V                                 *)

\* A thread starts a device operation: the device schedules an interrupt.
StartIO(s) ==
    /\ InCode
    /\ value[s] + io[s] < MaxValue
    /\ io' = [io EXCEPT ![s] = @ + 1]
    /\ UNCHANGED <<vars, value, queue, waitsFor>>

\* The handler of the completion interrupt, called by CheckIfDue.
HandlerV(s) ==
    /\ io[s] > 0
    /\ io' = [io EXCEPT ![s] = @ - 1]
    /\ VEffect(s, DeviceHandler(Head(queue[s])), SilentHandler)
    /\ UNCHANGED waitsFor

CompletionInterrupt(s) ==
    /\ InHandlers
    /\ HandlerV(s)
    /\ UNCHANGED <<pc, currentThread, threadToBeDestroyed, machineStatus>>

TimerInterrupt == TimerTick /\ UNCHANGED semVars

\* Some device interrupt is pending, so Idle has something to wait for.
IOPending == \E s \in Sems : io[s] > 0

\* Interrupt::Idle calls the next pending interrupt.  It is the timer's only
\* when a device interrupt is pending as well; with the timer alone, Idle
\* concludes that the program is over.
SIdle ==
    /\ Idling
    /\ IOPending
    /\ machineStatus' = "IdleMode"
    /\ \/ \E s \in Sems : HandlerV(s)
       \/ TimerInterruptHandler /\ UNCHANGED semVars
    /\ UNCHANGED <<pc, currentThread, threadToBeDestroyed>>

SHalt == ~IOPending /\ Halt /\ UNCHANGED semVars

-----------------------------------------------------------------------------
SNext ==
    \/ \E s \in Sems : P(s) \/ PAgain(s) \/ V(s) \/ StartIO(s) \/ CompletionInterrupt(s)
    \/ (\E t \in Threads : Fork(t)) /\ UNCHANGED semVars
    \/ (Yield \/ Finish \/ Dispatch \/ IdleReturn \/ OneTickReturn) /\ UNCHANGED semVars
    \/ TimerInterrupt \/ SIdle \/ SHalt
    \/ Halted /\ UNCHANGED semVars

SSpec == SInit /\ [][SNext]_allVars

\* A pending completion has a finite due time and every tick, like every call
\* of Idle, advances the clock: a device interrupts if the processor keeps
\* ticking.  The timer as in module Threads.
DeviceTick(s) == CompletionInterrupt(s) \/ (SIdle /\ io'[s] < io[s])

SFairSpec ==
    /\ SSpec
    /\ WF_allVars(SNext)
    /\ SF_allVars(TimerInterrupt)
    /\ \A s \in Sems : SF_allVars(DeviceTick(s))

-----------------------------------------------------------------------------
(* Properties                                                              *)

\* value never goes negative (synch.h: "semaphore value, always >= 0") and
\* stays within the bound of the model.
STypeOK ==
    /\ value \in [Sems -> 0..MaxValue]
    /\ queue \in [Sems -> Seq(Threads)]
    /\ waitsFor \in [Threads -> Sems \cup {NoSem}]
    /\ io \in [Sems -> 0..MaxValue]
    /\ \A s \in Sems : value[s] + io[s] <= MaxValue

\* Threads that P(s) took off the processor and that V(s) has not woken yet.
Asleep(s) == Range(queue[s])

\* Threads in P(s) that have been woken and have not tested value again.
Awake(s) == {t \in Threads : waitsFor[t] = s} \ Asleep(s)

\* A thread sleeping in P is in the queue of that semaphore, once, and in no
\* other; the threads in queues are exactly those only V can make ready.
QueuesExact ==
    /\ \A s \in Sems :
         /\ \A i, j \in 1..Len(queue[s]) : queue[s][i] = queue[s][j] => i = j
         /\ \A t \in Asleep(s) : waitsFor[t] = s /\ status[t] = "BLOCKED" /\ pc[t] = "Sleep"
         /\ \A t \in Awake(s) : (status[t] = "READY" /\ pc[t] = "Sleep")
                                  \/ (status[t] = "RUNNING" /\ pc[t] = "Woken")
    /\ \A t \in Threads : pc[t] \in {"Sleep", "Woken"} => waitsFor[t] # NoSem

\* No wakeup is lost: as long as some thread sleeps in P(s), every unit of
\* value is matched by a thread that has been woken and will test value again.
NoLostWakeup == \A s \in Sems : queue[s] # <<>> => Cardinality(Awake(s)) >= value[s]

\* Semaphores keep the contract of the thread system: every step here is a
\* step of module Threads, so V and the handlers make ready only threads that
\* are BLOCKED in Sleep (ReadyToRun checks nothing itself).
ThreadContract == Spec

\* Several threads and devices on the detailed semaphore behave like an
\* atomic one, and a unit cannot stay available while threads wait.
Abstract == INSTANCE AbstractSemaphore

AtomicSemaphore == Abstract!ASpec

=============================================================================
