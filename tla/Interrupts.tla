----------------------------- MODULE Interrupts -----------------------------
(***************************************************************************)
(* The simulated clock and the queue of pending device interrupts          *)
(* (machine/interrupt.cc, machine/timer.cc).                               *)
(*                                                                         *)
(* Simulated time moves only in OneTick, which runs when interrupts are    *)
(* re-enabled and after every user instruction, and in Idle, which jumps   *)
(* to the next pending interrupt.  Both call CheckIfDue until it returns   *)
(* FALSE; a step of this module is one call of CheckIfDue, or one move of  *)
(* the kernel or user code between such calls.                             *)
(*                                                                         *)
(* Only differences of times matter to the code, so a pending interrupt    *)
(* records the ticks left until it is due, zero or less once it is; the    *)
(* clock stats->totalTicks is the origin.                                  *)
(***************************************************************************)
EXTENDS Integers, Sequences

CONSTANTS
    Timer,       \* TimerInt, the time-slice device
    Pollers,     \* devices whose handler re-arms itself: console and network input
    Requesters,  \* devices armed by a request, one at a time: disk and console output
    Delays,      \* Delays[d]: the values of fromNow device d may pass to Schedule
    SystemTick,
    UserTick,
    RandomYield  \* TRUE iff Nachos runs with -rs, which creates the Timer

Devices == {Timer} \cup Pollers \cup Requesters

\* What stats.h and the devices' constants say.
InterruptsAssumption ==
    /\ Timer \notin Pollers \cup Requesters
    /\ Pollers \cap Requesters = {}
    /\ \A d \in Devices : Delays[d] # {} /\ Delays[d] \subseteq Nat \ {0}
    /\ {SystemTick, UserTick} \subseteq Nat \ {0} /\ UserTick <= SystemTick
    /\ RandomYield \in BOOLEAN

VARIABLES
    pending,       \* Interrupt::pending, a list of [type, left] records
    created,       \* the self-arming devices constructed so far
    level,         \* Interrupt::level
    status,        \* Interrupt::status
    yieldOnReturn, \* Interrupt::yieldOnReturn
    at             \* "code", or where CheckIfDue is called next, or "Halted"

vars == <<pending, created, level, status, yieldOnReturn, at>>

-----------------------------------------------------------------------------
(* The sorted list of pending interrupts (threads/list.cc)                 *)

\* Mutant: the new element goes to the end, as Append would put it.
SortedInsertAtEnd(list, e) == Append(list, e)

\* List::SortedInsert puts an element before the first one that is due later.
Place(list, e) ==
    CHOOSE p \in 1..(Len(list) + 1) : /\ \A i \in 1..(p - 1) : list[i].left <= e.left
                                      /\ p <= Len(list) => e.left < list[p].left

SortedInsert(list, e) ==
    LET p == Place(list, e)
    IN  SubSeq(list, 1, p - 1) \o <<e>> \o SubSeq(list, p, Len(list))

\* Time passes: every pending interrupt is n ticks closer.
Elapse(list, n) == [i \in DOMAIN list |-> [list[i] EXCEPT !.left = @ - n]]

\* The lists Schedule may leave, for the delays device d uses.
Scheduled(list, d) == {SortedInsert(list, [type |-> d, left |-> n]) : n \in Delays[d]}

-----------------------------------------------------------------------------
(* Calling a handler                                                       *)

\* The tail of CheckIfDue: the handler of an interrupt taken off the list.
\* TimerExpired, CheckCharAvail and CheckPktAvail schedule their successor
\* first; status is SystemMode while a handler runs, so TimerInterruptHandler
\* asks for a yield even when the machine was idle.
CallHandler(type, rest) ==
    /\ IF type \in created THEN pending' \in Scheduled(rest, type) ELSE pending' = rest
    /\ yieldOnReturn' = (yieldOnReturn \/ type = Timer)

\* CheckIfDue gives up on the time-slice daemon when it is alone and idle.
OnlyTimer(list) == status = "IdleMode" /\ Len(list) = 1 /\ list[1].type = Timer

\* CheckIfDue finds an interrupt to call in list.
Callable(list) == list # <<>> /\ list[1].left <= 0 /\ ~OnlyTimer(list)

\* CheckIfDue calls nothing, and puts the interrupt it looked at back, after
\* the others that are due at the same time.
PutBack(list) == IF list = <<>> THEN list ELSE SortedInsert(Tail(list), Head(list))

-----------------------------------------------------------------------------
(* Kernel and user code                                                    *)

Init ==
    /\ IF RandomYield
       THEN created = {Timer} /\ pending \in Scheduled(<<>>, Timer)
       ELSE created = {} /\ pending = <<>>
    /\ level = "IntOff"
    /\ status = "SystemMode"
    /\ yieldOnReturn = FALSE
    /\ at = "code"

InKernel == at = "code" /\ status = "SystemMode"

\* The constructors of Console and Network schedule the first poll.
Create(d) ==
    /\ InKernel
    /\ d \in Pollers \ created
    /\ created' = created \cup {d}
    /\ pending' \in Scheduled(pending, d)
    /\ UNCHANGED <<level, status, yieldOnReturn, at>>

\* A request to a device; the disk and the console's output insist on one request
\* at a time.  (Network::Send has the same ASSERT, but sendBusy is never set: the
\* network's output is PostOffice's.)
Request(d) ==
    /\ InKernel
    /\ d \in Requesters
    /\ \A i \in DOMAIN pending : pending[i].type # d
    /\ pending' \in Scheduled(pending, d)
    /\ UNCHANGED <<created, level, status, yieldOnReturn, at>>

\* Interrupt::SetLevel(IntOff)
Disable ==
    /\ InKernel
    /\ level' = "IntOff"
    /\ UNCHANGED <<pending, created, status, yieldOnReturn, at>>

\* Machine::Run and the return from RaiseException; the entry to it.
EnterUser ==
    /\ InKernel
    /\ status' = "UserMode"
    /\ UNCHANGED <<pending, created, level, yieldOnReturn, at>>

RaiseException ==
    /\ at = "code" /\ status = "UserMode"
    /\ status' = "SystemMode"
    /\ UNCHANGED <<pending, created, level, yieldOnReturn, at>>

-----------------------------------------------------------------------------
(* Interrupt::OneTick                                                      *)

\* Mutant: user instructions take no time.
OneTickSystemOnly ==
    /\ pending' = IF status = "SystemMode" THEN Elapse(pending, SystemTick) ELSE pending
    /\ level' = "IntOff"
    /\ at' = "OneTick"
    /\ UNCHANGED <<created, status, yieldOnReturn>>

\* The first half: the clock advances and interrupts are turned off.
OneTick ==
    /\ pending' = Elapse(pending, IF status = "SystemMode" THEN SystemTick ELSE UserTick)
    /\ level' = "IntOff"
    /\ at' = "OneTick"
    /\ UNCHANGED <<created, status, yieldOnReturn>>

\* Interrupt::SetLevel(IntOn)
Enable == InKernel /\ level = "IntOff" /\ OneTick

UserInstruction == at = "code" /\ status = "UserMode" /\ OneTick

OneTickCheck ==
    /\ at = "OneTick"
    /\ Callable(pending)
    /\ CallHandler(Head(pending).type, Tail(pending))
    /\ UNCHANGED <<created, level, status, at>>

\* The second half, after CheckIfDue returned FALSE.  A Yield continues in
\* kernel code, of this or of another thread, with interrupts off.
OneTickReturn ==
    /\ at = "OneTick"
    /\ ~Callable(pending)
    /\ pending' = PutBack(pending)
    /\ at' = "code"
    /\ yieldOnReturn' = FALSE
    /\ \/ ~yieldOnReturn /\ level' = "IntOn" /\ UNCHANGED status
       \/ yieldOnReturn /\ level' = "IntOff" /\ status' = "SystemMode"
    /\ UNCHANGED created

-----------------------------------------------------------------------------
(* Interrupt::Idle                                                         *)

\* Thread::Sleep found nothing to run.
Idle ==
    /\ InKernel /\ level = "IntOff"
    /\ at' = "Idle"
    /\ status' = "IdleMode"
    /\ UNCHANGED <<pending, created, level, yieldOnReturn>>

\* The list after CheckIfDue(TRUE) advanced the clock to its first element.
Advanced ==
    IF pending # <<>> /\ Head(pending).left > 0
    THEN Elapse(pending, Head(pending).left)
    ELSE pending

IdleCheck ==
    /\ at = "Idle"
    /\ Callable(Advanced)
    /\ CallHandler(Head(pending).type, Tail(Advanced))
    /\ at' = "IdleMore"
    /\ UNCHANGED <<created, level, status>>

Halt ==
    /\ at = "Idle"
    /\ ~Callable(Advanced)
    /\ pending' = PutBack(Advanced)
    /\ at' = "Halted"
    /\ UNCHANGED <<created, level, status, yieldOnReturn>>

IdleMore ==
    /\ at = "IdleMore"
    /\ Callable(pending)
    /\ CallHandler(Head(pending).type, Tail(pending))
    /\ UNCHANGED <<created, level, status, at>>

IdleReturn ==
    /\ at = "IdleMore"
    /\ ~Callable(pending)
    /\ pending' = PutBack(pending)
    /\ yieldOnReturn' = FALSE
    /\ status' = "SystemMode"
    /\ at' = "code"
    /\ UNCHANGED <<created, level>>

\* A halted machine stays halted.
Halted == at = "Halted" /\ UNCHANGED vars

-----------------------------------------------------------------------------
Next ==
    \/ \E d \in Devices : Create(d) \/ Request(d)
    \/ Disable \/ Enable \/ EnterUser \/ RaiseException \/ UserInstruction
    \/ OneTickCheck \/ OneTickReturn
    \/ Idle \/ IdleCheck \/ IdleMore \/ IdleReturn \/ Halt \/ Halted

Spec == Init /\ [][Next]_vars

\* The simulation, once it is entered, and the points where time moves.
Simulation == OneTickCheck \/ OneTickReturn \/ IdleCheck \/ IdleMore \/ IdleReturn \/ Halt
TimeMoves == Enable \/ UserInstruction \/ Idle

\* The simulation runs to completion once it is entered, and the code it
\* interrupts keeps reaching points where time moves: kernel code enters and
\* ends critical sections or sleeps, user code executes instructions.
FairSpec == Spec /\ WF_vars(Simulation) /\ WF_vars(Disable) /\ SF_vars(TimeMoves)

-----------------------------------------------------------------------------
(* Properties                                                              *)

Of(d) == {i \in DOMAIN pending : pending[i].type = d}

\* Types; and an interrupt is never called later than one kernel tick after
\* it became due, whatever mix of ticks and idle periods leads there.
TypeOK ==
    /\ pending \in Seq([type : Devices, left : Int])
    /\ \A i \in DOMAIN pending : /\ -SystemTick <= pending[i].left
                                 /\ \E n \in Delays[pending[i].type] : pending[i].left <= n
    /\ created \subseteq {Timer} \cup Pollers
    /\ level \in {"IntOn", "IntOff"}
    /\ status \in {"SystemMode", "UserMode", "IdleMode"}
    /\ yieldOnReturn \in BOOLEAN
    /\ at \in {"code", "OneTick", "Idle", "IdleMore", "Halted"}

\* The list is well formed, and sorted by due time whenever CheckIfDue looks at
\* its head (Schedule, CheckIfDue, List::SortedInsert).
PendingSorted ==
    /\ TypeOK
    /\ \A i, j \in DOMAIN pending : i < j => pending[i].left <= pending[j].left

\* A device that polls has exactly one interrupt pending, however ticks, idle
\* periods and put-backs interleave: none is lost, none runs twice.
\* In particular Idle does not halt the machine while the console or the network
\* operates, as its comment says.
PolledOnce ==
    /\ \A d \in created : \E i \in DOMAIN pending : Of(d) = {i}
    /\ at = "Halted" => created \cap Pollers = {}

\* When kernel or user code runs, no device's interrupt is overdue: OneTick and
\* Idle called everything that had become due.  The one exception is the
\* timer, which Idle leaves when it is the only interrupt pending.
OnlyTimerOverdue ==
    at = "code" => \A i \in DOMAIN pending : pending[i].left <= 0 => pending[i].type = Timer

\* What CheckIfDue may rely on, whatever mix of ticks, idle periods, requests
\* and put-backs has changed the list of pending interrupts.
PendingExact == PendingSorted /\ PolledOnce /\ OnlyTimerOverdue

\* A device that was given a request interrupts, unless the machine halts.
RequestAnswered ==
    \A d \in Requesters : Of(d) # {} ~> (Of(d) = {} \/ at = "Halted")

=============================================================================
