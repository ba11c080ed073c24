------------------------------ MODULE MCDevices ------------------------------
(***************************************************************************)
(* Interrupts and the devices that live from them, checked in one run:     *)
(* each behaviour is one of the queue of pending interrupts, of the        *)
(* console with ConsoleTest, or of the network with the post office.       *)
(***************************************************************************)
EXTENDS MailTest, TLC

CONSTANTS timer, console, network, disk, printer,
          Timer, Pollers, Requesters, Delays, SystemTick, UserTick, RandomYield,
          Chars, Quit, EOF, MaxTyped

VARIABLES
    device,
    pending, created, level, mode, yieldOnReturn, at,
    typed, nread, closed, incoming, putBusy, readAvail, writeDone, pc, ch, output, aborted

I == INSTANCE Interrupts WITH status <- mode
C == INSTANCE Console

ASSUME DevicesAssumption ==
    I!InterruptsAssumption /\ C!ConsoleAssumption /\ MailAssumption /\ TwoMachines

interruptVars == <<pending, created, level, mode, yieldOnReturn, at>>
consoleVars == <<typed, nread, closed, incoming, putBusy, readAvail, writeDone, pc, ch,
                 output, aborted>>

\* The timer is random, the polls have a fixed period, and a disk request may
\* take shorter or longer than both.
SomeDelays == (timer :> 1..3) @@ (console :> {3}) @@ (network :> {3})
              @@ (disk :> {1, 4}) @@ (printer :> {3})

MCInit ==
    /\ device \in {"interrupts", "console", "network"}
    /\ I!Init
    /\ C!Init
    /\ MailInit
    /\ device # "network" => ~test
    /\ device # "interrupts" => Head(pending).left = 1

MCNext ==
    /\ UNCHANGED device
    /\ \/ device = "interrupts" /\ I!Next /\ UNCHANGED <<consoleVars, vars>>
       \/ device = "console" /\ C!Next /\ UNCHANGED <<interruptVars, vars>>
       \/ device = "network" /\ Next /\ UNCHANGED <<interruptVars, consoleVars>>

\* Fairness of the queue of interrupts (FairSpec), in its own behaviours.  In the others
\* the fair actions of the console and of the network are never enabled.
InterruptFairness ==
    /\ WF_interruptVars(device = "interrupts" /\ I!Simulation)
    /\ WF_interruptVars(device = "interrupts" /\ I!Disable)
    /\ SF_interruptVars(device = "interrupts" /\ I!TimeMoves)

MCSpec ==
    /\ MCInit
    /\ [][MCNext]_<<device, interruptVars, consoleVars, vars>>
    /\ InterruptFairness /\ C!Fairness /\ Fairness

\* What CheckIfDue may rely on, whatever mix of ticks, idle periods, requests
\* and put-backs has changed the list of pending interrupts.
PendingExact == device = "interrupts" => I!PendingExact

\* A device that was given a request interrupts, unless the machine halts.
RequestAnswered == I!RequestAnswered

\* The echo of ConsoleTest displays what was typed, in order, and only the end
\* of the input aborts it.
EchoRight == device = "console" => C!TypeOK /\ C!EchoInOrder /\ C!AbortOnlyAtEnd

\* Everything typed is displayed sooner or later.
EchoedEventually == C!EchoedEventually

=============================================================================
