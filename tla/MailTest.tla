------------------------------- MODULE MailTest -------------------------------
(***************************************************************************)
(* The test of the post office (network/nettest.cc): two machines send     *)
(* each other a message, receive the other's, acknowledge it, receive the  *)
(* acknowledgement, and halt.  Both have been started (main.cc waits two   *)
(* seconds for that).  In the other behaviours the post office is used by  *)
(* arbitrary clients.                                                      *)
(***************************************************************************)
EXTENDS PostOffice

CONSTANT Main   \* the main thread, one of the clients

VARIABLES
    test,   \* MailTest runs, rather than arbitrary clients
    step    \* how far the main thread of each machine has come in MailTest

vars == <<netVars, test, step>>

\* What the test relies on: mailboxes 0 and 1, a main thread and a machine to
\* send to.
MailAssumption ==
    /\ MaxSends \in Nat
    /\ Main \in Clients
    /\ {0, 1} \subseteq Boxes
    /\ \A m \in Machines : \E n \in Machines : n # m

\* The test is run by two machines, each with the other's address.
TwoMachines == \A m, n \in Machines : m # n => Machines = {m, n}

Steps == <<"send", "sent", "receive", "ack", "acked", "receiveAck", "halt">>

MailInit ==
    /\ Init
    /\ test \in BOOLEAN
    /\ step = [m \in Machines |-> 1]

At(m, s) == test /\ step[m] <= Len(Steps) /\ Steps[step[m]] = s

Advance(m) == step' = [step EXCEPT ![m] = @ + 1] /\ UNCHANGED test

Other(m) == CHOOSE n \in Machines : n # m

\* The acknowledgement goes to the mailbox named in the message: mailbox 1.
AckBox == 1

\* Mutant: the machine halts without waiting for the acknowledgement.
LastReceiveSkipped(m) ==
    /\ At(m, "receiveAck")
    /\ Running(m)
    /\ Advance(m)
    /\ UNCHANGED netVars

LastReceive(m) == At(m, "receiveAck") /\ Receive(m, Main, 1) /\ Advance(m)

MailTest(m) ==
    \/ At(m, "send") /\ Send(m, Main, Other(m), 0, "hello") /\ Advance(m)
    \/ (At(m, "sent") \/ At(m, "acked")) /\ Sent(m, Main) /\ Advance(m)
    \/ At(m, "receive") /\ Receive(m, Main, 0) /\ Advance(m)
    \/ At(m, "ack") /\ Send(m, Main, got[m][0][1].from, AckBox, "ack") /\ Advance(m)
    \/ LastReceive(m)
    \/ At(m, "halt") /\ Halt(m) /\ Advance(m)

Client(m) ==
    \/ MailTest(m)
    \/ ~test /\ (\E c \in Clients : AnyClient(m, c)) /\ UNCHANGED <<test, step>>

\* Every machine has stopped, or has nothing to do but poll the network.
Stay == UNCHANGED vars

Next ==
    \/ \E m \in Machines : Client(m) \/ (System(m) /\ UNCHANGED <<test, step>>)
    \/ Stay

\* Interrupts come, and the threads that are woken run.  Nothing makes an
\* arbitrary client send or receive.
Fairness ==
    \A m \in Machines :
        /\ WF_vars(CheckPktAvail(m) /\ UNCHANGED <<test, step>>)
        /\ WF_vars(SendDone(m) /\ UNCHANGED <<test, step>>)
        /\ WF_vars(AwaitMessage(m) /\ UNCHANGED <<test, step>>)
        /\ WF_vars(Deliver(m) /\ UNCHANGED <<test, step>>)
        /\ WF_vars(MailTest(m))
        /\ \A c \in Clients : WF_vars(~test /\ Sent(m, c) /\ UNCHANGED <<test, step>>)

Spec == MailInit /\ [][Next]_vars

FairSpec == Spec /\ Fairness

-----------------------------------------------------------------------------
(* Properties                                                              *)

\* When a machine has halted normally at the end of MailTest, both machines
\* have read the other's message: the acknowledgement means what it says,
\* whatever the network lost.
HaltedMeansDelivered ==
    \A m, n \in Machines :
        test /\ status[m] = "halted" =>
            \E i \in DOMAIN got[n][0] : got[n][0][i].data = "hello" /\ got[n][0][i].from # n

\* And it leaves nobody behind who still has to send it something: Send is
\* refused only by a machine that aborted.
RefusedByAborted ==
    \A m \in Machines :
        test /\ status[m] = "refused" => \E n \in Machines : status[n] = "empty"

\* How MailTest can end: normally when both have the other's message, or
\* because a machine aborted on an empty mailbox.
EndsRight == HaltedMeansDelivered /\ RefusedByAborted

=============================================================================
