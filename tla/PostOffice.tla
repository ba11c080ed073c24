------------------------------ MODULE PostOffice ------------------------------
(***************************************************************************)
(* The network device (machine/network.cc) and the post office on top of   *)
(* it (network/post.cc): several Nachos machines that send each other mail *)
(* over an unreliable network.                                             *)
(*                                                                         *)
(* On each machine there are client threads, the postal worker thread that *)
(* moves arriving packets to the mailboxes, and the device's two           *)
(* interrupts.  Steps end where the code enables interrupts or waits for a *)
(* semaphore.  A Lock of threads/synch.cc excludes nobody and a Condition  *)
(* cannot be waited for, so SynchList::Append is an append, and            *)
(* SynchList::Remove aborts Nachos when the list is empty.                 *)
(***************************************************************************)
EXTENDS Naturals, Sequences, FiniteSets, Functions

CONSTANTS
    Machines,   \* network addresses
    Clients,    \* threads that use the post office, on each machine
    Boxes,      \* 0..(numBoxes - 1), with 0 and 1 among them
    Senders,    \* machines whose clients send at will
    MaxSends    \* bound: messages sent by each machine

VARIABLES
    socket,            \* the UNIX socket of each machine: packets not yet read
    inbox,             \* Network::inHdr and inbox: <<>> or one packet
    messageAvailable,  \* value of the semaphore
    messageSent,       \* value of the semaphore
    sendDone,          \* number of NetworkSendInt interrupts pending
    boxes,             \* the mailboxes
    worker,            \* the postal worker: "wait" or "deliver"
    sending,           \* client threads that wait for messageSent
    status,            \* "running", "halted", or why Nachos aborted
    sent,              \* history: number of messages sent
    accepted,          \* history: the packets of each machine the network did not lose
    got                \* history: mail taken from each mailbox, in order

netVars == <<socket, inbox, messageAvailable, messageSent, sendDone, boxes, worker, sending,
             status, sent, accepted, got>>

Running(m) == status[m] = "running"

\* PostOffice and Network constructors: the worker waits for a packet.
Init ==
    /\ socket = [m \in Machines |-> <<>>]
    /\ inbox = [m \in Machines |-> <<>>]
    /\ messageAvailable = [m \in Machines |-> 0]
    /\ messageSent = [m \in Machines |-> 0]
    /\ sendDone = [m \in Machines |-> 0]
    /\ boxes = [m \in Machines |-> [b \in Boxes |-> <<>>]]
    /\ worker = [m \in Machines |-> "wait"]
    /\ sending = [m \in Machines |-> {}]
    /\ status = [m \in Machines |-> "running"]
    /\ sent = [m \in Machines |-> 0]
    /\ accepted = [m \in Machines |-> {}]
    /\ got = [m \in Machines |-> [b \in Boxes |-> <<>>]]

-----------------------------------------------------------------------------
(* Interrupt handlers                                                      *)

IncomingPacket(m) == messageAvailable' = [messageAvailable EXCEPT ![m] = @ + 1]

PacketSent(m) == messageSent' = [messageSent EXCEPT ![m] = @ + 1]

\* Mutant: a packet is read into a buffer that still holds the last one.
BufferFreeAlways(m) == TRUE

BufferFree(m) == inbox[m] = <<>>

\* Network::CheckPktAvail, when there is something to do.
CheckPktAvail(m) ==
    /\ Running(m)
    /\ BufferFree(m)
    /\ socket[m] # <<>>
    /\ inbox' = [inbox EXCEPT ![m] = <<Head(socket[m])>>]
    /\ socket' = [socket EXCEPT ![m] = Tail(@)]
    /\ IncomingPacket(m)
    /\ UNCHANGED <<messageSent, sendDone, boxes, worker, sending, status, sent, accepted, got>>

SendDone(m) ==
    /\ Running(m)
    /\ sendDone[m] > 0
    /\ sendDone' = [sendDone EXCEPT ![m] = @ - 1]
    /\ PacketSent(m)
    /\ UNCHANGED <<socket, inbox, messageAvailable, boxes, worker, sending, status, sent,
                   accepted, got>>

-----------------------------------------------------------------------------
(* PostOffice::PostalDelivery                                              *)

\* messageAvailable->P()
AwaitMessage(m) ==
    /\ Running(m)
    /\ worker[m] = "wait"
    /\ messageAvailable[m] > 0
    /\ messageAvailable' = [messageAvailable EXCEPT ![m] = @ - 1]
    /\ worker' = [worker EXCEPT ![m] = "deliver"]
    /\ UNCHANGED <<socket, inbox, messageSent, sendDone, boxes, sending, status, sent, accepted,
                   got>>

\* Mutant: Receive leaves inHdr.length as it is.
EmptiedNot(m) == inbox[m]

\* Network::Receive empties the buffer.
Emptied(m) == <<>>

\* MailBox::Put, with SynchList::Append.
Put(m, mail) == boxes' = [boxes EXCEPT ![m][mail.box] = Append(@, mail)]

\* Network::Receive and Put.
Deliver(m) ==
    /\ Running(m)
    /\ worker[m] = "deliver"
    /\ Put(m, Head(inbox[m]))
    /\ inbox' = [inbox EXCEPT ![m] = Emptied(m)]
    /\ worker' = [worker EXCEPT ![m] = "wait"]
    /\ UNCHANGED <<socket, messageAvailable, messageSent, sendDone, sending, status, sent,
                   accepted, got>>

-----------------------------------------------------------------------------
(* Client threads                                                          *)

\* Mutant: the interrupt is scheduled only for packets that are not lost.
ScheduledUnlessLost(lost) == IF lost THEN 0 ELSE 1

\* Network::Send schedules one interrupt, whether the packet is lost or not.
Scheduled(lost) == 1

\* Network::Send: the packet is lost or goes to the socket of the other
\* machine; SendToSocket asserts that there is one.
Transmit(packet, lost) ==
    IF lost THEN UNCHANGED <<socket, accepted>>
    ELSE /\ socket' = [socket EXCEPT ![packet.to] = Append(@, packet)]
         /\ accepted' = [accepted EXCEPT ![packet.from] = @ \cup {packet}]

\* PostOffice::Send up to messageSent->P().
Send(m, c, to, box, data) ==
    /\ Running(m)
    /\ c \notin sending[m]
    /\ sent[m] < MaxSends
    /\ sent' = [sent EXCEPT ![m] = @ + 1]
    /\ \E lost \in BOOLEAN :
         IF lost \/ Running(to)
         THEN /\ Transmit([from |-> m, to |-> to, box |-> box, data |-> data,
                           seq |-> sent[m] + 1], lost)
              /\ sendDone' = [sendDone EXCEPT ![m] = @ + Scheduled(lost)]
              /\ sending' = [sending EXCEPT ![m] = @ \cup {c}]
              /\ UNCHANGED status
         ELSE /\ status' = [status EXCEPT ![m] = "refused"]
              /\ UNCHANGED <<sendDone, sending, socket, accepted>>
    /\ UNCHANGED <<inbox, messageAvailable, messageSent, boxes, worker, got>>

\* The rest of PostOffice::Send.
Sent(m, c) ==
    /\ Running(m)
    /\ c \in sending[m]
    /\ messageSent[m] > 0
    /\ messageSent' = [messageSent EXCEPT ![m] = @ - 1]
    /\ sending' = [sending EXCEPT ![m] = @ \ {c}]
    /\ UNCHANGED <<socket, inbox, messageAvailable, sendDone, boxes, worker, status, sent,
                   accepted, got>>

\* SynchList::Remove: if the list is empty, Condition::Wait aborts.
RemoveMail(m, box) ==
    IF boxes[m][box] = <<>>
    THEN status' = [status EXCEPT ![m] = "empty"] /\ UNCHANGED boxes
    ELSE boxes' = [boxes EXCEPT ![m][box] = Tail(@)] /\ UNCHANGED status

\* MailBox::Get gives the mail to the client.
Get(m, box) ==
    /\ RemoveMail(m, box)
    /\ got' = IF boxes[m][box] = <<>> THEN got
              ELSE [got EXCEPT ![m][box] = Append(@, Head(boxes[m][box]))]

\* PostOffice::Receive.
Receive(m, c, box) ==
    /\ Running(m)
    /\ c \notin sending[m]
    /\ Get(m, box)
    /\ UNCHANGED <<socket, inbox, messageAvailable, messageSent, sendDone, worker, sending, sent,
                   accepted>>

\* Interrupt::Halt, called by a client.
Halt(m) ==
    /\ Running(m)
    /\ status' = [status EXCEPT ![m] = "halted"]
    /\ UNCHANGED <<socket, inbox, messageAvailable, messageSent, sendDone, boxes, worker, sending,
                   sent, accepted, got>>

-----------------------------------------------------------------------------
\* What a machine does by itself.
System(m) == CheckPktAvail(m) \/ SendDone(m) \/ AwaitMessage(m) \/ Deliver(m)

\* Threads that send and receive at will, with the other machines.
AnyClient(m, c) ==
    \/ m \in Senders /\ \E to \in Machines \ {m}, box \in Boxes : Send(m, c, to, box, "mail")
    \/ Sent(m, c)
    \/ \E box \in Boxes : Receive(m, c, box)

-----------------------------------------------------------------------------
(* Properties                                                              *)

\* seq counts the messages of the sender; only the properties look at it.
Packet == [from : Machines, to : Machines, box : Boxes, data : {"mail", "hello", "ack"},
           seq : 1..MaxSends]

TypeOK ==
    /\ socket \in [Machines -> Seq(Packet)]
    /\ inbox \in [Machines -> Seq(Packet)] /\ \A m \in Machines : Len(inbox[m]) <= 1
    /\ {messageAvailable, messageSent, sendDone} \subseteq [Machines -> Nat]
    /\ boxes \in [Machines -> [Boxes -> Seq(Packet)]]
    /\ worker \in [Machines -> {"wait", "deliver"}]
    /\ sending \in [Machines -> SUBSET Clients]
    /\ status \in [Machines -> {"running", "halted", "empty", "refused"}]
    /\ sent \in [Machines -> 0..MaxSends]
    /\ accepted \in [Machines -> SUBSET Packet]
    /\ got \in [Machines -> [Boxes -> Seq(Packet)]]

\* The way of the mail for one mailbox: what has been taken from it, what is
\* in it, in the device and in the socket.
Way(n, b) == got[n][b] \o boxes[n][b] \o inbox[n] \o socket[n]

\* Of any two packets from one machine, the one sent first comes first.
InSendingOrder(mail) ==
    \A i, j \in DOMAIN mail :
        i < j /\ mail[i].from = mail[j].from => mail[i].seq < mail[j].seq

\* Mail from one machine to one mailbox of another is taken out in the order
\* it was sent, once, and nothing the network accepted is lost on the way:
\* the mail for a mailbox, wherever it is now, is exactly what was accepted
\* for it (Network, PostalDelivery, MailBox).
MailInOrder ==
    \A n \in Machines, b \in Boxes :
        /\ InSendingOrder(Way(n, b))
        /\ {p \in Range(Way(n, b)) : p.box = b} =
               {p \in UNION Range(accepted) : p.to = n /\ p.box = b}

\* The postal worker is told of a packet exactly when there is one in the
\* device: it never delivers an old packet again (Receive of an empty buffer).
PacketAnnounced ==
    \A m \in Machines :
        messageAvailable[m] + (IF worker[m] = "deliver" THEN 1 ELSE 0) = Len(inbox[m])

\* For every thread in Send there is one interrupt, pending or taken: no
\* sender returns for nothing and none waits for ever, although the sendLock
\* does not keep a second sender out.
SendersMatched ==
    \A m \in Machines : messageSent[m] + sendDone[m] = Cardinality(sending[m])

\* Both directions of a machine's traffic match its semaphores and buffers.
PostInv == TypeOK /\ PacketAnnounced /\ SendersMatched

\* Send returns, even when the packet is lost.
SendReturns ==
    \A m \in Machines, c \in Clients : c \in sending[m] ~> c \notin sending[m] \/ ~Running(m)

\* Every packet the network accepted reaches its mailbox, if the machine it is
\* for keeps running.
MailArrives ==
    \A m \in Machines :
        inbox[m] \o socket[m] # <<>> ~> inbox[m] \o socket[m] = <<>> \/ ~Running(m)

=============================================================================
