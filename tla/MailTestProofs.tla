--------------------------- MODULE MailTestProofs ---------------------------
(***************************************************************************)
(* What the network and the post office do with mail, for any machines,    *)
(* clients, mailboxes and number of messages, and how MailTest ends.       *)
(***************************************************************************)
EXTENDS MailTest, SequenceTheorems, FiniteSetTheorems, TLAPS

-----------------------------------------------------------------------------
(* Sequences of packets and what is in them                                *)

\* Append adds one element to a sequence.
LEMMA RangeAppend ==
    ASSUME NEW S, NEW s \in Seq(S), NEW p \in S
    PROVE  Append(s, p) \in Seq(S) /\ Range(Append(s, p)) = Range(s) \cup {p}
<1>1. /\ Append(s, p) \in Seq(S)
      /\ DOMAIN Append(s, p) = 1..(Len(s) + 1)
      /\ DOMAIN s = 1..Len(s) /\ Len(s) \in Nat
      /\ \A i \in 1..Len(s) : Append(s, p)[i] = s[i]
      /\ Append(s, p)[Len(s) + 1] = p
  BY AppendProperties, LenProperties
<1>2. 1..(Len(s) + 1) = (1..Len(s)) \cup {Len(s) + 1}
  BY <1>1
<1> QED BY <1>1, <1>2 DEF Range

\* A sequence is its first element and the rest.
LEMMA RangeTail ==
    ASSUME NEW S, NEW s \in Seq(S), s # <<>>
    PROVE  /\ Head(s) \in S /\ Tail(s) \in Seq(S) /\ Len(Tail(s)) = Len(s) - 1
           /\ Range(s) = {Head(s)} \cup Range(Tail(s))
<1>1. /\ Head(s) \in S /\ Tail(s) \in Seq(S) /\ Len(Tail(s)) = Len(s) - 1
      /\ DOMAIN s = 1..Len(s) /\ Len(s) \in Nat \ {0}
      /\ DOMAIN Tail(s) = 1..(Len(s) - 1)
      /\ \A i \in 1..(Len(s) - 1) : Tail(s)[i] = s[i + 1]
      /\ Head(s) = s[1]
  BY HeadTailProperties, LenProperties, EmptySeq
<1>2. ASSUME NEW x \in Range(s)
      PROVE  x \in {Head(s)} \cup Range(Tail(s))
  <2>1. PICK i \in 1..Len(s) : x = s[i]
    BY <1>1 DEF Range
  <2>2. CASE i = 1
    BY <2>1, <2>2, <1>1
  <2>3. CASE i # 1
    <3>1. i - 1 \in 1..(Len(s) - 1) /\ (i - 1) + 1 = i
      BY <2>3, <1>1
    <3> QED BY Zenon, <3>1, <2>1, <1>1 DEF Range
  <2> QED BY <2>2, <2>3
<1>3. ASSUME NEW x \in {Head(s)} \cup Range(Tail(s))
      PROVE  x \in Range(s)
  BY <1>1 DEF Range
<1> QED BY <1>1, <1>2, <1>3

\* A sequence of one element, and the empty one.
LEMMA RangeShort ==
    /\ Range(<<>>) = {}
    /\ \A p : Range(<<p>>) = {p}
BY DEF Range

\* Nothing but the empty sequence is without elements.
LEMMA RangeNonempty ==
    ASSUME NEW S, NEW s \in Seq(S), s # <<>>
    PROVE  Len(s) \in Nat /\ Len(s) > 0 /\ s[1] \in Range(s)
BY EmptySeq, LenProperties DEF Range

\* A buffer of one packet.
LEMMA OneElement ==
    ASSUME NEW S, NEW s \in Seq(S), Len(s) = 1
    PROVE  s # <<>> /\ Head(s) \in S /\ Range(s) = {Head(s)}
<1>0. s # <<>>
  BY EmptySeq
<1>1. DOMAIN s = 1..1 /\ Head(s) = s[1]
  BY <1>0, LenProperties
<1>2. Head(s) \in S
  BY <1>0, HeadTailProperties
<1> QED BY <1>0, <1>1, <1>2 DEF Range

\* The elements of two sequences, one after the other.
LEMMA RangeConcat ==
    ASSUME NEW S, NEW s \in Seq(S), NEW t \in Seq(S)
    PROVE  s \o t \in Seq(S) /\ Range(s \o t) = Range(s) \cup Range(t)
BY ConcatProperties, RangeConcatenation

\* A packet that comes after all others is put at the end.
LEMMA OrderAppend ==
    ASSUME NEW s \in Seq(Packet), NEW p \in Packet, InSendingOrder(s),
           \A q \in Range(s) : q.from = p.from => q.seq < p.seq
    PROVE  InSendingOrder(Append(s, p))
<1> DEFINE a == Append(s, p)
<1>1. /\ DOMAIN a = 1..(Len(s) + 1) /\ DOMAIN s = 1..Len(s) /\ Len(s) \in Nat
      /\ \A i \in 1..Len(s) : a[i] = s[i] /\ s[i] \in Range(s)
      /\ a[Len(s) + 1] = p
  BY AppendProperties, LenProperties DEF Range
<1> SUFFICES ASSUME NEW i \in DOMAIN a, NEW j \in DOMAIN a, i < j, a[i].from = a[j].from
             PROVE  a[i].seq < a[j].seq
  BY DEF InSendingOrder
<1>2. i \in 1..Len(s)
  BY <1>1
<1>3. CASE j \in 1..Len(s)
  BY <1>1, <1>2, <1>3 DEF InSendingOrder
<1>4. CASE j = Len(s) + 1
  BY <1>1, <1>2, <1>4
<1> QED BY <1>1, <1>3, <1>4

\* The first packet comes before the others, which stay in order.
LEMMA OrderTail ==
    ASSUME NEW s \in Seq(Packet), s # <<>>, InSendingOrder(s)
    PROVE  /\ InSendingOrder(Tail(s))
           /\ \A q \in Range(Tail(s)) : q.from = Head(s).from => Head(s).seq < q.seq
<1>1. /\ DOMAIN s = 1..Len(s) /\ Len(s) \in Nat \ {0} /\ Head(s) = s[1]
      /\ DOMAIN Tail(s) = 1..(Len(s) - 1)
      /\ \A i \in 1..(Len(s) - 1) : Tail(s)[i] = s[i + 1]
  BY HeadTailProperties, LenProperties, EmptySeq
<1>2. InSendingOrder(Tail(s))
  BY <1>1 DEF InSendingOrder
<1>3. \A i \in 1..(Len(s) - 1) : s[i + 1].from = s[1].from => s[1].seq < s[i + 1].seq
  BY <1>1 DEF InSendingOrder
<1> QED BY <1>1, <1>2, <1>3 DEF Range

\* Two sequences in order, the first before the second.
LEMMA OrderConcat ==
    ASSUME NEW s \in Seq(Packet), NEW t \in Seq(Packet),
           InSendingOrder(s), InSendingOrder(t),
           \A p \in Range(s), q \in Range(t) : p.from = q.from => p.seq < q.seq
    PROVE  InSendingOrder(s \o t)
<1> DEFINE c == s \o t
<1>1. /\ Len(s) \in Nat /\ Len(t) \in Nat
      /\ DOMAIN c = 1..(Len(s) + Len(t)) /\ DOMAIN s = 1..Len(s) /\ DOMAIN t = 1..Len(t)
      /\ \A i \in 1..(Len(s) + Len(t)) : c[i] = IF i <= Len(s) THEN s[i] ELSE t[i - Len(s)]
  BY ConcatProperties, LenProperties
<1>2. /\ \A i \in 1..Len(s) : s[i] \in Range(s)
      /\ \A i \in 1..Len(t) : t[i] \in Range(t)
  BY <1>1 DEF Range
<1> SUFFICES ASSUME NEW i \in DOMAIN c, NEW j \in DOMAIN c, i < j, c[i].from = c[j].from
             PROVE  c[i].seq < c[j].seq
  BY DEF InSendingOrder
<1>3. CASE j <= Len(s)
  BY <1>1, <1>3 DEF InSendingOrder
<1>4. CASE i <= Len(s) /\ j > Len(s)
  <2>1. c[i] = s[i] /\ c[j] = t[j - Len(s)] /\ j - Len(s) \in 1..Len(t) /\ i \in 1..Len(s)
    BY <1>1, <1>4
  <2> QED BY <2>1, <1>2
<1>5. CASE i > Len(s)
  <2>1. /\ c[i] = t[i - Len(s)] /\ c[j] = t[j - Len(s)]
        /\ i - Len(s) \in DOMAIN t /\ j - Len(s) \in DOMAIN t /\ i - Len(s) < j - Len(s)
    BY <1>1, <1>5
  <2> QED BY <2>1 DEF InSendingOrder
<1> QED BY <1>1, <1>3, <1>4, <1>5

-----------------------------------------------------------------------------
(* The inductive invariant                                                 *)

\* Steps of MailTest: the main thread sends to the machine it has heard from.
TestTypeOK ==
    /\ test \in BOOLEAN
    /\ step \in [Machines -> 1..8]
    /\ \A m \in Machines : test /\ Running(m) /\ step[m] >= 4 => got[m][0] # <<>>

\* Every packet of P comes before every packet of Q that has the same sender.
Before(P, Q) == \A p \in P, q \in Q : p.from = q.from => p.seq < q.seq

\* The four places a packet can be in follow each other in sending order.
OrderAt(n) ==
    /\ InSendingOrder(socket[n])
    /\ Before(Range(inbox[n]), Range(socket[n]))
    /\ \A b \in Boxes :
         /\ InSendingOrder(got[n][b]) /\ InSendingOrder(boxes[n][b])
         /\ Before(Range(got[n][b]), Range(boxes[n][b]))
         /\ Before(Range(got[n][b]) \cup Range(boxes[n][b]),
                   Range(inbox[n]) \cup Range(socket[n]))

OrderInv == \A n \in Machines : OrderAt(n)

\* A packet is only where it was sent to.
PlaceAt(n) ==
    /\ \A p \in Range(inbox[n]) \cup Range(socket[n])  :
           p.from \in Machines /\ p \in accepted[p.from] /\ p.to = n
    /\ \A b \in Boxes : \A p \in Range(got[n][b]) \cup Range(boxes[n][b]) :
           p.from \in Machines /\ p \in accepted[p.from] /\ p.to = n /\ p.box = b

PlaceInv == \A n \in Machines : PlaceAt(n)

\* Every accepted packet is still somewhere.
Somewhere(n, b) ==
    Range(got[n][b]) \cup Range(boxes[n][b]) \cup Range(inbox[n]) \cup Range(socket[n])

KeptInv ==
    \A m \in Machines : \A p \in accepted[m] :
        p.from = m /\ p.seq <= sent[m] /\ p \in Somewhere(p.to, p.box)

FiniteInv == \A m \in Machines : IsFiniteSet(sending[m])

MailInv == OrderInv /\ PlaceInv /\ KeptInv

NetInv == PostInv /\ FiniteInv /\ MailInv

IInv == NetInv /\ TestTypeOK

\* What the type invariant says of one machine's buffers and mailboxes.
LEMMA MachineTypes ==
    ASSUME TypeOK, NEW m \in Machines
    PROVE  /\ socket[m] \in Seq(Packet) /\ inbox[m] \in Seq(Packet)
           /\ accepted[m] \in SUBSET Packet
           /\ \A b \in Boxes : boxes[m][b] \in Seq(Packet) /\ got[m][b] \in Seq(Packet)
BY Zenon DEF TypeOK

-----------------------------------------------------------------------------
(* Steps                                                                   *)

\* Steps that move no mail: only the semaphores, the threads or the status
\* change.
LEMMA MailUnmoved ==
    ASSUME MailInv, UNCHANGED <<socket, inbox, boxes, sent, accepted, got>>
    PROVE  MailInv'
BY DEF MailInv, OrderInv, OrderAt, PlaceInv, PlaceAt, KeptInv, Somewhere

\* Nothing happens.
LEMMA UnchangedKeeps ==
    ASSUME NetInv, UNCHANGED netVars
    PROVE  NetInv'
<1>1. MailInv'
  BY MailUnmoved DEF NetInv, netVars
<1>2. TypeOK' /\ PacketAnnounced' /\ SendersMatched' /\ FiniteInv'
  BY DEF NetInv, PostInv, netVars, TypeOK, PacketAnnounced, SendersMatched, FiniteInv
<1> QED BY <1>1, <1>2 DEF NetInv, PostInv

\* Network::CheckPktAvail moves the first packet of the socket to the buffer.
LEMMA CheckPktAvailKeeps ==
    ASSUME NetInv, NEW m \in Machines, CheckPktAvail(m)
    PROVE  NetInv'
<1> USE DEF NetInv, PostInv, TypeOK
<1>1. /\ Head(socket[m]) \in Packet /\ Tail(socket[m]) \in Seq(Packet)
      /\ Range(socket[m]) = {Head(socket[m])} \cup Range(Tail(socket[m]))
  BY RangeTail DEF CheckPktAvail
<1>2. /\ \A n \in Machines : inbox'[n] = IF n = m THEN <<Head(socket[m])>> ELSE inbox[n]
      /\ \A n \in Machines : socket'[n] = IF n = m THEN Tail(socket[m]) ELSE socket[n]
      /\ \A n \in Machines : messageAvailable'[n] =
             IF n = m THEN messageAvailable[m] + 1 ELSE messageAvailable[n]
      /\ UNCHANGED <<messageSent, sendDone, boxes, worker, sending, status, sent, accepted, got>>
  BY DEF CheckPktAvail, IncomingPacket
<1>3. TypeOK'
  <2>1. <<Head(socket[m])>> \in Seq(Packet)
    BY <1>1
  <2>2. socket' \in [Machines -> Seq(Packet)] /\ inbox' \in [Machines -> Seq(Packet)]
    BY <1>1, <2>1 DEF CheckPktAvail
  <2>3. \A n \in Machines : Len(inbox'[n]) <= 1
    <3> TAKE n \in Machines
    <3>1. CASE n = m
      <4>1. inbox'[n] = <<Head(socket[m])>>
        BY <1>2, <3>1
      <4> HIDE DEF NetInv, PostInv, TypeOK
      <4> QED BY <4>1
    <3>2. CASE n # m
      BY Zenon, <1>2, <3>2
    <3> QED BY <3>1, <3>2
  <2>4. messageAvailable' \in [Machines -> Nat]
    BY DEF CheckPktAvail, IncomingPacket
  <2> QED BY <1>2, <2>2, <2>3, <2>4
<1>4. PacketAnnounced'
  <2>1. Len(inbox[m]) = 0 /\ Len(inbox'[m]) = 1
    BY <1>2, EmptySeq DEF CheckPktAvail, BufferFree
  <2> SUFFICES ASSUME NEW n \in Machines
               PROVE  messageAvailable'[n] + (IF worker'[n] = "deliver" THEN 1 ELSE 0)
                          = Len(inbox'[n])
    BY DEF PacketAnnounced
  <2>2. messageAvailable[n] + (IF worker[n] = "deliver" THEN 1 ELSE 0) = Len(inbox[n])
    BY DEF PacketAnnounced
  <2>3. messageAvailable[n] \in Nat /\ worker'[n] = worker[n]
    BY <1>2
  <2>4. CASE n = m
    <3>1. messageAvailable'[n] = messageAvailable[n] + 1 /\ Len(inbox[n]) = 0 /\ Len(inbox'[n]) = 1
      BY <1>2, <2>1, <2>4
    <3> HIDE DEF NetInv, PostInv, TypeOK
    <3> QED BY <2>2, <2>3, <3>1
  <2>5. CASE n # m
    BY Zenon, <1>2, <2>2, <2>3, <2>5
  <2> QED BY <2>4, <2>5
<1>5. SendersMatched' /\ FiniteInv'
  BY <1>2 DEF SendersMatched, FiniteInv
<1>6. MailInv'
  <2> HIDE DEF NetInv, PostInv, TypeOK
  <2>1. Range(inbox[m]) = {} /\ Range(inbox'[m]) = {Head(socket[m])}
    BY <1>2, RangeShort DEF CheckPktAvail, BufferFree
  <2>2. /\ InSendingOrder(Tail(socket[m]))
        /\ \A q \in Range(Tail(socket[m])) :
               q.from = Head(socket[m]).from => Head(socket[m]).seq < q.seq
    BY Zenon, OrderTail DEF CheckPktAvail, OrderInv, OrderAt, NetInv, PostInv, TypeOK, MailInv
  <2>a. OrderInv /\ PlaceInv /\ KeptInv
    BY DEF NetInv, MailInv
  <2>3. OrderInv'
    <3> SUFFICES ASSUME NEW n \in Machines PROVE OrderAt(n)'
      BY DEF OrderInv
    <3>1. CASE n = m
      BY <1>1, <1>2, <2>1, <2>2, <2>a, <3>1 DEF OrderInv, OrderAt, Before
    <3>2. CASE n # m
      BY Zenon, <1>2, <2>a, <3>2 DEF OrderInv, OrderAt
    <3> QED BY <3>1, <3>2
  <2>4. PlaceInv'
    <3> SUFFICES ASSUME NEW n \in Machines PROVE PlaceAt(n)'
      BY DEF PlaceInv
    <3>1. CASE n = m
      BY <1>1, <1>2, <2>1, <2>a, <3>1 DEF PlaceInv, PlaceAt
    <3>2. CASE n # m
      BY <1>2, <2>a, <3>2 DEF PlaceInv, PlaceAt
    <3> QED BY <3>1, <3>2
  <2>5. KeptInv'
    <3> SUFFICES ASSUME NEW k \in Machines, NEW p \in accepted[k]
                 PROVE  p.from = k /\ p.seq <= sent[k] /\ p \in Somewhere(p.to, p.box)'
      BY <1>2 DEF KeptInv
    <3>1. p.from = k /\ p.seq <= sent[k] /\ p \in Somewhere(p.to, p.box) /\ p.to \in Machines
      BY <2>a DEF KeptInv, NetInv, PostInv, TypeOK, Packet
    <3>2. CASE p.to = m
      BY <1>1, <1>2, <2>1, <3>1, <3>2 DEF Somewhere
    <3>3. CASE p.to # m
      BY <1>2, <3>1, <3>3 DEF Somewhere
    <3> QED BY <3>1, <3>2, <3>3
  <2> QED BY <2>3, <2>4, <2>5 DEF MailInv
<1> QED BY Zenon, <1>3, <1>4, <1>5, <1>6

\* A NetworkSendInt interrupt: Network::SendDone tells a waiting sender.
LEMMA SendDoneKeeps ==
    ASSUME NetInv, NEW m \in Machines, SendDone(m)
    PROVE  NetInv'
<1> USE DEF NetInv, PostInv
<1>1. /\ sendDone' = [sendDone EXCEPT ![m] = @ - 1] /\ sendDone[m] > 0
      /\ messageSent' = [messageSent EXCEPT ![m] = @ + 1]
      /\ UNCHANGED <<socket, inbox, messageAvailable, boxes, worker, sending, status, sent,
                     accepted, got>>
  BY DEF SendDone, PacketSent
<1>2. sendDone \in [Machines -> Nat] /\ messageSent \in [Machines -> Nat]
  BY DEF TypeOK
<1>3. TypeOK'
  <2>1. sendDone' \in [Machines -> Nat] /\ messageSent' \in [Machines -> Nat]
    BY <1>1, <1>2
  <2> QED BY <1>1, <2>1 DEF TypeOK
<1>4. SendersMatched'
  BY <1>1, <1>2 DEF SendersMatched
<1>5. PacketAnnounced' /\ FiniteInv'
  BY <1>1 DEF PacketAnnounced, FiniteInv
<1>6. MailInv'
  BY <1>1, MailUnmoved
<1> QED BY <1>3, <1>4, <1>5, <1>6

\* The postal worker learns of a packet.
LEMMA AwaitMessageKeeps ==
    ASSUME NetInv, NEW m \in Machines, AwaitMessage(m)
    PROVE  NetInv'
<1> USE DEF NetInv, PostInv
<1>1. /\ messageAvailable' = [messageAvailable EXCEPT ![m] = @ - 1]
      /\ messageAvailable[m] > 0 /\ worker[m] = "wait"
      /\ worker' = [worker EXCEPT ![m] = "deliver"]
      /\ UNCHANGED <<socket, inbox, messageSent, sendDone, boxes, sending, status, sent,
                     accepted, got>>
  BY DEF AwaitMessage
<1>2. messageAvailable \in [Machines -> Nat] /\ worker \in [Machines -> {"wait", "deliver"}]
  BY DEF TypeOK
<1>3. TypeOK'
  <2>1. messageAvailable' \in [Machines -> Nat] /\ worker' \in [Machines -> {"wait", "deliver"}]
    BY <1>1, <1>2
  <2> QED BY <1>1, <2>1 DEF TypeOK
<1>4. PacketAnnounced'
  BY <1>1, <1>2 DEF PacketAnnounced
<1>5. SendersMatched' /\ FiniteInv'
  BY <1>1 DEF SendersMatched, FiniteInv
<1>6. MailInv'
  BY <1>1, MailUnmoved
<1> QED BY <1>3, <1>4, <1>5, <1>6

\* A sender that has been told leaves Send.
LEMMA SentKeeps ==
    ASSUME NetInv, NEW m \in Machines, NEW c \in Clients, Sent(m, c)
    PROVE  NetInv'
<1> USE DEF NetInv, PostInv
<1>1. /\ messageSent' = [messageSent EXCEPT ![m] = @ - 1] /\ messageSent[m] > 0
      /\ sending' = [sending EXCEPT ![m] = @ \ {c}] /\ c \in sending[m]
      /\ UNCHANGED <<socket, inbox, messageAvailable, sendDone, boxes, worker, status, sent,
                     accepted, got>>
  BY DEF Sent
<1>2. /\ messageSent \in [Machines -> Nat] /\ sendDone \in [Machines -> Nat]
      /\ sending \in [Machines -> SUBSET Clients]
  BY DEF TypeOK
<1>3. TypeOK'
  <2>1. messageSent' \in [Machines -> Nat] /\ sending' \in [Machines -> SUBSET Clients]
    BY <1>1, <1>2
  <2> QED BY <1>1, <2>1 DEF TypeOK
<1>4. /\ IsFiniteSet(sending[m] \ {c})
      /\ Cardinality(sending[m] \ {c}) = Cardinality(sending[m]) - 1
      /\ Cardinality(sending[m]) \in Nat
  BY <1>1, FS_RemoveElement, FS_CardinalityType DEF FiniteInv
<1>5. SendersMatched'
  BY <1>1, <1>2, <1>4 DEF SendersMatched
<1>6. FiniteInv'
  BY <1>1, <1>2, <1>4 DEF FiniteInv
<1>7. PacketAnnounced'
  BY <1>1 DEF PacketAnnounced
<1>8. MailInv'
  BY <1>1, MailUnmoved
<1> QED BY <1>3, <1>5, <1>6, <1>7, <1>8

\* Interrupt::Halt stops a machine and leaves its mail where it is.
LEMMA HaltKeeps ==
    ASSUME NetInv, NEW m \in Machines, Halt(m)
    PROVE  NetInv'
<1> USE DEF NetInv, PostInv
<1>1. /\ status' = [status EXCEPT ![m] = "halted"]
      /\ UNCHANGED <<socket, inbox, messageAvailable, messageSent, sendDone, boxes, worker,
                     sending, sent, accepted, got>>
  BY DEF Halt
<1>2. TypeOK'
  BY <1>1 DEF TypeOK
<1>3. PacketAnnounced' /\ SendersMatched' /\ FiniteInv'
  BY <1>1 DEF PacketAnnounced, SendersMatched, FiniteInv
<1>4. MailInv'
  BY <1>1, MailUnmoved
<1> QED BY <1>2, <1>3, <1>4

\* PostOffice::PostalDelivery moves the packet in the buffer to its mailbox.
LEMMA DeliverKeeps ==
    ASSUME NetInv, NEW m \in Machines, Deliver(m)
    PROVE  NetInv'
<1> DEFINE mail == Head(inbox[m])
<1>1. TypeOK /\ PacketAnnounced /\ SendersMatched /\ FiniteInv /\ OrderInv /\ PlaceInv /\ KeptInv
  BY DEF NetInv, PostInv, MailInv
<1>2. Len(inbox[m]) = 1 /\ messageAvailable[m] = 0
  <2>1. messageAvailable[m] \in Nat /\ messageAvailable[m] + 1 = Len(inbox[m])
    BY <1>1 DEF Deliver, TypeOK, PacketAnnounced
  <2> QED BY <1>1, <2>1 DEF TypeOK
<1>3. mail \in Packet /\ Range(inbox[m]) = {mail} /\ mail.box \in Boxes /\ mail.to = m
  <2>1. mail \in Packet /\ Range(inbox[m]) = {mail}
    BY <1>1, <1>2, OneElement DEF TypeOK
  <2> QED BY <1>1, <2>1 DEF Packet, PlaceInv, PlaceAt
<1>4. /\ boxes' = [boxes EXCEPT ![m] = [boxes[m] EXCEPT ![mail.box] = Append(@, mail)]]
      /\ inbox' = [inbox EXCEPT ![m] = <<>>]
      /\ worker' = [worker EXCEPT ![m] = "wait"]
      /\ UNCHANGED <<socket, messageAvailable, messageSent, sendDone, sending, status, sent,
                     accepted, got>>
  BY DEF Deliver, Put, Emptied
<1>5. /\ \A n \in Machines : inbox'[n] = IF n = m THEN <<>> ELSE inbox[n]
      /\ \A n \in Machines, b \in Boxes :
           boxes'[n][b] = IF n = m /\ b = mail.box THEN Append(boxes[m][b], mail) ELSE boxes[n][b]
  BY Zenon, <1>1, <1>3, <1>4 DEF TypeOK
<1>6. \A b \in Boxes : /\ Append(boxes[m][b], mail) \in Seq(Packet)
                       /\ Range(Append(boxes[m][b], mail)) = Range(boxes[m][b]) \cup {mail}
  <2>1. \A b \in Boxes : boxes[m][b] \in Seq(Packet)
    BY Zenon, <1>1, MachineTypes
  <2> QED BY <1>3, <2>1, RangeAppend
<1>7. TypeOK'
  <2>1. inbox' \in [Machines -> Seq(Packet)] /\ \A n \in Machines : Len(inbox'[n]) <= 1
    BY <1>1, <1>4, <1>5, EmptySeq DEF TypeOK
  <2>2. [boxes[m] EXCEPT ![mail.box] = Append(@, mail)] \in [Boxes -> Seq(Packet)]
    BY Zenon, <1>1, <1>3, <1>6 DEF TypeOK
  <2>3. boxes' \in [Machines -> [Boxes -> Seq(Packet)]]
    BY Zenon, <1>1, <1>4, <2>2 DEF TypeOK
  <2> QED BY Zenon, <1>1, <1>4, <2>1, <2>3 DEF TypeOK
<1>8. PacketAnnounced'
  <2>1. Len(<<>>) = 0
    OBVIOUS
  <2> SUFFICES ASSUME NEW n \in Machines
               PROVE  messageAvailable'[n] + (IF worker'[n] = "deliver" THEN 1 ELSE 0)
                      = Len(inbox'[n])
    BY DEF PacketAnnounced
  <2>2. messageAvailable'[n] = messageAvailable[n]
    BY Zenon, <1>4
  <2>3. CASE n = m
    <3>1. worker'[n] = "wait"
      BY Zenon, <1>1, <1>4, <2>3 DEF TypeOK
    <3> QED BY <1>2, <1>5, <2>1, <2>2, <2>3, <3>1
  <2>4. CASE n # m
    <3>1. worker'[n] = worker[n]
      BY Zenon, <1>1, <1>4, <2>4 DEF TypeOK
    <3> QED BY <1>1, <1>5, <2>2, <2>4, <3>1 DEF PacketAnnounced
  <2> QED BY <2>3, <2>4
<1>9. SendersMatched' /\ FiniteInv'
  BY <1>1, <1>4 DEF SendersMatched, FiniteInv
<1>10. Range(inbox'[m]) = {}
  BY <1>5, RangeShort
<1>11. OrderInv'
  <2> SUFFICES ASSUME NEW n \in Machines PROVE OrderAt(n)'
    BY DEF OrderInv
  <2>1. OrderAt(n)
    BY <1>1 DEF OrderInv
  <2>2. CASE n # m
    <3>1. boxes'[n] = boxes[n] /\ inbox'[n] = inbox[n] /\ socket' = socket /\ got' = got
      BY Zenon, <1>1, <1>4, <2>2 DEF TypeOK
    <3> QED BY Zenon, <2>1, <3>1 DEF OrderAt
  <2>3. CASE n = m
    <3>1. ASSUME NEW b \in Boxes
          PROVE  /\ InSendingOrder(boxes'[m][b])
                 /\ Before(Range(got[m][b]), Range(boxes'[m][b]))
                 /\ Before(Range(got[m][b]) \cup Range(boxes'[m][b]), Range(socket[m]))
      <4>1. CASE b # mail.box
        BY Zenon, <1>5, <2>1, <2>3, <4>1 DEF OrderAt, Before
      <4>2. CASE b = mail.box
        <5>1. \A q \in Range(boxes[m][b]) : q.from = mail.from => q.seq < mail.seq
          BY <1>3, <2>1, <2>3 DEF OrderAt, Before
        <5>2. InSendingOrder(Append(boxes[m][b], mail))
          BY Zenon, <1>1, <1>3, <2>1, <2>3, <5>1, OrderAppend DEF TypeOK, OrderAt
        <5>3. Range(boxes'[m][b]) = Range(boxes[m][b]) \cup {mail}
          BY Zenon, <1>5, <1>6, <4>2
        <5> QED BY <1>3, <1>5, <2>1, <2>3, <4>2, <5>2, <5>3 DEF OrderAt, Before
      <4> QED BY <4>1, <4>2
    <3> QED BY Zenon, <1>4, <1>10, <2>1, <2>3, <3>1 DEF OrderAt, Before
  <2> QED BY <2>2, <2>3
<1>12. PlaceInv'
  <2> SUFFICES ASSUME NEW n \in Machines PROVE PlaceAt(n)'
    BY DEF PlaceInv
  <2>1. PlaceAt(n)
    BY <1>1 DEF PlaceInv
  <2>2. CASE n # m
    <3>1. /\ boxes'[n] = boxes[n] /\ inbox'[n] = inbox[n]
          /\ socket' = socket /\ got' = got /\ accepted' = accepted
      BY <1>1, <1>4, <2>2 DEF TypeOK
    <3> QED BY <2>1, <3>1 DEF PlaceAt
  <2>3. CASE n = m
    <3>1. \A b \in Boxes : Range(boxes'[m][b]) \subseteq
              Range(boxes[m][b]) \cup (IF b = mail.box THEN {mail} ELSE {})
      BY Zenon, <1>5, <1>6
    <3>2. /\ mail \in accepted[mail.from]
          /\ socket' = socket /\ got' = got /\ accepted' = accepted
      BY <1>3, <1>4, <2>1, <2>3 DEF PlaceAt
    <3> QED BY <1>3, <1>10, <2>1, <2>3, <3>1, <3>2 DEF PlaceAt
  <2> QED BY <2>2, <2>3
<1>13. KeptInv'
  <2> SUFFICES ASSUME NEW k \in Machines, NEW p \in accepted[k]
               PROVE  p.from = k /\ p.seq <= sent[k] /\ p \in Somewhere(p.to, p.box)'
    BY <1>4 DEF KeptInv
  <2>1. /\ p.from = k /\ p.seq <= sent[k] /\ p \in Somewhere(p.to, p.box)
        /\ p.to \in Machines /\ p.box \in Boxes
    <3>1. p.from = k /\ p.seq <= sent[k] /\ p \in Somewhere(p.to, p.box)
      BY Zenon, <1>1 DEF KeptInv
    <3>2. p \in Packet
      BY Zenon, <1>1, MachineTypes
    <3>3. p.to \in Machines /\ p.box \in Boxes
      BY ONLY <3>2 DEF Packet
    <3> QED BY Zenon, <3>1, <3>3
  <2>2. CASE p.to # m
    <3>1. boxes'[p.to][p.box] = boxes[p.to][p.box] /\ inbox'[p.to] = inbox[p.to]
      BY Zenon, <1>5, <2>1, <2>2
    <3> QED BY Zenon, <1>4, <2>1, <3>1 DEF Somewhere
  <2>3. CASE p.to = m
    <3>1. Range(boxes[m][p.box]) \subseteq Range(boxes'[m][p.box])
      BY Zenon, <1>5, <1>6, <2>1
    <3>2. mail.box = p.box => mail \in Range(boxes'[m][p.box])
      BY Zenon, <1>5, <1>6, <2>1
    <3> QED BY Zenon, <1>3, <1>4, <2>1, <2>3, <3>1, <3>2 DEF Somewhere
  <2> QED BY Zenon, <2>1, <2>2, <2>3
<1> QED BY <1>7, <1>8, <1>9, <1>11, <1>12, <1>13 DEF NetInv, PostInv, MailInv

\* PostOffice::Receive takes the first mail of a mailbox, or aborts Nachos.
LEMMA ReceiveKeeps ==
    ASSUME NetInv, NEW m \in Machines, NEW c \in Clients, NEW box \in Boxes,
           Receive(m, c, box)
    PROVE  NetInv'
<1> DEFINE mail == Head(boxes[m][box])
<1>1. TypeOK /\ PacketAnnounced /\ SendersMatched /\ FiniteInv /\ OrderInv /\ PlaceInv /\ KeptInv
  BY DEF NetInv, PostInv, MailInv
<1>2. UNCHANGED <<socket, inbox, messageAvailable, messageSent, sendDone, worker, sending, sent,
                  accepted>>
  BY DEF Receive
<1>3. PacketAnnounced' /\ SendersMatched' /\ FiniteInv'
  BY <1>1, <1>2 DEF PacketAnnounced, SendersMatched, FiniteInv
<1>4. CASE boxes[m][box] = <<>>
  <2>1. UNCHANGED <<boxes, got>> /\ status' = [status EXCEPT ![m] = "empty"]
    BY <1>4 DEF Receive, Get, RemoveMail
  <2>2. TypeOK'
    BY Zenon, <1>1, <1>2, <2>1 DEF TypeOK
  <2>3. MailInv'
    BY <1>2, <2>1, MailUnmoved DEF NetInv
  <2> QED BY <1>3, <2>2, <2>3 DEF NetInv, PostInv
<1>5. CASE boxes[m][box] # <<>>
  <2>1. /\ boxes' = [boxes EXCEPT ![m] = [boxes[m] EXCEPT ![box] = Tail(@)]]
        /\ got' = [got EXCEPT ![m] = [got[m] EXCEPT ![box] = Append(@, mail)]]
        /\ UNCHANGED status
    BY <1>5 DEF Receive, Get, RemoveMail
  <2>2. /\ mail \in Packet /\ Tail(boxes[m][box]) \in Seq(Packet)
        /\ Range(boxes[m][box]) = {mail} \cup Range(Tail(boxes[m][box]))
    BY <1>1, <1>5, RangeTail DEF TypeOK
  <2>3. /\ Append(got[m][box], mail) \in Seq(Packet)
        /\ Range(Append(got[m][box], mail)) = Range(got[m][box]) \cup {mail}
    BY <1>1, <2>2, RangeAppend DEF TypeOK
  <2>4. TypeOK'
    <3>1. /\ [boxes[m] EXCEPT ![box] = Tail(@)] \in [Boxes -> Seq(Packet)]
          /\ [got[m] EXCEPT ![box] = Append(@, mail)] \in [Boxes -> Seq(Packet)]
      BY <1>1, <2>2, <2>3 DEF TypeOK
    <3>2. /\ boxes' \in [Machines -> [Boxes -> Seq(Packet)]]
          /\ got' \in [Machines -> [Boxes -> Seq(Packet)]]
      BY <1>1, <2>1, <3>1 DEF TypeOK
    <3> QED BY Zenon, <1>1, <1>2, <2>1, <3>2 DEF TypeOK
  <2>5. /\ boxes'[m][box] = Tail(boxes[m][box]) /\ got'[m][box] = Append(got[m][box], mail)
        /\ \A b \in Boxes \ {box} : boxes'[m][b] = boxes[m][b] /\ got'[m][b] = got[m][b]
        /\ \A n \in Machines \ {m} : boxes'[n] = boxes[n] /\ got'[n] = got[n]
    BY <1>1, <2>1 DEF TypeOK
  <2>6. /\ Range(boxes[m][box]) = {mail} \cup Range(boxes'[m][box])
        /\ Range(got'[m][box]) = Range(got[m][box]) \cup {mail}
    BY <2>2, <2>3, <2>5
  <2>7. OrderInv'
    <3> SUFFICES ASSUME NEW n \in Machines PROVE OrderAt(n)'
      BY DEF OrderInv
    <3>1. OrderAt(n)
      BY <1>1 DEF OrderInv
    <3>2. CASE n # m
      <4>1. boxes'[n] = boxes[n] /\ got'[n] = got[n] /\ socket' = socket /\ inbox' = inbox
        BY <1>2, <2>5, <3>2
      <4> QED BY Zenon, <3>1, <4>1 DEF OrderAt
    <3>3. CASE n = m
      <4>1. ASSUME NEW b \in Boxes
            PROVE  /\ InSendingOrder(got'[m][b]) /\ InSendingOrder(boxes'[m][b])
                   /\ Before(Range(got'[m][b]), Range(boxes'[m][b]))
                   /\ Before(Range(got'[m][b]) \cup Range(boxes'[m][b]),
                             Range(inbox[m]) \cup Range(socket[m]))
        <5>1. CASE b # box
          BY Zenon, <2>5, <3>1, <3>3, <5>1 DEF OrderAt
        <5>2. CASE b = box
          <6>0. /\ boxes[m][box] \in Seq(Packet) /\ InSendingOrder(boxes[m][box])
                /\ got[m][box] \in Seq(Packet) /\ InSendingOrder(got[m][box])
            BY Zenon, <1>1, <3>1, <3>3 DEF TypeOK, OrderAt
          <6>1. /\ InSendingOrder(boxes'[m][box])
                /\ \A q \in Range(boxes'[m][box]) : q.from = mail.from => mail.seq < q.seq
            BY <1>5, <2>5, <6>0, OrderTail
          <6>2. \A q \in Range(got[m][box]) : q.from = mail.from => q.seq < mail.seq
            BY Zenon, <2>6, <3>1, <3>3 DEF OrderAt, Before
          <6>3. InSendingOrder(got'[m][box])
            BY Zenon, <2>2, <2>5, <6>0, <6>2, OrderAppend
          <6>4. Before(Range(got'[m][box]), Range(boxes'[m][box]))
            BY Zenon, <2>6, <3>1, <3>3, <6>1 DEF OrderAt, Before
          <6>5. Before(Range(got'[m][box]) \cup Range(boxes'[m][box]),
                       Range(inbox[m]) \cup Range(socket[m]))
            BY <2>6, <3>1, <3>3 DEF OrderAt, Before
          <6> QED BY <5>2, <6>1, <6>3, <6>4, <6>5
        <5> QED BY <5>1, <5>2
      <4>2. socket' = socket /\ inbox' = inbox
        BY Zenon, <1>2
      <4> QED BY Zenon, <3>1, <3>3, <4>1, <4>2 DEF OrderAt
    <3> QED BY <3>2, <3>3
  <2>8. PlaceInv'
    <3> SUFFICES ASSUME NEW n \in Machines PROVE PlaceAt(n)'
      BY DEF PlaceInv
    <3>1. PlaceAt(n)
      BY <1>1 DEF PlaceInv
    <3>2. socket' = socket /\ inbox' = inbox /\ accepted' = accepted
      BY <1>2
    <3>3. \A b \in Boxes : Range(got'[n][b]) \cup Range(boxes'[n][b]) =
                               Range(got[n][b]) \cup Range(boxes[n][b])
      BY Zenon, <2>5, <2>6
    <3> QED BY <3>1, <3>2, <3>3 DEF PlaceAt
  <2>9. KeptInv'
    <3>1. \A n \in Machines, b \in Boxes : Somewhere(n, b)' = Somewhere(n, b)
      BY Zenon, <1>2, <2>5, <2>6 DEF Somewhere
    <3>2. \A k \in Machines : \A p \in accepted[k] : p.to \in Machines /\ p.box \in Boxes
      <4>1. \A k \in Machines : accepted[k] \subseteq Packet
        BY <1>1 DEF TypeOK
      <4> QED BY <4>1 DEF Packet
    <3> QED BY <1>1, <1>2, <3>1, <3>2 DEF KeptInv
  <2> QED BY <1>3, <2>4, <2>7, <2>8, <2>9 DEF NetInv, PostInv, MailInv
<1> QED BY <1>4, <1>5

\* A message that the network loses, or that is refused, only counts as sent.
LEMMA OnlySentGrows ==
    ASSUME TypeOK, OrderInv, PlaceInv, KeptInv,
           UNCHANGED <<socket, inbox, boxes, accepted, got>>,
           sent' \in [Machines -> 0..MaxSends], \A n \in Machines : sent[n] <= sent'[n]
    PROVE  MailInv'
<1>0. socket' = socket /\ inbox' = inbox /\ boxes' = boxes /\ accepted' = accepted /\ got' = got
  OBVIOUS
<1>1. OrderInv' /\ PlaceInv'
  <2>1. \A n \in Machines : OrderAt(n)'
    BY Zenon, <1>0 DEF OrderInv, OrderAt
  <2>2. \A n \in Machines : PlaceAt(n)'
    BY <1>0 DEF PlaceInv, PlaceAt
  <2> QED BY <2>1, <2>2 DEF OrderInv, PlaceInv
<1>2. KeptInv'
  <2> SUFFICES ASSUME NEW k \in Machines, NEW p \in accepted[k]
               PROVE  p.from = k /\ p.seq <= sent'[k] /\ p \in Somewhere(p.to, p.box)'
    BY DEF KeptInv
  <2>1. p.from = k /\ p.seq <= sent[k] /\ p \in Somewhere(p.to, p.box)
    BY DEF KeptInv
  <2>2. p.seq \in Int /\ sent[k] \in Int /\ sent'[k] \in Int /\ sent[k] <= sent'[k]
    BY DEF TypeOK, Packet
  <2>3. p \in Somewhere(p.to, p.box)'
    BY <2>1 DEF Somewhere
  <2> QED BY <2>1, <2>2, <2>3
<1> QED BY <1>1, <1>2 DEF MailInv

\* Network::Send puts a packet that is not lost at the end of the socket of
\* the machine it is for.
LEMMA AcceptedKeepsMail ==
    ASSUME TypeOK, OrderInv, PlaceInv, KeptInv, NEW m \in Machines, NEW packet \in Packet,
           packet.from = m, packet.seq = sent[m] + 1,
           sent' = [sent EXCEPT ![m] = @ + 1],
           socket' = [socket EXCEPT ![packet.to] = Append(@, packet)],
           accepted' = [accepted EXCEPT ![m] = @ \cup {packet}],
           UNCHANGED <<inbox, boxes, got>>
    PROVE  MailInv'
<1> DEFINE to == packet.to
<1>1. to \in Machines /\ packet.box \in Boxes /\ \A n \in Machines : sent[n] \in Nat
  BY DEF Packet, TypeOK
<1>2. /\ Append(socket[to], packet) \in Seq(Packet)
      /\ Range(Append(socket[to], packet)) = Range(socket[to]) \cup {packet}
  <2>1. socket[to] \in Seq(Packet)
    BY Zenon, <1>1, MachineTypes
  <2> QED BY <2>1, RangeAppend
<1>3. /\ socket'[to] = Append(socket[to], packet)
      /\ \A n \in Machines \ {to} : socket'[n] = socket[n]
      /\ accepted'[m] = accepted[m] \cup {packet}
      /\ \A n \in Machines \ {m} : accepted'[n] = accepted[n]
      /\ sent'[m] = sent[m] + 1
      /\ \A n \in Machines \ {m} : sent'[n] = sent[n]
  BY Zenon, <1>1 DEF TypeOK
<1>4. \A p \in accepted[m] : p.seq \in Nat /\ p.seq < packet.seq
  <2>1. accepted[m] \subseteq Packet
    BY DEF TypeOK
  <2>2. \A p \in accepted[m] : p.seq <= sent[m]
    BY DEF KeptInv
  <2> QED BY <1>1, <2>1, <2>2 DEF Packet
<1>5. Range(socket'[to]) = Range(socket[to]) \cup {packet}
  BY <1>2, <1>3
<1>6. OrderInv'
  <2> SUFFICES ASSUME NEW n \in Machines PROVE OrderAt(n)'
    BY DEF OrderInv
  <2>1. OrderAt(n)
    BY DEF OrderInv
  <2>2. CASE n # to
    <3>1. socket'[n] = socket[n] /\ inbox' = inbox /\ boxes' = boxes /\ got' = got
      BY <1>3, <2>2
    <3> QED BY Zenon, <2>1, <3>1 DEF OrderAt
  <2>3. CASE n = to
    <3>1. /\ \A q \in Range(socket[to]) \cup Range(inbox[to]) :
                 q.from = packet.from => q.seq < packet.seq
          /\ \A b \in Boxes : \A q \in Range(got[to][b]) \cup Range(boxes[to][b]) :
                 q.from = packet.from => q.seq < packet.seq
      <4>1. PlaceAt(to)
        BY Zenon, <1>1 DEF PlaceInv
      <4> QED BY Zenon, <1>4, <4>1 DEF PlaceAt
    <3>2. socket[to] \in Seq(Packet) /\ InSendingOrder(socket[to])
      BY Zenon, <1>1, <2>1, <2>3 DEF TypeOK, OrderAt
    <3>3. InSendingOrder(socket'[to])
      BY <1>3, <3>1, <3>2, OrderAppend
    <3>4. inbox' = inbox /\ boxes' = boxes /\ got' = got
      OBVIOUS
    <3>5. Before(Range(inbox[to]), Range(socket'[to]))
      BY Zenon, <1>5, <2>1, <2>3, <3>1 DEF OrderAt, Before
    <3>6. \A b \in Boxes : Before(Range(got[to][b]) \cup Range(boxes[to][b]),
                                  Range(inbox[to]) \cup Range(socket'[to]))
      BY Zenon, <1>5, <2>1, <2>3, <3>1 DEF OrderAt, Before
    <3> QED BY Zenon, <2>1, <2>3, <3>3, <3>4, <3>5, <3>6 DEF OrderAt
  <2> QED BY <2>2, <2>3
<1>7. PlaceInv'
  <2> SUFFICES ASSUME NEW n \in Machines PROVE PlaceAt(n)'
    BY DEF PlaceInv
  <2>1. PlaceAt(n)
    BY DEF PlaceInv
  <2>2. Range(socket'[n]) \subseteq Range(socket[n]) \cup (IF n = to THEN {packet} ELSE {})
    BY <1>3, <1>5
  <2>3. \A p : p.from \in Machines /\ p \in accepted[p.from] => p \in accepted'[p.from]
    BY <1>3
  <2>4. packet \in accepted'[packet.from] /\ inbox' = inbox /\ boxes' = boxes /\ got' = got
    BY <1>3
  <2> QED BY <2>1, <2>2, <2>3, <2>4 DEF PlaceAt
<1>8. KeptInv'
  <2>1. /\ \A n \in Machines, b \in Boxes : Somewhere(n, b) \subseteq Somewhere(n, b)'
        /\ packet \in Somewhere(packet.to, packet.box)'
    BY Zenon, <1>1, <1>3, <1>5 DEF Somewhere
  <2> SUFFICES ASSUME NEW k \in Machines, NEW p \in accepted'[k]
               PROVE  p.from = k /\ p.seq <= sent'[k] /\ p \in Somewhere(p.to, p.box)'
    BY DEF KeptInv
  <2>2. CASE p = packet /\ k = m
    BY <1>1, <1>3, <2>1, <2>2
  <2>3. CASE p \in accepted[k]
    <3>1. p \in Packet
      BY <2>3 DEF TypeOK
    <3>2. p.to \in Machines /\ p.box \in Boxes /\ p.seq \in Int
      BY <3>1 DEF Packet
    <3>3. p.from = k /\ p.seq <= sent[k] /\ p \in Somewhere(p.to, p.box)
      BY <2>3 DEF KeptInv
    <3>4. sent[k] \in Int /\ sent'[k] \in Int /\ sent[k] <= sent'[k]
      BY <1>1, <1>3
    <3>5. p.seq <= sent'[k]
      BY ONLY <3>2, <3>3, <3>4
    <3> QED BY Zenon, <2>1, <3>2, <3>3, <3>5
  <2> QED BY <1>3, <2>2, <2>3
<1> QED BY <1>6, <1>7, <1>8 DEF MailInv

\* PostOffice::Send: a lost packet changes no mail, an accepted one comes
\* after everything its sender sent before, a refused one aborts Nachos.
LEMMA SendKeeps ==
    ASSUME MailAssumption, NetInv, NEW m \in Machines, NEW c \in Clients, NEW to \in Machines,
           NEW box \in Boxes, NEW data \in {"mail", "hello", "ack"}, Send(m, c, to, box, data)
    PROVE  NetInv'
<1> DEFINE packet == [from |-> m, to |-> to, box |-> box, data |-> data, seq |-> sent[m] + 1]
<1>1. TypeOK /\ PacketAnnounced /\ SendersMatched /\ FiniteInv /\ OrderInv /\ PlaceInv /\ KeptInv
  BY DEF NetInv, PostInv, MailInv
<1>2. /\ sent' = [sent EXCEPT ![m] = @ + 1] /\ sent[m] < MaxSends /\ c \notin sending[m]
      /\ UNCHANGED <<inbox, messageAvailable, messageSent, boxes, worker, got>>
  BY DEF Send
<1>3. PICK lost \in BOOLEAN :
         IF lost \/ Running(to)
         THEN /\ Transmit(packet, lost)
              /\ sendDone' = [sendDone EXCEPT ![m] = @ + Scheduled(lost)]
              /\ sending' = [sending EXCEPT ![m] = @ \cup {c}]
              /\ UNCHANGED status
         ELSE /\ status' = [status EXCEPT ![m] = "refused"]
              /\ UNCHANGED <<sendDone, sending, socket, accepted>>
  BY DEF Send
<1>4. sent' \in [Machines -> 0..MaxSends] /\ \A n \in Machines : sent[n] <= sent'[n]
  <2>1. sent \in [Machines -> 0..MaxSends] /\ MaxSends \in Nat /\ sent[m] \in Nat
    BY <1>1 DEF MailAssumption, TypeOK
  <2>2. sent[m] + 1 \in 0..MaxSends
    BY <1>2, <2>1
  <2> QED BY <1>2, <2>1, <2>2
<1>5. PacketAnnounced'
  BY <1>1, <1>2 DEF PacketAnnounced
<1>6. packet \in Packet
  <2>0. MaxSends \in Nat /\ sent[m] \in 0..MaxSends
    BY <1>1 DEF TypeOK, MailAssumption
  <2>1. sent[m] + 1 \in 1..MaxSends
    BY <1>2, <2>0
  <2> QED BY <2>1 DEF Packet
<1>7. CASE ~(lost \/ Running(to))
  <2>1. status' = [status EXCEPT ![m] = "refused"] /\ UNCHANGED <<sendDone, sending, socket, accepted>>
    BY <1>3, <1>7
  <2>2. TypeOK'
    BY Zenon, <1>1, <1>2, <1>4, <2>1 DEF TypeOK
  <2>3. SendersMatched' /\ FiniteInv'
    BY Zenon, <1>1, <1>2, <2>1 DEF SendersMatched, FiniteInv
  <2>4. MailInv'
    BY Zenon, <1>1, <1>2, <1>4, <2>1, OnlySentGrows
  <2> QED BY <1>5, <2>2, <2>3, <2>4 DEF NetInv, PostInv
<1>8. CASE lost \/ Running(to)
  <2>1. /\ Transmit(packet, lost) /\ UNCHANGED status
        /\ sendDone' = [sendDone EXCEPT ![m] = @ + 1]
        /\ sending' = [sending EXCEPT ![m] = @ \cup {c}]
    BY Zenon, <1>3, <1>8 DEF Scheduled
  <2>0. /\ sendDone \in [Machines -> Nat] /\ messageSent \in [Machines -> Nat]
        /\ messageAvailable \in [Machines -> Nat] /\ sending \in [Machines -> SUBSET Clients]
    BY Zenon, <1>1 DEF TypeOK
  <2>2. sendDone' \in [Machines -> Nat] /\ sending' \in [Machines -> SUBSET Clients]
    BY <2>0, <2>1
  <2>3. /\ IsFiniteSet(sending[m] \cup {c}) /\ Cardinality(sending[m]) \in Nat
        /\ Cardinality(sending[m] \cup {c}) = Cardinality(sending[m]) + 1
    BY Zenon, <1>1, <1>2, FS_AddElement, FS_CardinalityType DEF FiniteInv
  <2>4. SendersMatched'
    <3> SUFFICES ASSUME NEW n \in Machines
                 PROVE  messageSent'[n] + sendDone'[n] = Cardinality(sending'[n])
      BY DEF SendersMatched
    <3>1. /\ messageSent[n] + sendDone[n] = Cardinality(sending[n])
          /\ messageSent[n] \in Nat /\ sendDone[n] \in Nat
      BY Zenon, <1>1, <2>0 DEF SendersMatched
    <3>2. CASE n = m
      <4>1. /\ messageSent'[n] = messageSent[n] /\ sendDone'[n] = sendDone[n] + 1
            /\ sending'[n] = sending[n] \cup {c}
        BY Zenon, <1>2, <2>0, <2>1, <3>2
      <4> QED BY <2>3, <3>1, <3>2, <4>1
    <3>3. CASE n # m
      BY Zenon, <1>2, <2>0, <2>1, <3>1, <3>3
    <3> QED BY <3>2, <3>3
  <2>5. FiniteInv'
    BY <1>1, <2>0, <2>1, <2>3 DEF FiniteInv
  <2>6. CASE lost
    <3>1. UNCHANGED <<socket, accepted>>
      BY <2>1, <2>6 DEF Transmit
    <3>2. TypeOK'
      BY Zenon, <1>1, <1>2, <1>4, <2>0, <2>1, <2>2, <3>1 DEF TypeOK
    <3>3. MailInv'
      BY Zenon, <1>1, <1>2, <1>4, <3>1, OnlySentGrows
    <3> QED BY Zenon, <1>5, <2>4, <2>5, <3>2, <3>3 DEF NetInv, PostInv
  <2>7. CASE ~lost
    <3>1. /\ socket' = [socket EXCEPT ![to] = Append(@, packet)]
          /\ accepted' = [accepted EXCEPT ![m] = @ \cup {packet}]
      BY <2>1, <2>7 DEF Transmit
    <3>2. /\ Append(socket[to], packet) \in Seq(Packet)
          /\ Range(Append(socket[to], packet)) = Range(socket[to]) \cup {packet}
      BY Zenon, <1>1, <1>6, MachineTypes, RangeAppend
    <3>3. TypeOK'
      <4>1. socket' \in [Machines -> Seq(Packet)] /\ accepted' \in [Machines -> SUBSET Packet]
        BY Zenon, <1>1, <1>6, <3>1, <3>2 DEF TypeOK
      <4> QED BY Zenon, <1>1, <1>2, <1>4, <2>0, <2>1, <2>2, <4>1 DEF TypeOK
    <3>4. MailInv'
      BY Zenon, <1>1, <1>2, <1>4, <1>6, <3>1, AcceptedKeepsMail
    <3> QED BY <1>5, <2>4, <2>5, <3>3, <3>4 DEF NetInv, PostInv
  <2> QED BY <2>6, <2>7
<1> QED BY <1>7, <1>8

\* What a machine does: an interrupt, the postal worker, or a client that
\* sends, has sent, receives or halts.
NetStep(m) ==
    \/ System(m)
    \/ Halt(m)
    \/ \E c \in Clients :
         \/ Sent(m, c)
         \/ \E box \in Boxes : Receive(m, c, box)
         \/ \E to \in Machines, box \in Boxes, data \in {"mail", "hello", "ack"} :
               Send(m, c, to, box, data)

\* MailTest uses the post office as any client may.
LEMMA NextNet ==
    ASSUME MailAssumption, IInv, Next
    PROVE  (\E m \in Machines : NetStep(m)) \/ UNCHANGED netVars
<1>1. CASE Stay
  BY <1>1 DEF Stay, vars
<1>2. ASSUME NEW m \in Machines, MailTest(m) PROVE NetStep(m)
  <2>0. Main \in Clients /\ 0 \in Boxes /\ 1 \in Boxes
    BY DEF MailAssumption
  <2>1. Other(m) \in Machines
    BY DEF Other, MailAssumption
  <2>2. CASE At(m, "ack") /\ Send(m, Main, got[m][0][1].from, AckBox, "ack")
    <3>1. test /\ Running(m) /\ step[m] = 4
      BY <2>2 DEF At, Send, Steps, IInv, TestTypeOK
    <3>2. got[m][0] # <<>> /\ got[m][0] \in Seq(Packet)
      BY <2>0, <3>1 DEF IInv, TestTypeOK, NetInv, PostInv, TypeOK
    <3>3. got[m][0][1] \in Packet
      BY <3>2, EmptySeq, ElementOfSeq
    <3>4. got[m][0][1].from \in Machines
      BY <3>3 DEF Packet
    <3> QED BY Zenon, <2>0, <2>2, <3>4 DEF NetStep, AckBox
  <2> QED BY Zenon, <1>2, <2>0, <2>1, <2>2 DEF MailTest, LastReceive, NetStep
<1>3. ASSUME NEW m \in Machines, NEW c \in Clients, AnyClient(m, c) PROVE NetStep(m)
  BY <1>3 DEF AnyClient, NetStep
<1>4. ASSUME NEW m \in Machines, System(m) PROVE NetStep(m)
  BY <1>4 DEF NetStep
<1> QED BY <1>1, <1>2, <1>3, <1>4 DEF Next, Client

\* Every step keeps the mail and the counters of the post office right.
LEMMA NetStepKeeps ==
    ASSUME MailAssumption, NetInv, NEW m \in Machines, NetStep(m)
    PROVE  NetInv'
BY CheckPktAvailKeeps, SendDoneKeeps, AwaitMessageKeeps, DeliverKeeps, SentKeeps, HaltKeeps,
   ReceiveKeeps, SendKeeps DEF NetStep, System

\* The constructors of PostOffice and Network, before any mail.
LEMMA InitKeeps ==
    ASSUME MailAssumption, MailInit
    PROVE  IInv
<1> USE DEF MailInit, Init
<1>1. TypeOK
  BY EmptySeq DEF TypeOK, MailAssumption
<1>2. PacketAnnounced
  BY EmptySeq DEF PacketAnnounced
<1>3. SendersMatched /\ FiniteInv
  BY FS_EmptySet DEF SendersMatched, FiniteInv
<1>4. TestTypeOK
  BY DEF TestTypeOK
<1>5. /\ \A n \in Machines : socket[n] = <<>> /\ inbox[n] = <<>> /\ accepted[n] = {}
      /\ \A n \in Machines, b \in Boxes : boxes[n][b] = <<>> /\ got[n][b] = <<>>
  OBVIOUS
<1>6. InSendingOrder(<<>>) /\ Range(<<>>) = {}
  BY RangeShort DEF InSendingOrder
<1>7. MailInv
  BY <1>5, <1>6 DEF MailInv, OrderInv, OrderAt, PlaceInv, PlaceAt, KeptInv, Before
<1> QED BY Zenon, <1>1, <1>2, <1>3, <1>4, <1>7 DEF IInv, NetInv, PostInv

\* Nothing a client has taken from a mailbox is forgotten, and a machine that
\* has stopped does not start again.
LEMMA NetStepGrows ==
    ASSUME TypeOK, NEW m \in Machines, NetStep(m)
    PROVE  /\ \A n \in Machines, b \in Boxes : got[n][b] # <<>> => got'[n][b] # <<>>
           /\ \A n \in Machines \ {m} : status'[n] = status[n]
           /\ Running(m)
<1>1. CASE System(m)
  BY Zenon, <1>1 DEF System, CheckPktAvail, SendDone, AwaitMessage, Deliver
<1>2. CASE Halt(m)
  BY <1>2 DEF Halt, TypeOK
<1>3. ASSUME NEW c \in Clients, Sent(m, c)
      PROVE  UNCHANGED <<got, status>> /\ Running(m)
  BY <1>3 DEF Sent
<1>4. ASSUME NEW c \in Clients, NEW to, NEW box, NEW data, Send(m, c, to, box, data)
      PROVE  /\ got' = got /\ Running(m)
             /\ \A n \in Machines \ {m} : status'[n] = status[n]
  BY Zenon, <1>4 DEF Send, TypeOK
<1>5. ASSUME NEW c \in Clients, NEW box \in Boxes, Receive(m, c, box)
      PROVE  /\ \A n \in Machines, b \in Boxes : got[n][b] # <<>> => got'[n][b] # <<>>
             /\ \A n \in Machines \ {m} : status'[n] = status[n]
             /\ Running(m)
  <2>1. \A n \in Machines \ {m} : status'[n] = status[n]
    BY Zenon, <1>5 DEF Receive, Get, RemoveMail, TypeOK
  <2>2. CASE boxes[m][box] = <<>>
    BY <1>5, <2>1, <2>2 DEF Receive, Get
  <2>3. CASE boxes[m][box] # <<>>
    <3>1. Head(boxes[m][box]) \in Packet /\ got[m][box] \in Seq(Packet)
      BY <2>3, HeadTailProperties DEF TypeOK
    <3>2. Append(got[m][box], Head(boxes[m][box])) # <<>>
      BY <3>1, AppendProperties
    <3>3. got' = [got EXCEPT ![m][box] = Append(@, Head(boxes[m][box]))]
      BY <1>5, <2>3 DEF Receive, Get
    <3>4. \A n \in Machines, b \in Boxes :
              got'[n][b] = IF n = m /\ b = box THEN Append(got[m][box], Head(boxes[m][box]))
                           ELSE got[n][b]
      BY Zenon, <3>3 DEF TypeOK
    <3> QED BY Zenon, <1>5, <2>1, <3>2, <3>4 DEF Receive
  <2> QED BY <2>2, <2>3
<1> QED BY Zenon, <1>1, <1>2, <1>3, <1>4, <1>5 DEF NetStep

\* PostOffice::Receive gives the client some mail, unless Nachos aborts.
LEMMA ReceiveGets ==
    ASSUME TypeOK, NEW m \in Machines, NEW c, NEW box \in Boxes, Receive(m, c, box)
    PROVE  status'[m] = "empty" \/ (status' = status /\ got'[m][box] # <<>>)
<1>1. CASE boxes[m][box] = <<>>
  BY <1>1 DEF Receive, Get, RemoveMail, TypeOK
<1>2. CASE boxes[m][box] # <<>>
  <2>1. Head(boxes[m][box]) \in Packet /\ got[m][box] \in Seq(Packet)
    BY <1>2, HeadTailProperties DEF TypeOK
  <2>2. Append(got[m][box], Head(boxes[m][box])) # <<>>
    BY <2>1, AppendProperties
  <2>3. got' = [got EXCEPT ![m][box] = Append(@, Head(boxes[m][box]))] /\ status' = status
    BY <1>2 DEF Receive, Get, RemoveMail
  <2> QED BY <2>2, <2>3 DEF TypeOK
<1> QED BY <1>1, <1>2

\* MailTest advances one machine by one step, or it is not running there.
LEMMA StepAdvances ==
    ASSUME IInv, Next
    PROVE  /\ test' = test
           /\ \/ step' = step
              \/ \E m \in Machines : /\ test /\ MailTest(m) /\ step[m] \in 1..7
                                     /\ step' = [step EXCEPT ![m] = @ + 1]
<1>1. ASSUME NEW m \in Machines, MailTest(m)
      PROVE  test' = test /\ test /\ step[m] \in 1..7 /\ step' = [step EXCEPT ![m] = @ + 1]
  <2>1. Len(Steps) = 7
    BY DEF Steps
  <2>2. step[m] \in 1..8
    BY Zenon DEF IInv, TestTypeOK
  <2>3. test /\ step[m] <= Len(Steps)
    BY Zenon, <1>1 DEF MailTest, LastReceive, At
  <2>4. Advance(m)
    BY <1>1 DEF MailTest, LastReceive
  <2> QED BY <2>1, <2>2, <2>3, <2>4 DEF Advance
<1>2. CASE Stay
  BY <1>2 DEF Stay, vars
<1> QED BY <1>1, <1>2 DEF Next, Client

\* A main thread that has received something in MailTest has it.
LEMMA TestTypeKept ==
    ASSUME MailAssumption, IInv, Next
    PROVE  TestTypeOK'
<1>0. TypeOK /\ TestTypeOK /\ 0 \in Boxes
  BY DEF IInv, NetInv, PostInv, MailAssumption
<1>1. /\ \A n \in Machines : got[n][0] # <<>> => got'[n][0] # <<>>
      /\ \A n \in Machines : Running(n)' => Running(n)
  <2>1. ASSUME NEW m \in Machines, NetStep(m)
        PROVE  /\ \A n \in Machines : got[n][0] # <<>> => got'[n][0] # <<>>
               /\ \A n \in Machines : Running(n)' => Running(n)
    BY Zenon, <1>0, <2>1, NetStepGrows DEF Running
  <2>2. CASE UNCHANGED netVars
    BY Zenon, <2>2 DEF netVars, Running
  <2> QED BY <2>1, <2>2, NextNet
<1>2. CASE step' = step
  BY <1>0, <1>1, <1>2, StepAdvances DEF TestTypeOK
<1>3. ASSUME NEW m \in Machines, MailTest(m), step[m] \in 1..7,
             step' = [step EXCEPT ![m] = @ + 1]
      PROVE  TestTypeOK'
  <2>1. step' \in [Machines -> 1..8] /\ test' \in BOOLEAN /\ test' = test
    <3>1. test' = test
      BY Zenon, StepAdvances
    <3>2. test \in BOOLEAN /\ step \in [Machines -> 1..8]
      BY Zenon, <1>0 DEF TestTypeOK
    <3>3. step' \in [Machines -> 1..8]
      BY ONLY <3>2, <1>3, m \in Machines
    <3> QED BY Zenon, <3>1, <3>2, <3>3
  <2>2. step[m] = 3 /\ Running(m)' => got'[m][0] # <<>>
    <3> SUFFICES ASSUME step[m] = 3, Running(m)' PROVE got'[m][0] # <<>>
      BY Zenon
    <3>1. \A s : At(m, s) => s = "receive"
      BY DEF At, Steps
    <3>2. /\ ~At(m, "send") /\ ~At(m, "sent") /\ ~At(m, "acked") /\ ~At(m, "ack")
          /\ ~At(m, "receiveAck") /\ ~At(m, "halt")
      BY ONLY <3>1
    <3>3. Receive(m, Main, 0)
      BY Zenon, <1>3, <3>2 DEF MailTest, LastReceive
    <3> QED BY <1>0, <3>3, ReceiveGets DEF Running
  <2> SUFFICES ASSUME NEW n \in Machines, test, Running(n)', step'[n] >= 4
               PROVE  got'[n][0] # <<>>
    BY <2>1 DEF TestTypeOK
  <2>3. CASE step[n] >= 4
    BY <1>0, <1>1, <2>3 DEF TestTypeOK
  <2>4. CASE ~(step[n] >= 4)
    <3>1. n = m /\ step[m] = 3
      BY <1>0, <1>3, <2>4 DEF TestTypeOK
    <3> QED BY <2>2, <3>1
  <2> QED BY <2>3, <2>4
<1> QED BY <1>2, <1>3, StepAdvances

\* The invariant holds in every state.
LEMMA IInvHolds ==
    ASSUME MailAssumption
    PROVE  Spec => []IInv
<1>1. MailInit => IInv
  BY InitKeeps
<1>2. IInv /\ [Next]_vars => IInv'
  <2> SUFFICES ASSUME IInv, [Next]_vars PROVE IInv'
    OBVIOUS
  <2>1. CASE UNCHANGED vars
    <3>1. UNCHANGED netVars /\ UNCHANGED <<test, step>>
      BY <2>1 DEF vars
    <3>2. NetInv'
      BY <3>1, UnchangedKeeps DEF IInv
    <3>3. TestTypeOK'
      BY <3>1 DEF netVars, IInv, TestTypeOK, Running
    <3> QED BY <3>2, <3>3 DEF IInv
  <2>2. CASE Next
    <3>1. NetInv'
      BY <2>2, NextNet, NetStepKeeps, UnchangedKeeps DEF IInv
    <3> QED BY <2>2, <3>1, TestTypeKept DEF IInv
  <2> QED BY <2>1, <2>2
<1> QED BY <1>1, <1>2, PTL DEF Spec

\* What the invariant says of the four places holds of the way they make up.
LEMMA InvImpliesInOrder == IInv => MailInOrder
<1> SUFFICES ASSUME IInv, NEW n \in Machines, NEW b \in Boxes
             PROVE  /\ InSendingOrder(Way(n, b))
                    /\ {p \in Range(Way(n, b)) : p.box = b} =
                           {p \in UNION Range(accepted) : p.to = n /\ p.box = b}
  BY DEF MailInOrder
<1> DEFINE g == got[n][b]
           x == boxes[n][b]
           i == inbox[n]
           s == socket[n]
<1>1. TypeOK /\ OrderAt(n) /\ PlaceAt(n) /\ KeptInv
  BY DEF IInv, NetInv, PostInv, MailInv, OrderInv, PlaceInv
<1>2. /\ g \in Seq(Packet) /\ x \in Seq(Packet) /\ i \in Seq(Packet) /\ s \in Seq(Packet)
      /\ Len(i) <= 1
  BY <1>1 DEF TypeOK
<1>3. InSendingOrder(g) /\ InSendingOrder(x) /\ InSendingOrder(i) /\ InSendingOrder(s)
  <2>1. DOMAIN i = 1..Len(i) /\ Len(i) \in Nat
    BY <1>2, LenProperties
  <2>2. InSendingOrder(i)
    BY <1>2, <2>1 DEF InSendingOrder
  <2> QED BY Zenon, <1>1, <2>2 DEF OrderAt
<1> HIDE DEF g, x, i, s
<1>4. /\ Before(Range(g), Range(x)) /\ Before(Range(i), Range(s))
      /\ Before(Range(g) \cup Range(x), Range(i) \cup Range(s))
  BY Zenon, <1>1 DEF OrderAt, g, x, i, s
<1> DEFINE gx == g \o x
           gxi == gx \o i
<1>5. gx \in Seq(Packet) /\ Range(gx) = Range(g) \cup Range(x) /\ InSendingOrder(gx)
  BY <1>2, <1>3, <1>4, RangeConcat, OrderConcat DEF Before
<1> HIDE DEF gx
<1>6. /\ gxi \in Seq(Packet) /\ Range(gxi) = Range(g) \cup Range(x) \cup Range(i)
      /\ InSendingOrder(gxi)
  <2>1. \A p \in Range(gx), q \in Range(i) : p.from = q.from => p.seq < q.seq
    BY <1>4, <1>5 DEF Before
  <2>2. gxi \in Seq(Packet) /\ Range(gxi) = Range(gx) \cup Range(i)
    BY <1>2, <1>5, RangeConcat
  <2>3. InSendingOrder(gxi)
    BY <1>2, <1>3, <1>5, <2>1, OrderConcat
  <2> QED BY <1>5, <2>2, <2>3
<1> HIDE DEF gxi
<1>7. /\ Range(Way(n, b)) = Range(g) \cup Range(x) \cup Range(i) \cup Range(s)
      /\ InSendingOrder(Way(n, b))
  <2>1. \A p \in Range(gxi), q \in Range(s) : p.from = q.from => p.seq < q.seq
    BY <1>4, <1>6 DEF Before
  <2>2. Way(n, b) = gxi \o s
    BY DEF Way, gxi, gx, g, x, i, s
  <2>3. Range(gxi \o s) = Range(gxi) \cup Range(s)
    BY <1>2, <1>6, RangeConcat
  <2>4. InSendingOrder(gxi \o s)
    BY <1>2, <1>3, <1>6, <2>1, OrderConcat
  <2> QED BY <1>6, <2>2, <2>3, <2>4
<1>8. UNION Range(accepted) = UNION {accepted[m] : m \in Machines}
  BY Zenon, <1>1 DEF TypeOK, Range
<1>9. ASSUME NEW p \in Range(Way(n, b)), p.box = b
      PROVE  p \in UNION {accepted[m] : m \in Machines} /\ p.to = n
  <2>1. p \in Range(g) \/ p \in Range(x) \/ p \in Range(i) \/ p \in Range(s)
    BY Zenon, <1>7, <1>9
  <2> QED BY <1>1, <1>9, <2>1 DEF PlaceAt, g, x, i, s
<1>10. ASSUME NEW m \in Machines, NEW p \in accepted[m], p.to = n, p.box = b
       PROVE  p \in Range(Way(n, b))
  BY Zenon, <1>1, <1>7, <1>10 DEF KeptInv, Somewhere, g, x, i, s
<1>11. {p \in Range(Way(n, b)) : p.box = b} =
           {p \in UNION {accepted[m] : m \in Machines} : p.to = n /\ p.box = b}
  BY <1>9, <1>10
<1> QED BY <1>7, <1>8, <1>11

-----------------------------------------------------------------------------
(* How MailTest ends                                                       *)

\* What is known of the mail of MailTest.  A message is for mailbox 0 of the
\* other machine, an acknowledgement for mailbox 1, and a machine sends it
\* when it has the other's message.
EndInv ==
    test =>
        /\ \A m \in Machines : \A p \in accepted[m] :
               /\ p.to # m
               /\ \/ p.box = 0 /\ p.data = "hello"
                  \/ p.box = 1 /\ got[m][0] # <<>> /\ step[m] >= 5
        /\ \A m \in Machines : status[m] \in {"running", "halted"} =>
               /\ step[m] >= 4 => got[m][0] # <<>>
               /\ step[m] >= 7 => got[m][1] # <<>>
        /\ \A m \in Machines : status[m] = "halted" => step[m] = 8
        /\ RefusedByAborted

\* An element of a mailbox's mail was sent to it.
LEMMA TakenWasSent ==
    ASSUME IInv, NEW n \in Machines, NEW b \in Boxes, got[n][b] # <<>>
    PROVE  \E p \in Range(got[n][b]) :
               p.from \in Machines /\ p \in accepted[p.from] /\ p.to = n /\ p.box = b
<1>1. got[n][b] \in Seq(Packet) /\ PlaceAt(n)
  BY DEF IInv, NetInv, PostInv, TypeOK, MailInv, PlaceInv
<1>2. got[n][b][1] \in Range(got[n][b])
  BY <1>1, RangeNonempty
<1> QED BY <1>1, <1>2 DEF PlaceAt

\* A machine that has sent its acknowledgement, or halted, tells that the
\* messages have arrived.
LEMMA EndInvImpliesEndsRight ==
    ASSUME MailAssumption, TwoMachines, IInv, EndInv
    PROVE  EndsRight
<1>1. 0 \in Boxes /\ 1 \in Boxes
  BY DEF MailAssumption
<1>2. ASSUME test, NEW n \in Machines, got[n][0] # <<>>
      PROVE  \E i \in DOMAIN got[n][0] : got[n][0][i].data = "hello" /\ got[n][0][i].from # n
  <2>1. PICK p \in Range(got[n][0]) :
            p.from \in Machines /\ p \in accepted[p.from] /\ p.to = n /\ p.box = 0
    BY <1>1, <1>2, TakenWasSent
  <2>2. p.data = "hello" /\ p.from # n
    BY <1>2, <2>1 DEF EndInv
  <2> QED BY <2>1, <2>2 DEF Range
<1>3. ASSUME test, NEW m \in Machines, status[m] = "halted", NEW n \in Machines
      PROVE  got[n][0] # <<>>
  <2>1. got[m][0] # <<>> /\ got[m][1] # <<>>
    BY <1>3 DEF EndInv
  <2>2. PICK k \in Machines : \E p \in accepted[k] : p.from = k /\ p.to = m /\ p.box = 1
    BY <1>1, <2>1, TakenWasSent
  <2>3. k # m /\ got[k][0] # <<>>
    BY <1>3, <2>2 DEF EndInv
  <2>4. n = m \/ n = k
    BY <2>3 DEF TwoMachines
  <2> QED BY <2>1, <2>3, <2>4
<1>4. HaltedMeansDelivered
  BY <1>2, <1>3 DEF HaltedMeansDelivered
<1>5. RefusedByAborted
  BY DEF EndInv, RefusedByAborted
<1> QED BY <1>4, <1>5 DEF EndsRight

\* Nobody halts before the other machine has sent its acknowledgement.
LEMMA HaltedHasAck ==
    ASSUME MailAssumption, TwoMachines, IInv, EndInv, test,
           NEW m \in Machines, NEW n \in Machines, m # n, status[n] = "halted"
    PROVE  step[m] >= 5
<1>1. 1 \in Boxes /\ got[n][1] # <<>>
  BY DEF MailAssumption, EndInv
<1>2. PICK p \in Range(got[n][1]) :
          p.from \in Machines /\ p \in accepted[p.from] /\ p.to = n /\ p.box = 1
  BY <1>1, TakenWasSent
<1>3. p.from # n /\ step[p.from] >= 5
  BY <1>2 DEF EndInv
<1>4. p.from = m
  BY <1>2, <1>3 DEF TwoMachines
<1> QED BY <1>3, <1>4

\* A step of MailTest that sends: from step 1 or 4 of a machine to another one.
TestSends(m, to, box, data) ==
    /\ to \in Machines /\ to # m
    /\ Send(m, Main, to, box, data)
    /\ step' = [step EXCEPT ![m] = @ + 1]
    /\ \/ step[m] = 1 /\ box = 0 /\ data = "hello"
       \/ step[m] = 4 /\ box = 1

\* A step of MailTest that sends nothing.
TestQuiet(m) ==
    /\ Running(m)
    /\ accepted' = accepted
    /\ step' = [step EXCEPT ![m] = @ + 1]
    /\ \A n \in Machines \ {m} : status'[n] = status[n]
    /\ \/ status' = status /\ step[m] = 2
       \/ status' = status /\ step[m] = 5
       \/ status'[m] = "empty" /\ step[m] \in {3, 6}
       \/ status' = status /\ step[m] = 3 /\ got'[m][0] # <<>>
       \/ status' = status /\ step[m] = 6 /\ got'[m][1] # <<>>
       \/ status'[m] = "halted" /\ step[m] = 7

\* What EndInv says while MailTest runs.
LEMMA EndFacts ==
    ASSUME EndInv, test
    PROVE  /\ \A n \in Machines : \A p \in accepted[n] :
                 p.to # n /\ (\/ p.box = 0 /\ p.data = "hello"
                              \/ p.box = 1 /\ got[n][0] # <<>> /\ step[n] >= 5)
           /\ \A n \in Machines : status[n] \in {"running", "halted"} =>
                 /\ step[n] >= 4 => got[n][0] # <<>>
                 /\ step[n] >= 7 => got[n][1] # <<>>
           /\ \A n \in Machines : status[n] = "halted" => step[n] = 8
           /\ RefusedByAborted
BY Zenon DEF EndInv

\* An accepted packet says what EndInv says, and only a machine that aborted
\* refuses it.
LEMMA TestSendKeeps ==
    ASSUME MailAssumption, TwoMachines, IInv, EndInv, test, test' = test,
           NEW m \in Machines, NEW to, NEW box, NEW data, TestSends(m, to, box, data)
    PROVE  EndInv'
<1> DEFINE packet == [from |-> m, to |-> to, box |-> box, data |-> data, seq |-> sent[m] + 1]
<1>0. /\ step \in [Machines -> 1..8] /\ accepted \in [Machines -> SUBSET Packet]
      /\ status \in [Machines -> {"running", "halted", "empty", "refused"}]
  BY DEF IInv, NetInv, PostInv, TypeOK, TestTypeOK
<1>1. /\ status[m] = "running" /\ got' = got /\ to \in Machines /\ to # m
      /\ \/ status' = status /\ accepted' = accepted
         \/ status' = status /\ accepted' = [accepted EXCEPT ![m] = @ \cup {packet}]
         \/ /\ status' = [status EXCEPT ![m] = "refused"] /\ accepted' = accepted
            /\ status[to] # "running"
  BY Zenon DEF TestSends, Send, Transmit, Running
<1>2. \A n \in Machines : step[n] \in 1..8 /\ step'[n] = IF n = m THEN step[m] + 1 ELSE step[n]
  BY <1>0 DEF TestSends
<1>3. \/ step[m] = 1 /\ box = 0 /\ data = "hello"
      \/ step[m] = 4 /\ box = 1 /\ got[m][0] # <<>>
  <2>1. (step[m] = 1 /\ box = 0 /\ data = "hello") \/ (step[m] = 4 /\ box = 1)
    BY DEF TestSends
  <2>2. step[m] = 4 => step[m] >= 4
    OBVIOUS
  <2> QED BY Zenon, <1>1, <2>1, <2>2, EndFacts
<1>4. \A n \in Machines : \A p \in accepted'[n] : p \in accepted[n] \/ (n = m /\ p = packet)
  BY <1>0, <1>1
<1>5. \A n \in Machines : \/ status'[n] = status[n]
                          \/ n = m /\ status'[n] = "refused" /\ status[to] # "running"
  BY <1>0, <1>1
<1>6. got' = got
  BY <1>1
<1>7. packet.to # m /\ packet.box = box /\ packet.data = data
  BY <1>1
<1> HIDE DEF packet
<1>8. ASSUME NEW n \in Machines, NEW p \in accepted'[n]
      PROVE  /\ p.to # n
             /\ \/ p.box = 0 /\ p.data = "hello"
                \/ p.box = 1 /\ got'[n][0] # <<>> /\ step'[n] >= 5
  <2>1. step'[n] >= step[n] /\ step[n] \in Nat /\ step'[n] \in Nat
    BY <1>2
  <2>2. CASE p \in accepted[n]
    <3>1. p.to # n /\ (\/ p.box = 0 /\ p.data = "hello"
                       \/ p.box = 1 /\ got[n][0] # <<>> /\ step[n] >= 5)
      BY Zenon, <2>2, EndFacts
    <3>2. step[n] >= 5 => step'[n] >= 5
      BY <2>1
    <3> QED BY Zenon, <1>6, <3>1, <3>2
  <2>3. CASE n = m /\ p = packet
    <3>1. step[m] = 4 => step'[m] >= 5
      BY <1>2
    <3> QED BY Zenon, <1>3, <1>6, <1>7, <2>3, <3>1
  <2> QED BY Zenon, <1>4, <2>2, <2>3
<1>9. ASSUME NEW n \in Machines, status'[n] \in {"running", "halted"}
      PROVE  /\ step'[n] >= 4 => got'[n][0] # <<>>
             /\ step'[n] >= 7 => got'[n][1] # <<>>
             /\ status'[n] = "halted" => step'[n] = 8
  <2>1. status'[n] = status[n]
    BY <1>5, <1>9
  <2>2. CASE n = m
    <3>1. step'[m] >= 4 => step[m] = 4
      BY <1>2, <1>3
    <3>2. ~(step'[m] >= 7)
      BY <1>2, <1>3
    <3>3. status'[n] # "halted"
      BY Zenon, <1>1, <2>1, <2>2
    <3>4. step[m] = 4 => got[m][0] # <<>>
      BY <1>3
    <3> QED BY Zenon, <1>6, <2>2, <3>1, <3>2, <3>3, <3>4
  <2>3. CASE n # m
    <3>1. step'[n] = step[n]
      BY <1>2, <2>3
    <3> QED BY Zenon, <1>6, <1>9, <2>1, <3>1, EndFacts
  <2> QED BY Zenon, <2>2, <2>3
<1>10. ASSUME NEW n \in Machines, status'[n] = "refused"
       PROVE  \E k \in Machines : status'[k] = "empty"
  <2>1. \A k \in Machines : status[k] = "empty" => status'[k] = "empty"
    BY <1>1, <1>5
  <2>2. CASE status[n] = "refused"
    BY Zenon, <2>1, <2>2, EndFacts DEF RefusedByAborted
  <2>3. CASE status[n] # "refused"
    <3>1. n = m /\ status[to] # "running"
      BY Zenon, <1>5, <1>10, <2>3
    <3>2. status[to] # "halted"
      <4>1. step[m] \in Nat /\ ~(step[m] >= 5)
        BY <1>2, <1>3
      <4> QED BY Zenon, <1>1, <4>1, HaltedHasAck
    <3>3. status[to] \in {"running", "halted", "empty", "refused"}
      BY Zenon, <1>0, <1>1
    <3>4. status[to] = "empty" \/ status[to] = "refused"
      BY <3>1, <3>2, <3>3
    <3> QED BY Zenon, <1>1, <2>1, <3>4, EndFacts DEF RefusedByAborted
  <2> QED BY <2>2, <2>3
<1> QED BY Zenon, <1>8, <1>9, <1>10 DEF EndInv, RefusedByAborted

\* The steps of MailTest that send nothing.
LEMMA TestQuietKeeps ==
    ASSUME EndInv, IInv, test, test' = test, NEW m \in Machines, TestQuiet(m),
           \A n \in Machines : got[n][0] # <<>> => got'[n][0] # <<>>,
           \A n \in Machines : got[n][1] # <<>> => got'[n][1] # <<>>
    PROVE  EndInv'
<1>0. step \in [Machines -> 1..8] /\ status[m] = "running" /\ accepted' = accepted
  BY Zenon DEF IInv, TestTypeOK, Running, TestQuiet
<1>1. \A n \in Machines : step[n] \in 1..8 /\ step'[n] = IF n = m THEN step[m] + 1 ELSE step[n]
  BY <1>0 DEF TestQuiet
<1>2. \A n \in Machines : n # m => status'[n] = status[n]
  BY Zenon DEF TestQuiet
<1>3. \/ status'[m] = "running" /\ step[m] = 2
      \/ status'[m] = "running" /\ step[m] = 5
      \/ status'[m] = "empty"
      \/ status'[m] = "running" /\ step[m] = 3 /\ got'[m][0] # <<>>
      \/ status'[m] = "running" /\ step[m] = 6 /\ got'[m][1] # <<>>
      \/ status'[m] = "halted" /\ step[m] = 7
  BY Zenon, <1>0 DEF TestQuiet
<1>4. ASSUME NEW n \in Machines, NEW p \in accepted'[n]
      PROVE  /\ p.to # n
             /\ \/ p.box = 0 /\ p.data = "hello"
                \/ p.box = 1 /\ got'[n][0] # <<>> /\ step'[n] >= 5
  <2>1. step[n] >= 5 => step'[n] >= 5
    BY <1>1
  <2>2. p \in accepted[n]
    BY Zenon, <1>0
  <2> QED BY Zenon, <2>1, <2>2, EndFacts
<1>5. ASSUME NEW n \in Machines, status'[n] \in {"running", "halted"}
      PROVE  /\ step'[n] >= 4 => got'[n][0] # <<>>
             /\ step'[n] >= 7 => got'[n][1] # <<>>
             /\ status'[n] = "halted" => step'[n] = 8
  <2>1. CASE n # m
    <3>1. step'[n] = step[n] /\ status'[n] = status[n]
      BY Zenon, <1>1, <1>2, <2>1
    <3> QED BY Zenon, <1>5, <3>1, EndFacts
  <2>2. CASE n = m
    <3>1. step'[m] = step[m] + 1 /\ step[m] \in 1..8
      BY <1>1
    <3>2. /\ step[m] >= 4 => got'[m][0] # <<>>
          /\ step[m] >= 7 => got'[m][1] # <<>>
      BY Zenon, <1>0, EndFacts
    <3>3. status'[m] # "empty"
      BY <1>5, <2>2
    <3> QED BY <1>3, <2>2, <3>1, <3>2, <3>3
  <2> QED BY <2>1, <2>2
<1>6. RefusedByAborted'
  <2>1. \A n \in Machines : status'[n] = "refused" => status[n] = "refused"
    BY Zenon, <1>2, <1>3
  <2>2. \A n \in Machines : status[n] = "empty" => status'[n] = "empty"
    BY <1>0, <1>2
  <2> QED BY Zenon, <2>1, <2>2, EndFacts DEF RefusedByAborted
<1> QED BY Zenon, <1>4, <1>5, <1>6 DEF EndInv

\* Each step of MailTest is one or the other.
LEMMA MailTestKeeps ==
    ASSUME MailAssumption, TwoMachines, IInv, EndInv, test, test' = test,
           NEW m \in Machines, MailTest(m),
           \A n \in Machines : got[n][0] # <<>> => got'[n][0] # <<>>,
           \A n \in Machines : got[n][1] # <<>> => got'[n][1] # <<>>
    PROVE  EndInv'
<1>0. /\ TypeOK /\ 0 \in Boxes /\ 1 \in Boxes /\ Main \in Clients /\ step \in [Machines -> 1..8]
  BY DEF IInv, NetInv, PostInv, MailAssumption, TestTypeOK
<1>2. CASE At(m, "send") /\ Send(m, Main, Other(m), 0, "hello") /\ Advance(m)
  <2>1. Other(m) \in Machines /\ Other(m) # m
    BY Zenon DEF Other, MailAssumption
  <2>2. step[m] = 1 /\ step' = [step EXCEPT ![m] = @ + 1]
    BY <1>0, <1>2 DEF At, Steps, Advance
  <2>3. TestSends(m, Other(m), 0, "hello")
    BY Zenon, <1>2, <2>1, <2>2 DEF TestSends
  <2> QED BY Zenon, <2>3, TestSendKeeps
<1>3. CASE At(m, "ack") /\ Send(m, Main, got[m][0][1].from, AckBox, "ack") /\ Advance(m)
  <2>0. step[m] = 4 /\ step' = [step EXCEPT ![m] = @ + 1]
    BY <1>0, <1>3 DEF At, Steps, Advance
  <2>1. step[m] = 4 /\ step' = [step EXCEPT ![m] = @ + 1] /\ status[m] = "running"
    BY Zenon, <1>3, <2>0 DEF Send, Running
  <2>2. got[m][0] # <<>> /\ got[m][0] \in Seq(Packet) /\ PlaceAt(m)
    <3>1. step[m] >= 4
      BY <2>0
    <3>2. got[m][0] # <<>>
      BY Zenon, <2>1, <3>1, EndFacts
    <3>3. got[m][0] \in Seq(Packet)
      BY <1>0 DEF TypeOK
    <3> QED BY Zenon, <3>2, <3>3 DEF IInv, NetInv, MailInv, PlaceInv
  <2>3. got[m][0][1] \in Range(got[m][0])
    BY Zenon, <2>2, RangeNonempty
  <2>4. got[m][0][1].from \in Machines /\ got[m][0][1].from # m
    BY <1>0, <2>2, <2>3 DEF PlaceAt, EndInv
  <2>5. TestSends(m, got[m][0][1].from, 1, "ack")
    BY Zenon, <1>3, <2>1, <2>4 DEF TestSends, AckBox
  <2> QED BY Zenon, <2>5, TestSendKeeps
<1>4. CASE (At(m, "sent") \/ At(m, "acked")) /\ Sent(m, Main) /\ Advance(m)
  <2>1. step[m] \in {2, 5} /\ step' = [step EXCEPT ![m] = @ + 1]
    BY <1>0, <1>4 DEF At, Steps, Advance
  <2>2. TestQuiet(m)
    BY Zenon, <1>4, <2>1 DEF TestQuiet, Sent
  <2> QED BY Zenon, <2>2, TestQuietKeeps
<1>5. CASE At(m, "receive") /\ Receive(m, Main, 0) /\ Advance(m)
  <2>1. step[m] = 3 /\ step' = [step EXCEPT ![m] = @ + 1]
    BY <1>0, <1>5 DEF At, Steps, Advance
  <2>2. status'[m] = "empty" \/ (status' = status /\ got'[m][0] # <<>>)
    BY <1>0, <1>5, ReceiveGets
  <2>3. /\ Running(m) /\ accepted' = accepted
        /\ \A n \in Machines \ {m} : status'[n] = status[n]
    BY Zenon, <1>0, <1>5 DEF Receive, Get, RemoveMail, TypeOK
  <2>4. TestQuiet(m)
    BY Zenon, <2>1, <2>2, <2>3 DEF TestQuiet
  <2> QED BY Zenon, <2>4, TestQuietKeeps
<1>6. CASE LastReceive(m)
  <2>1. step[m] = 6 /\ step' = [step EXCEPT ![m] = @ + 1] /\ Receive(m, Main, 1)
    BY <1>0, <1>6 DEF LastReceive, At, Steps, Advance
  <2>2. status'[m] = "empty" \/ (status' = status /\ got'[m][1] # <<>>)
    BY <1>0, <2>1, ReceiveGets
  <2>3. /\ Running(m) /\ accepted' = accepted
        /\ \A n \in Machines \ {m} : status'[n] = status[n]
    BY Zenon, <1>0, <2>1 DEF Receive, Get, RemoveMail, TypeOK
  <2>4. TestQuiet(m)
    BY Zenon, <2>1, <2>2, <2>3 DEF TestQuiet
  <2> QED BY Zenon, <2>4, TestQuietKeeps
<1>7. CASE At(m, "halt") /\ Halt(m) /\ Advance(m)
  <2>1. step[m] = 7 /\ step' = [step EXCEPT ![m] = @ + 1]
    BY <1>0, <1>7 DEF At, Steps, Advance
  <2>2. /\ Running(m) /\ accepted' = accepted /\ status'[m] = "halted"
        /\ \A n \in Machines \ {m} : status'[n] = status[n]
    BY <1>0, <1>7 DEF Halt, TypeOK
  <2>3. TestQuiet(m)
    BY Zenon, <2>1, <2>2 DEF TestQuiet
  <2> QED BY Zenon, <2>3, TestQuietKeeps
<1> QED BY Zenon, <1>2, <1>3, <1>4, <1>5, <1>6, <1>7 DEF MailTest

\* Every step of MailTest keeps what is known of its mail.
LEMMA EndInvKept ==
    ASSUME MailAssumption, TwoMachines, IInv, EndInv, Next
    PROVE  EndInv'
<1>0. /\ TypeOK /\ 0 \in Boxes /\ 1 \in Boxes /\ Main \in Clients
      /\ step \in [Machines -> 1..8] /\ test \in BOOLEAN
  BY DEF IInv, NetInv, PostInv, MailAssumption, TestTypeOK
<1>1. test' = test
  BY StepAdvances
<1>2. /\ \A n \in Machines : got[n][0] # <<>> => got'[n][0] # <<>>
      /\ \A n \in Machines : got[n][1] # <<>> => got'[n][1] # <<>>
  <2>1. ASSUME NEW m \in Machines, NetStep(m)
        PROVE  /\ \A n \in Machines : got[n][0] # <<>> => got'[n][0] # <<>>
               /\ \A n \in Machines : got[n][1] # <<>> => got'[n][1] # <<>>
    BY <1>0, <2>1, NetStepGrows
  <2>2. CASE UNCHANGED netVars
    BY Zenon, <2>2 DEF netVars
  <2> QED BY <2>1, <2>2, NextNet
<1> SUFFICES ASSUME test PROVE EndInv'
  BY Zenon, <1>0, <1>1 DEF EndInv
<1>3. CASE accepted' = accepted /\ status' = status /\ step' = step
  BY Zenon, <1>2, <1>3 DEF EndInv, RefusedByAborted
<1>4. ASSUME NEW m \in Machines, System(m), UNCHANGED <<test, step>>
      PROVE  accepted' = accepted /\ status' = status /\ step' = step
  BY <1>4 DEF System, CheckPktAvail, SendDone, AwaitMessage, Deliver
<1>5. ASSUME Stay
      PROVE  accepted' = accepted /\ status' = status /\ step' = step
  BY <1>5 DEF Stay, vars, netVars
<1>6. ASSUME NEW m \in Machines, MailTest(m)
      PROVE  EndInv'
  BY <1>1, <1>2, <1>6, MailTestKeeps
<1> QED BY Zenon, <1>3, <1>4, <1>5, <1>6 DEF Next, Client

-----------------------------------------------------------------------------
(* Theorems                                                                *)

\* On every machine the semaphores and buffers match the traffic, for any
\* machines, clients and mailboxes (Network, PostalDelivery, Send).
THEOREM PostSafe ==
    ASSUME MailAssumption
    PROVE  Spec => []PostInv
<1>1. IInv => PostInv
  BY DEF IInv, NetInv
<1> QED BY <1>1, IInvHolds, PTL

\* Mail is delivered in the order in which it was sent, once, and none that
\* the network accepted is lost, for any machines, clients and mailboxes.
THEOREM MailDelivered ==
    ASSUME MailAssumption
    PROVE  Spec => []MailInOrder
BY InvImpliesInOrder, IInvHolds, PTL

\* Two machines that run MailTest end it as they should: whoever halts
\* normally knows that both messages were read, and no message is refused by
\* a machine that halted normally (MailTest).
THEOREM MailTestEnds ==
    ASSUME MailAssumption, TwoMachines
    PROVE  Spec => []EndsRight
<1>1. MailInit => EndInv
  BY DEF MailInit, Init, EndInv, RefusedByAborted
<1>2. IInv /\ EndInv /\ [Next]_vars => EndInv'
  <2>1. ASSUME UNCHANGED vars, EndInv PROVE EndInv'
    BY Zenon, <2>1 DEF vars, netVars, EndInv, RefusedByAborted
  <2> QED BY <2>1, EndInvKept
<1>3. IInv /\ EndInv => EndsRight
  BY EndInvImpliesEndsRight
<1> QED BY <1>1, <1>2, <1>3, IInvHolds, PTL DEF Spec

=============================================================================
