---------------------------- MODULE DevicesProofs ----------------------------
(***************************************************************************)
(* The queue of pending interrupts and the console keep their promises for *)
(* any devices, delays, ticks and input.                                   *)
(***************************************************************************)
EXTENDS MCDevices, SequenceTheorems, WellFoundedInduction, TLAPS

-----------------------------------------------------------------------------
(* The sorted list of pending interrupts                                   *)

Entries == [type : I!Devices, left : Int]

\* A list is sorted, every interrupt in it was scheduled with a delay of its
\* device, each device of set armed is in it once, and nobody else is who was
\* not given a request.
Sorted(L) == \A i, j \in DOMAIN L : i < j => L[i].left <= L[j].left
Timely(e) == \E n \in Delays[e.type] : e.left <= n
Once(L, d) == \E i \in DOMAIN L : \A j \in DOMAIN L : L[j].type = d <=> j = i
Exact(L, armed) ==
    /\ L \in Seq(Entries)
    /\ Sorted(L)
    /\ \A i \in DOMAIN L : Timely(L[i]) /\ L[i].type \in armed \cup Requesters
    /\ \A d \in armed : Once(L, d)

\* No interrupt of the list has been due for more than k ticks.
Late(L, k) == \A i \in DOMAIN L : 0 <= L[i].left + k

\* A set of natural numbers has a smallest element.
LEMMA SmallestElement ==
    ASSUME NEW T, T \subseteq Nat, T # {}
    PROVE  \E x \in T : \A y \in T : x <= y
<1> DEFINE R == OpToRel(<, Nat)
<1>1. \A x, y \in Nat : <<y, x>> \in R <=> y < x
  BY DEF OpToRel
<1>2. IsWellFoundedOn(R, Nat)
  BY Zenon, NatLessThanWellFounded
<1> HIDE DEF R
<1>3. PICK x \in T : \A y \in T : ~ (<<y, x>> \in R)
  BY Zenon, <1>2, WFMin
<1>4. \A y \in T : ~(y < x)
  BY Zenon, <1>1, <1>3
<1> QED BY <1>3, <1>4

\* List::SortedInsert finds a place in every list: in front of the first
\* element with a larger key, or at the end.
LEMMA PlaceFound ==
    ASSUME NEW L \in Seq(Entries), NEW e \in Entries
    PROVE  /\ I!Place(L, e) \in 1..(Len(L) + 1)
           /\ \A i \in 1..(I!Place(L, e) - 1) : L[i].left <= e.left
           /\ I!Place(L, e) <= Len(L) => e.left < L[I!Place(L, e)].left
<1> DEFINE T == {p \in 1..(Len(L) + 1) : p <= Len(L) => e.left < L[p].left}
<1>1. Len(L) \in Nat /\ \A i \in 1..Len(L) : L[i].left \in Int
  <2>1. Len(L) \in Nat /\ \A i \in 1..Len(L) : L[i] \in Entries
    OBVIOUS
  <2> QED BY <2>1 DEF Entries
<1>2. T \subseteq Nat /\ Len(L) + 1 \in T
  BY <1>1
<1>3. PICK p \in T : \A q \in T : p <= q
  BY Zenon, <1>2, SmallestElement
<1>4. \A i \in 1..(p - 1) : L[i].left <= e.left
  <2> SUFFICES ASSUME NEW i \in 1..(p - 1), ~(L[i].left <= e.left) PROVE FALSE
    OBVIOUS
  <2>1. i \in 1..Len(L) /\ i < p
    BY <1>1, <1>3
  <2>2. i \in T
    BY <2>1, <1>1 DEF Entries
  <2> QED BY <2>1, <2>2, <1>1, <1>3
<1>5. p \in 1..(Len(L) + 1) /\ (p <= Len(L) => e.left < L[p].left)
  BY <1>3
<1> QED BY Zenon, <1>4, <1>5 DEF I!Place

\* R is L with e put in front of the first element that is due later.
Inserted(L, e, R) ==
    \E p \in 1..(Len(L) + 1) :
        /\ \A i \in 1..(p - 1) : R[i] = L[i] /\ L[i].left <= e.left
        /\ R[p] = e
        /\ \A i \in (p + 1)..(Len(L) + 1) : R[i] = L[i - 1]
        /\ p <= Len(L) => e.left < L[p].left

\* What SortedInsert leaves: the elements before the place, the new one, and
\* the others one further.
LEMMA InsertShape ==
    ASSUME NEW L \in Seq(Entries), NEW e \in Entries,
           NEW R, R = I!SortedInsert(L, e)
    PROVE  /\ R \in Seq(Entries)
           /\ Len(R) = Len(L) + 1
           /\ Inserted(L, e, R)
<1> DEFINE p == I!Place(L, e)
           a == SubSeq(L, 1, p - 1)
           b == SubSeq(L, p, Len(L))
<1>1. /\ p \in 1..(Len(L) + 1)
      /\ \A i \in 1..(p - 1) : L[i].left <= e.left
      /\ p <= Len(L) => e.left < L[p].left
  BY PlaceFound
<1>2. Len(L) \in Nat /\ \A i \in 1..Len(L) : L[i] \in Entries
  OBVIOUS
<1>3. R = (a \o <<e>>) \o b
  BY DEF I!SortedInsert
<1> HIDE DEF p
<1>4. a \in Seq(Entries) /\ Len(a) = p - 1 /\ \A i \in 1..(p - 1) : a[i] = L[i]
  BY <1>1, <1>2
<1>5. /\ b \in Seq(Entries) /\ Len(b) = Len(L) + 1 - p
      /\ \A i \in 1..(Len(L) + 1 - p) : b[i] = L[p + i - 1]
  BY <1>1, <1>2
<1> HIDE DEF a, b
<1>6. /\ a \o <<e>> \in Seq(Entries) /\ Len(a \o <<e>>) = p
      /\ \A i \in 1..(p - 1) : (a \o <<e>>)[i] = L[i]
      /\ (a \o <<e>>)[p] = e
  BY <1>1, <1>4
<1>7. /\ R \in Seq(Entries) /\ Len(R) = Len(L) + 1
      /\ \A i \in 1..p : R[i] = (a \o <<e>>)[i]
      /\ \A i \in (p + 1)..(Len(L) + 1) : R[i] = b[i - p]
  <2>1. PICK c \in Seq(Entries) : c = a \o <<e>>
    BY Zenon, <1>6
  <2>2. R = c \o b /\ Len(c) = p
    BY <1>3, <1>6, <2>1
  <2>3. /\ c \o b \in Seq(Entries) /\ Len(c \o b) = Len(c) + Len(b)
        /\ \A i \in 1..(Len(c) + Len(b)) :
              (c \o b)[i] = IF i <= Len(c) THEN c[i] ELSE b[i - Len(c)]
    BY Zenon, <1>5, ConcatProperties
  <2>4. /\ R \in Seq(Entries) /\ Len(R) = p + Len(b)
        /\ \A i \in 1..(p + Len(b)) : R[i] = IF i <= p THEN c[i] ELSE b[i - p]
    BY Zenon, <2>2, <2>3
  <2>5. p + Len(b) = Len(L) + 1
    BY <1>1, <1>2, <1>5
  <2>6. \A i \in 1..p : i \in 1..(p + Len(b)) /\ i <= p
    BY <1>1, <1>2, <1>5
  <2>7. \A i \in (p + 1)..(Len(L) + 1) : i \in 1..(p + Len(b)) /\ ~(i <= p)
    BY <1>1, <1>2, <1>5
  <2> QED BY Zenon, <2>1, <2>4, <2>5, <2>6, <2>7
<1>8. \A i \in (p + 1)..(Len(L) + 1) : R[i] = L[i - 1]
  <2> SUFFICES ASSUME NEW i \in (p + 1)..(Len(L) + 1) PROVE R[i] = L[i - 1]
    OBVIOUS
  <2>1. PICK j \in 1..(Len(L) + 1 - p) : j = i - p
    BY <1>1, <1>2
  <2>2. p + j - 1 = i - 1
    BY <1>1, <1>2, <2>1
  <2> QED BY <1>5, <1>7, <2>1, <2>2
<1> QED BY <1>1, <1>6, <1>7, <1>8 DEF Inserted

\* SortedInsert keeps the list exact, once more for the device it inserts.
LEMMA InsertExact ==
    ASSUME NEW armed, NEW L, NEW e \in Entries, Timely(e),
           e.type \in armed \cup Requesters, armed \cap Requesters = {},
           Exact(L, armed \ {e.type}),
           NEW R, R = I!SortedInsert(L, e)
    PROVE  /\ Exact(R, armed)
           /\ \A i \in DOMAIN R : R[i] = e \/ \E j \in DOMAIN L : R[i] = L[j]
<1>1. /\ L \in Seq(Entries) /\ Sorted(L)
      /\ \A i \in DOMAIN L : Timely(L[i]) /\ L[i].type \in (armed \ {e.type}) \cup Requesters
      /\ \A d \in armed \ {e.type} : Once(L, d)
  BY DEF Exact
<1>2. R \in Seq(Entries) /\ Len(R) = Len(L) + 1 /\ Inserted(L, e, R)
  BY <1>1, InsertShape
<1>3. PICK p \in 1..(Len(L) + 1) :
         /\ \A i \in 1..(p - 1) : R[i] = L[i] /\ L[i].left <= e.left
         /\ R[p] = e
         /\ \A i \in (p + 1)..(Len(L) + 1) : R[i] = L[i - 1]
         /\ p <= Len(L) => e.left < L[p].left
  BY <1>2 DEF Inserted
<1>4. /\ Len(L) \in Nat /\ DOMAIN L = 1..Len(L) /\ DOMAIN R = 1..(Len(L) + 1)
      /\ e.left \in Int /\ \A i \in 1..Len(L) : L[i].left \in Int
  <2>1. Len(L) \in Nat /\ DOMAIN L = 1..Len(L) /\ DOMAIN R = 1..Len(R)
        /\ \A i \in 1..Len(L) : L[i] \in Entries
    BY <1>1, <1>2
  <2> QED BY <1>2, <2>1 DEF Entries
<1>5. \A i \in DOMAIN R : \/ i < p /\ i \in DOMAIN L /\ R[i] = L[i]
                          \/ i = p /\ R[i] = e
                          \/ i > p /\ i - 1 \in DOMAIN L /\ R[i] = L[i - 1]
  BY <1>3, <1>4
<1>6. \A i \in DOMAIN R : R[i] = e \/ \E j \in DOMAIN L : R[i] = L[j]
  BY <1>5
<1>7. Sorted(R)
  <2>1. ASSUME NEW i \in DOMAIN L, i >= p PROVE e.left <= L[i].left
    <3>1. p \in DOMAIN L /\ e.left < L[p].left
      BY <1>3, <1>4, <2>1
    <3>2. p < i => L[p].left <= L[i].left
      BY Zenon, <1>1, <3>1 DEF Sorted
    <3> QED BY <1>4, <2>1, <3>1, <3>2
  <2> SUFFICES ASSUME NEW i \in DOMAIN R, NEW j \in DOMAIN R, i < j
               PROVE  R[i].left <= R[j].left
    BY DEF Sorted
  <2>2. CASE j < p
    BY <1>1, <1>4, <1>5, <2>2 DEF Sorted
  <2>3. CASE j = p
    BY <1>3, <1>4, <2>3
  <2>4. CASE j > p /\ i < p
    <3>1. R[i] = L[i] /\ R[j] = L[j - 1] /\ i \in DOMAIN L /\ j - 1 \in DOMAIN L
      BY <1>4, <1>5, <2>4
    <3>2. L[i].left <= e.left
      BY <1>3, <1>4, <2>4
    <3>3. e.left <= L[j - 1].left
      <4>1. j - 1 >= p
        BY <1>4, <2>4
      <4> QED BY <2>1, <3>1, <4>1
    <3> QED BY <1>4, <3>1, <3>2, <3>3
  <2>5. CASE j > p /\ i = p
    <3>1. R[i] = e /\ R[j] = L[j - 1] /\ j - 1 \in DOMAIN L /\ j - 1 >= p
      BY <1>3, <1>4, <1>5, <2>5
    <3> QED BY <2>1, <3>1
  <2>6. CASE j > p /\ i > p
    <3>1. /\ R[i] = L[i - 1] /\ R[j] = L[j - 1] /\ i - 1 \in DOMAIN L /\ j - 1 \in DOMAIN L
          /\ i - 1 < j - 1
      BY <1>4, <1>5, <2>6
    <3> QED BY <1>1, <3>1 DEF Sorted
  <2> QED BY <1>4, <2>2, <2>3, <2>4, <2>5, <2>6
<1>8. \A i \in DOMAIN R : Timely(R[i]) /\ R[i].type \in armed \cup Requesters
  BY <1>1, <1>6
<1>9. ASSUME NEW d \in armed PROVE Once(R, d)
  <2>1. CASE d = e.type
    <3>1. \A i \in DOMAIN L : L[i].type # d
      BY <1>1, <2>1
    <3>2. p \in DOMAIN R /\ \A i \in DOMAIN R : R[i].type = d <=> i = p
      BY <1>3, <1>4, <1>5, <2>1, <3>1
    <3> QED BY <3>2 DEF Once
  <2>2. CASE d # e.type
    <3>1. PICK k \in DOMAIN L : \A j \in DOMAIN L : L[j].type = d <=> j = k
      BY <1>1, <2>2 DEF Once
    <3>2. PICK q \in DOMAIN R : q = IF k < p THEN k ELSE k + 1
      BY <1>4
    <3>3. ASSUME NEW i \in DOMAIN R PROVE R[i].type = d <=> i = q
      BY <1>4, <1>5, <2>2, <3>1, <3>2
    <3> QED BY <3>3 DEF Once
  <2> QED BY <2>1, <2>2
<1> QED BY <1>2, <1>6, <1>7, <1>8, <1>9 DEF Exact

\* CheckIfDue takes the first interrupt off the list: its device is not in it
\* any more, the others are as before.
LEMMA TailExact ==
    ASSUME NEW armed, NEW L, L # <<>>, Exact(L, armed), armed \cap Requesters = {}
    PROVE  /\ 1 \in DOMAIN L /\ Head(L) = L[1] /\ L[1] \in Entries
           /\ Exact(Tail(L), armed \ {L[1].type})
           /\ \A i \in DOMAIN Tail(L) : i + 1 \in DOMAIN L /\ Tail(L)[i] = L[i + 1]
<1>1. /\ L \in Seq(Entries) /\ Sorted(L)
      /\ \A i \in DOMAIN L : Timely(L[i]) /\ L[i].type \in armed \cup Requesters
      /\ \A d \in armed : Once(L, d)
  BY DEF Exact
<1>2. /\ Len(L) \in Nat /\ DOMAIN L = 1..Len(L) /\ 1 \in DOMAIN L /\ Head(L) = L[1]
      /\ L[1] \in Entries /\ Tail(L) \in Seq(Entries) /\ DOMAIN Tail(L) = 1..(Len(L) - 1)
      /\ \A i \in 1..(Len(L) - 1) : Tail(L)[i] = L[i + 1]
  BY <1>1
<1> DEFINE T == Tail(L)
<1> HIDE DEF T
<1>3. /\ DOMAIN T = 1..(Len(L) - 1) /\ T \in Seq(Entries)
      /\ \A i \in DOMAIN T : i + 1 \in DOMAIN L /\ T[i] = L[i + 1]
  BY <1>2 DEF T
<1>4. Sorted(T)
  BY <1>1, <1>2, <1>3 DEF Sorted
<1>5. ASSUME NEW i \in DOMAIN T
      PROVE  Timely(T[i]) /\ T[i].type \in (armed \ {L[1].type}) \cup Requesters
  <2>1. Timely(T[i]) /\ T[i].type \in armed \cup Requesters
    BY <1>1, <1>3
  <2>2. ASSUME T[i].type = L[1].type, T[i].type \in armed PROVE FALSE
    <3>1. PICK k \in DOMAIN L : \A j \in DOMAIN L : L[j].type = L[1].type <=> j = k
      BY <1>1, <2>2 DEF Once
    <3>2. k = 1 /\ k = i + 1
      BY <1>2, <1>3, <2>2, <3>1
    <3> QED BY <1>2, <1>3, <3>2
  <2> QED BY <2>1, <2>2
<1>6. ASSUME NEW d \in armed \ {L[1].type} PROVE Once(T, d)
  <2>1. PICK k \in DOMAIN L : \A j \in DOMAIN L : L[j].type = d <=> j = k
    BY <1>1 DEF Once
  <2>2. PICK q \in DOMAIN T : k = q + 1
    <3>1. k # 1
      BY <1>2, <2>1
    <3>2. k - 1 \in DOMAIN T /\ k = (k - 1) + 1
      BY <1>2, <1>3, <3>1
    <3> QED BY Zenon, <3>2
  <2>3. ASSUME NEW i \in DOMAIN T PROVE T[i].type = d <=> i = q
    BY <1>2, <1>3, <2>1, <2>2
  <2> QED BY <2>3 DEF Once
<1>7. Exact(T, armed \ {L[1].type})
  BY <1>3, <1>4, <1>5, <1>6 DEF Exact
<1> QED BY <1>2, <1>3, <1>7 DEF T

\* Time passes for all pending interrupts alike.
LEMMA ElapseExact ==
    ASSUME NEW armed, NEW L, Exact(L, armed), NEW n \in Nat
    PROVE  /\ Exact(I!Elapse(L, n), armed)
           /\ DOMAIN I!Elapse(L, n) = DOMAIN L
           /\ \A i \in DOMAIN L : /\ I!Elapse(L, n)[i].type = L[i].type
                                  /\ I!Elapse(L, n)[i].left = L[i].left - n
                                  /\ L[i].left \in Int
<1> DEFINE E == I!Elapse(L, n)
<1>1. /\ L \in Seq(Entries) /\ Sorted(L)
      /\ \A i \in DOMAIN L : Timely(L[i]) /\ L[i].type \in armed \cup Requesters
      /\ \A d \in armed : Once(L, d)
  BY DEF Exact
<1>2. /\ Len(L) \in Nat /\ DOMAIN L = 1..Len(L)
      /\ \A i \in 1..Len(L) : L[i] \in Entries
  BY <1>1
<1>3. DOMAIN E = DOMAIN L /\ \A i \in DOMAIN L : E[i] = [L[i] EXCEPT !.left = @ - n]
  BY DEF I!Elapse
<1>4. \A i \in DOMAIN L : /\ E[i] \in Entries /\ E[i].type = L[i].type
                          /\ E[i].left = L[i].left - n /\ L[i].left \in Int
  BY <1>2, <1>3 DEF Entries
<1>5. E \in Seq(Entries)
  <2>1. E = [i \in 1..Len(L) |-> [L[i] EXCEPT !.left = @ - n]]
    BY <1>2 DEF I!Elapse
  <2>2. \A i \in 1..Len(L) : [L[i] EXCEPT !.left = @ - n] \in Entries
    BY <1>2, <1>3, <1>4
  <2> QED BY <1>2, <2>1, <2>2
<1> HIDE DEF E
<1>6. Sorted(E)
  BY <1>1, <1>3, <1>4 DEF Sorted
<1>7. ASSUME NEW i \in DOMAIN E PROVE Timely(E[i])
  <2>1. PICK k \in Delays[L[i].type] : L[i].left <= k
    BY <1>1, <1>3 DEF Timely
  <2>2. Delays[L[i].type] \subseteq Nat
    BY <1>2, <1>3, DevicesAssumption DEF I!InterruptsAssumption, Entries
  <2> QED BY <1>3, <1>4, <2>1, <2>2 DEF Timely
<1>8. \A d \in armed : Once(E, d)
  BY <1>1, <1>3, <1>4 DEF Once
<1>9. Exact(E, armed)
  BY <1>1, <1>3, <1>4, <1>5, <1>6, <1>7, <1>8 DEF Exact
<1> QED BY <1>3, <1>4, <1>9 DEF E

\* The interrupts of an exact list have a device and a time.
LEMMA ExactEntries ==
    ASSUME NEW armed, NEW L, Exact(L, armed)
    PROVE  \A i \in DOMAIN L : L[i] \in Entries /\ L[i].left \in Int
<1>1. L \in Seq(Entries)
  BY DEF Exact
<1>2. \A i \in DOMAIN L : L[i] \in Entries
  BY <1>1
<1> QED BY <1>2 DEF Entries

\* Interrupt::Schedule arms a device that has nothing pending.
LEMMA ScheduledExact ==
    ASSUME NEW armed, armed \subseteq {Timer} \cup Pollers, NEW d \in armed \cup Requesters,
           NEW L, Exact(L, armed \ {d}), NEW R \in I!Scheduled(L, d)
    PROVE  /\ Exact(R, armed)
           /\ \A i \in DOMAIN R : R[i].left > 0 \/ \E j \in DOMAIN L : R[i] = L[j]
<1>1. d \in I!Devices /\ armed \cap Requesters = {}
  BY DevicesAssumption DEF I!InterruptsAssumption, I!Devices
<1>2. Delays[d] \subseteq Nat \ {0}
  BY <1>1, DevicesAssumption DEF I!InterruptsAssumption
<1>3. PICK n \in Delays[d] : R = I!SortedInsert(L, [type |-> d, left |-> n])
  BY DEF I!Scheduled
<1>4. PICK e \in Entries : e = [type |-> d, left |-> n]
  <2>1. [type |-> d, left |-> n] \in Entries
    BY <1>1, <1>2 DEF Entries
  <2> QED BY Zenon, <2>1
<1>5. e.type = d /\ e.left = n /\ n \in Nat \ {0} /\ Timely(e)
  BY <1>2, <1>4 DEF Timely
<1>6. /\ Exact(R, armed)
      /\ \A i \in DOMAIN R : R[i] = e \/ \E j \in DOMAIN L : R[i] = L[j]
  BY <1>1, <1>3, <1>4, <1>5, InsertExact
<1> QED BY <1>5, <1>6

\* CheckIfDue puts the interrupt it looked at back.
LEMMA PutBackExact ==
    ASSUME NEW armed, armed \cap Requesters = {}, NEW L, Exact(L, armed)
    PROVE  /\ Exact(I!PutBack(L), armed)
           /\ \A i \in DOMAIN I!PutBack(L) : \E j \in DOMAIN L : I!PutBack(L)[i] = L[j]
<1>1. CASE L = <<>>
  BY <1>1 DEF I!PutBack
<1>2. CASE L # <<>>
  <2>1. /\ 1 \in DOMAIN L /\ Head(L) = L[1] /\ L[1] \in Entries
        /\ Exact(Tail(L), armed \ {L[1].type})
        /\ \A i \in DOMAIN Tail(L) : i + 1 \in DOMAIN L /\ Tail(L)[i] = L[i + 1]
    BY Zenon, <1>2, TailExact
  <2>2. Timely(L[1]) /\ L[1].type \in armed \cup Requesters
    BY <2>1 DEF Exact
  <2>3. PICK T, e, R : T = Tail(L) /\ e = L[1] /\ R = I!SortedInsert(T, e)
    BY Zenon
  <2>4. /\ e \in Entries /\ Timely(e) /\ e.type \in armed \cup Requesters
        /\ R = I!SortedInsert(T, e)
    BY Zenon, <2>1, <2>2, <2>3
  <2>5. Exact(T, armed \ {e.type})
    BY Zenon, <2>1, <2>3
  <2>6. /\ Exact(R, armed)
        /\ \A i \in DOMAIN R : R[i] = e \/ \E j \in DOMAIN T : R[i] = T[j]
    BY <2>4, <2>5, InsertExact
  <2>7. I!PutBack(L) = R
    BY Zenon, <1>2, <2>1, <2>3 DEF I!PutBack
  <2>8. \A i \in DOMAIN R : \E j \in DOMAIN L : R[i] = L[j]
    BY <2>1, <2>3, <2>6
  <2> QED BY Zenon, <2>6, <2>7, <2>8
<1> QED BY <1>1, <1>2

\* The handler of the first interrupt: a device that polls is armed again, one
\* that was given a request is not.
LEMMA HandlerExact ==
    ASSUME created \subseteq {Timer} \cup Pollers,
           NEW L, L # <<>>, Exact(L, created), I!CallHandler(L[1].type, Tail(L))
    PROVE  /\ Exact(pending', created)
           /\ \A i \in DOMAIN pending' :
                 pending'[i].left > 0 \/ \E j \in DOMAIN L : pending'[i] = L[j]
<1> DEFINE t == L[1].type
<1>1. created \cap Requesters = {}
  BY DevicesAssumption DEF I!InterruptsAssumption
<1>2. /\ 1 \in DOMAIN L /\ Exact(Tail(L), created \ {t})
      /\ \A i \in DOMAIN Tail(L) : i + 1 \in DOMAIN L /\ Tail(L)[i] = L[i + 1]
  BY Zenon, <1>1, TailExact
<1>3. CASE t \in created
  <2>1. pending' \in I!Scheduled(Tail(L), t)
    BY <1>3 DEF I!CallHandler
  <2>2. PICK T, d, R : T = Tail(L) /\ d = t /\ R = pending'
    BY Zenon
  <2>3. /\ Exact(T, created \ {d}) /\ R \in I!Scheduled(T, d)
        /\ d \in created \cup Requesters
    BY Zenon, <1>2, <1>3, <2>1, <2>2
  <2>4. /\ Exact(R, created)
        /\ \A i \in DOMAIN R : R[i].left > 0 \/ \E j \in DOMAIN T : R[i] = T[j]
    BY <2>3, ScheduledExact
  <2> QED BY <1>2, <2>2, <2>4
<1>4. CASE t \notin created
  <2>1. pending' = Tail(L)
    BY <1>4 DEF I!CallHandler
  <2>2. created \ {t} = created
    BY <1>4
  <2> QED BY Zenon, <1>2, <2>1, <2>2
<1> QED BY <1>3, <1>4

-----------------------------------------------------------------------------
(* The queue of pending interrupts                                         *)

\* Beyond PendingExact: only armed devices are pending, time has not run past
\* an interrupt except within OneTick, and IdleMode is the status of Idle.
QueueInv ==
    /\ Exact(pending, created)
    /\ created \subseteq {Timer} \cup Pollers
    /\ level \in {"IntOn", "IntOff"}
    /\ mode \in {"SystemMode", "UserMode", "IdleMode"}
    /\ yieldOnReturn \in BOOLEAN
    /\ at \in {"code", "OneTick", "Idle", "IdleMore", "Halted"}
    /\ Late(pending, IF at = "OneTick" THEN SystemTick ELSE 0)
    /\ at \in {"Idle", "IdleMore", "Halted"} <=> mode = "IdleMode"
    /\ I!OnlyTimerOverdue
    /\ at = "Halted" => created \cap Pollers = {}

\* The invariant says what the run checks.
LEMMA QueueSays == QueueInv => I!PendingExact
<1> SUFFICES ASSUME QueueInv PROVE I!PendingExact
  OBVIOUS
<1>1. Exact(pending, created)
  BY DEF QueueInv
<1>2. /\ pending \in Seq([type : I!Devices, left : Int])
      /\ \A i \in DOMAIN pending : pending[i].left \in Int
  <2>1. pending \in Seq(Entries)
    BY <1>1 DEF Exact
  <2> QED BY Zenon, <1>1, <2>1, ExactEntries DEF Entries
<1>3. \A i \in DOMAIN pending : -SystemTick <= pending[i].left
  BY <1>2, DevicesAssumption DEF QueueInv, Late, I!InterruptsAssumption
<1>4. \A i \in DOMAIN pending : \E n \in Delays[pending[i].type] : pending[i].left <= n
  BY <1>1 DEF Exact, Timely
<1>5. I!TypeOK
  BY <1>2, <1>3, <1>4 DEF QueueInv, I!TypeOK
<1>6. I!PendingSorted
  BY <1>1, <1>5 DEF I!PendingSorted, Exact, Sorted
<1>7. ASSUME NEW d \in created PROVE \E i \in DOMAIN pending : I!Of(d) = {i}
  <2>1. PICK i \in DOMAIN pending : \A j \in DOMAIN pending : pending[j].type = d <=> j = i
    BY <1>1 DEF Exact, Once
  <2>2. I!Of(d) = {i}
    BY <2>1 DEF I!Of
  <2> QED BY <2>2
<1>8. I!PolledOnce
  BY <1>7 DEF QueueInv, I!PolledOnce
<1> QED BY <1>6, <1>8 DEF QueueInv, I!PendingExact

\* The machine starts with the timer armed, or with nothing pending.
LEMMA QueueStarts == I!Init => QueueInv
<1> SUFFICES ASSUME I!Init PROVE QueueInv
  OBVIOUS
<1>1. Exact(<<>>, {})
  BY DEF Exact, Sorted, Entries
<1>2. /\ Exact(pending, created) /\ created \subseteq {Timer} \cup Pollers
      /\ \A i \in DOMAIN pending : pending[i].left > 0
  <2>1. CASE RandomYield
    <3>1. created = {Timer} /\ pending \in I!Scheduled(<<>>, Timer)
      BY <2>1 DEF I!Init
    <3>2. {Timer} \ {Timer} = {}
      OBVIOUS
    <3>3. /\ Exact(pending, {Timer})
          /\ \A i \in DOMAIN pending :
                pending[i].left > 0 \/ \E j \in DOMAIN <<>> : pending[i] = <<>>[j]
      BY <1>1, <3>1, <3>2, ScheduledExact
    <3>4. DOMAIN <<>> = {}
      OBVIOUS
    <3> QED BY Zenon, <3>1, <3>3, <3>4
  <2>2. CASE ~RandomYield
    <3>1. created = {} /\ pending = <<>>
      BY <2>2 DEF I!Init
    <3> QED BY <1>1, <3>1
  <2> QED BY <2>1, <2>2
<1>3. \A i \in DOMAIN pending : pending[i].left \in Int
  BY Zenon, <1>2, ExactEntries
<1>4. I!OnlyTimerOverdue /\ Late(pending, 0)
  BY <1>2, <1>3 DEF Late, I!OnlyTimerOverdue
<1> QED BY Zenon, <1>2, <1>4 DEF I!Init, QueueInv

\* The constructor of a device that polls, and a request to another.
LEMMA ScheduleInv ==
    ASSUME QueueInv, at = "code", NEW d, d \in created' \cup Requesters,
           pending' \in I!Scheduled(pending, d), created = created' \ {d},
           created' \subseteq {Timer} \cup Pollers,
           UNCHANGED <<level, mode, yieldOnReturn, at>>
    PROVE  QueueInv'
<1>1. PICK R, A : R = pending' /\ A = created'
  OBVIOUS
<1>2. Exact(pending, A \ {d}) /\ A \subseteq {Timer} \cup Pollers
  BY Zenon, <1>1 DEF QueueInv
<1>3. d \in A \cup Requesters /\ R \in I!Scheduled(pending, d)
  BY Zenon, <1>1
<1>4. /\ Exact(R, A)
      /\ \A i \in DOMAIN R : R[i].left > 0 \/ \E j \in DOMAIN pending : R[i] = pending[j]
  BY ONLY <1>2, <1>3, ScheduledExact
<1>5. \A i \in DOMAIN R : R[i].left \in Int
  BY Zenon, <1>4, ExactEntries
<1>6. \A i \in DOMAIN R : 0 <= R[i].left /\ (R[i].left <= 0 => R[i].type = Timer)
  <2>1. \A j \in DOMAIN pending :
           0 <= pending[j].left + 0 /\ (pending[j].left <= 0 => pending[j].type = Timer)
    BY DEF QueueInv, Late, I!OnlyTimerOverdue
  <2> QED BY <1>4, <1>5, <2>1
<1>7. Late(pending, 0)' /\ I!OnlyTimerOverdue'
  BY <1>1, <1>5, <1>6 DEF Late, I!OnlyTimerOverdue
<1>8. Exact(pending, created)'
  BY Zenon, <1>1, <1>4
<1> QED BY <1>7, <1>8 DEF QueueInv

\* OneTick: the clock moves by a tick at most, and what was not due before is
\* due by a tick at most.
LEMMA TickInv ==
    ASSUME QueueInv, at = "code", I!OneTick
    PROVE  QueueInv'
<1>0. PICK n \in Nat : n <= SystemTick /\ pending' = I!Elapse(pending, n)
  <2>1. SystemTick \in Nat /\ UserTick \in Nat /\ UserTick <= SystemTick
    BY DevicesAssumption DEF I!InterruptsAssumption
  <2> QED BY <2>1 DEF I!OneTick
<1>1. PICK P : /\ n <= SystemTick /\ P = I!Elapse(pending, n)
               /\ pending' = P
  BY Zenon, <1>0
<1>2. Exact(pending, created)
  BY DEF QueueInv
<1>3. /\ Exact(P, created) /\ DOMAIN P = DOMAIN pending
      /\ \A i \in DOMAIN pending : P[i].left = pending[i].left - n /\ pending[i].left \in Int
  BY <1>1, <1>2, ElapseExact
<1>4. \A i \in DOMAIN pending : 0 <= pending[i].left + 0
  BY DEF QueueInv, Late
<1>5. SystemTick \in Nat
  BY DevicesAssumption DEF I!InterruptsAssumption
<1>6. Late(pending, SystemTick)'
  BY <1>1, <1>3, <1>4, <1>5 DEF Late
<1>7. Exact(pending, created)'
  BY <1>1, <1>3 DEF I!OneTick
<1> QED BY <1>6, <1>7 DEF QueueInv, I!OneTick, I!OnlyTimerOverdue

\* A call of CheckIfDue that finds something due, from OneTick or Idle.
LEMMA CheckInv ==
    ASSUME QueueInv, NEW L, L # <<>>, Exact(L, created),
           I!CallHandler(L[1].type, Tail(L)), UNCHANGED <<created, level, mode>>,
           at' \in {"OneTick", "IdleMore"}, at' = "IdleMore" <=> mode = "IdleMode",
           Late(L, IF at' = "OneTick" THEN SystemTick ELSE 0)
    PROVE  QueueInv'
<1>1. /\ Exact(pending', created)
      /\ \A i \in DOMAIN pending' :
            pending'[i].left > 0 \/ \E j \in DOMAIN L : pending'[i] = L[j]
  BY HandlerExact DEF QueueInv
<1>2. PICK R, k : R = pending' /\ k = IF at' = "OneTick" THEN SystemTick ELSE 0
  OBVIOUS
<1>3. k \in Nat
  BY <1>2, DevicesAssumption DEF I!InterruptsAssumption
<1>4. \A i \in DOMAIN R : R[i].left \in Int
  BY Zenon, <1>1, <1>2, ExactEntries
<1>5. \A i \in DOMAIN L : 0 <= L[i].left + k
  BY <1>2 DEF Late
<1>6. \A i \in DOMAIN R : 0 <= R[i].left + k
  BY <1>1, <1>2, <1>3, <1>4, <1>5
<1>7. Late(pending, IF at = "OneTick" THEN SystemTick ELSE 0)'
  BY <1>2, <1>6 DEF Late
<1>8. yieldOnReturn' \in BOOLEAN
  BY Zenon DEF I!CallHandler
<1>9. Exact(pending, created)'
  BY <1>1
<1> QED BY Zenon, <1>7, <1>8, <1>9 DEF QueueInv, I!OnlyTimerOverdue

\* CheckIfDue(TRUE) moves the clock to the first interrupt, and past none.
LEMMA AdvancedExact ==
    ASSUME QueueInv, at = "Idle"
    PROVE  /\ Exact(I!Advanced, created) /\ Late(I!Advanced, 0)
           /\ I!Advanced = <<>> <=> pending = <<>>
           /\ pending # <<>> => /\ I!Advanced[1].left <= 0
                                /\ I!Advanced[1].type = Head(pending).type
<1>1. Exact(pending, created) /\ Late(pending, 0)
  BY DEF QueueInv
<1>2. CASE pending # <<>> /\ Head(pending).left > 0
  <2>0. PICK n \in Nat : n = Head(pending).left /\ I!Advanced = I!Elapse(pending, n)
    <3>1. Head(pending).left \in Nat
      <4>1. pending \in Seq(Entries)
        BY <1>1 DEF Exact
      <4>2. Head(pending) \in Entries
        BY <1>2, <4>1
      <4> QED BY <1>2, <4>2 DEF Entries
    <3> QED BY <1>2, <3>1 DEF I!Advanced
  <2>1. PICK P : /\ n = Head(pending).left /\ P = I!Elapse(pending, n)
                 /\ I!Advanced = P
    BY Zenon, <2>0
  <2>2. /\ Exact(P, created) /\ DOMAIN P = DOMAIN pending
        /\ \A i \in DOMAIN pending : /\ P[i].type = pending[i].type
                                     /\ P[i].left = pending[i].left - n
                                     /\ pending[i].left \in Int
    <3>1. P = I!Elapse(pending, n)
      BY Zenon, <2>1
    <3> QED BY <1>1, <3>1, ElapseExact
  <2>3. /\ 1 \in DOMAIN pending /\ Head(pending) = pending[1]
        /\ \A i \in DOMAIN pending : i # 1 => 1 < i
    <3>1. pending \in Seq(Entries)
      BY Zenon, <1>1 DEF Exact
    <3> QED BY <1>2, <3>1
  <2>4. \A i \in DOMAIN pending : n <= pending[i].left
    <3>1. \A i \in DOMAIN pending : i # 1 => pending[1].left <= pending[i].left
      BY <1>1, <2>3 DEF Exact, Sorted
    <3> QED BY <2>1, <2>2, <2>3, <3>1
  <2>5. Late(P, 0)
    BY <2>2, <2>4 DEF Late
  <2>6. P # <<>>
    BY <2>2, <2>3
  <2> QED BY <1>2, <2>1, <2>2, <2>3, <2>5, <2>6
<1>3. CASE ~(pending # <<>> /\ Head(pending).left > 0)
  <2>1. I!Advanced = pending
    BY <1>3 DEF I!Advanced
  <2>2. pending # <<>> => Head(pending) = pending[1] /\ pending[1].left \in Int
    <3>1. pending \in Seq(Entries)
      BY <1>1 DEF Exact
    <3>2. pending # <<>> => 1 \in DOMAIN pending /\ Head(pending) = pending[1]
      BY <3>1
    <3> QED BY <1>1, <3>2, ExactEntries
  <2> QED BY <1>1, <1>3, <2>1, <2>2
<1> QED BY <1>2, <1>3

\* CheckIfDue found nothing to call: what it puts back is as late as it was,
\* and due only if it is the timer, alone in an idle machine.
LEMMA ReturnExact ==
    ASSUME created \subseteq {Timer} \cup Pollers, NEW L, Exact(L, created),
           ~I!Callable(L), NEW k \in Nat, Late(L, k), NEW R, R = I!PutBack(L)
    PROVE  /\ Exact(R, created) /\ Late(R, k)
           /\ \A i \in DOMAIN R : R[i].left > 0 \/ (R[i].type = Timer /\ mode = "IdleMode")
<1>1. created \cap Requesters = {}
  BY DevicesAssumption DEF I!InterruptsAssumption
<1>2. Exact(R, created) /\ \A i \in DOMAIN R : \E j \in DOMAIN L : R[i] = L[j]
  BY <1>1, PutBackExact
<1>3. Late(R, k)
  BY <1>2 DEF Late
<1>4. ASSUME NEW i \in DOMAIN L PROVE L[i].left > 0 \/ (L[i].type = Timer /\ mode = "IdleMode")
  <2>1. L \in Seq(Entries) /\ Sorted(L) /\ \A j \in DOMAIN L : L[j].left \in Int
    BY Zenon, ExactEntries DEF Exact
  <2>2. L # <<>> /\ 1 \in DOMAIN L /\ Len(L) \in Nat /\ DOMAIN L = 1..Len(L)
    BY <2>1
  <2>3. i # 1 => L[1].left <= L[i].left
    <3>1. i # 1 => 1 < i
      BY <2>2
    <3> QED BY Zenon, <2>1, <2>2, <3>1 DEF Sorted
  <2>4. L[1].left > 0 \/ (mode = "IdleMode" /\ Len(L) = 1 /\ L[1].type = Timer)
    BY <2>1, <2>2 DEF I!Callable, I!OnlyTimer
  <2> QED BY <2>1, <2>2, <2>3, <2>4
<1> QED BY Zenon, <1>2, <1>3, <1>4

\* The end of OneTick and of Idle: code runs again, and nothing but the timer
\* is overdue.
LEMMA ReturnInv ==
    ASSUME QueueInv, at \in {"OneTick", "IdleMore"}, ~I!Callable(pending),
           pending' = I!PutBack(pending), at' = "code",
           yieldOnReturn' \in BOOLEAN, level' \in {"IntOn", "IntOff"},
           mode' \in {"SystemMode", "UserMode"}, created' = created
    PROVE  QueueInv'
<1>1. PICK k \in Nat : /\ k = IF at = "OneTick" THEN SystemTick ELSE 0
                       /\ Late(pending, k)
  BY DevicesAssumption DEF QueueInv, I!InterruptsAssumption
<1>2. PICK R : R = I!PutBack(pending) /\ pending' = R
  OBVIOUS
<1>3. /\ Exact(R, created) /\ Late(R, k)
      /\ \A i \in DOMAIN R : R[i].left > 0 \/ (R[i].type = Timer /\ mode = "IdleMode")
  BY <1>1, <1>2, ReturnExact DEF QueueInv
<1>4. \A i \in DOMAIN R : R[i].left \in Int
  BY Zenon, <1>3, ExactEntries
<1>5. mode = "IdleMode" => k = 0
  BY <1>1 DEF QueueInv
<1>6. \A i \in DOMAIN R : 0 <= R[i].left + 0 /\ (R[i].left <= 0 => R[i].type = Timer)
  BY <1>3, <1>4, <1>5 DEF Late
<1>7. Late(pending, 0)' /\ I!OnlyTimerOverdue'
  BY <1>2, <1>6 DEF Late, I!OnlyTimerOverdue
<1>8. Exact(pending, created)'
  BY <1>2, <1>3
<1> QED BY Zenon, <1>7, <1>8 DEF QueueInv

\* Interrupt::Idle halts the machine: only the timer can be pending.
LEMMA HaltInv ==
    ASSUME QueueInv, I!Halt
    PROVE  QueueInv'
<1>1. PICK L, R : L = I!Advanced /\ R = I!PutBack(L) /\ pending' = R
  BY DEF I!Halt
<1>2. /\ at = "Idle" /\ ~I!Callable(L) /\ at' = "Halted"
      /\ UNCHANGED <<created, level, mode, yieldOnReturn>>
  BY <1>1 DEF I!Halt
<1>3. /\ Exact(L, created) /\ Late(L, 0)
      /\ L = <<>> <=> pending = <<>>
      /\ pending # <<>> => L[1].left <= 0
  BY Zenon, <1>1, <1>2, AdvancedExact
<1>4. Exact(R, created) /\ Late(R, 0)
  BY <1>1, <1>2, <1>3, ReturnExact DEF QueueInv
<1>5. created \cap Pollers = {}
  <2> SUFFICES ASSUME NEW d \in created, d \in Pollers PROVE FALSE
    OBVIOUS
  <2>1. PICK i \in DOMAIN L : L[i].type = d
    BY <1>3 DEF Exact, Once
  <2>2. L \in Seq(Entries)
    BY <1>3 DEF Exact
  <2>3. L # <<>> /\ DOMAIN L = 1..Len(L) /\ Len(L) \in Nat
    BY <2>1, <2>2
  <2>4. Len(L) = 1 /\ L[1].type = Timer
    BY <1>2, <1>3, <2>3 DEF I!Callable, I!OnlyTimer
  <2>5. d = Timer
    BY <2>1, <2>3, <2>4
  <2> QED BY <2>5, DevicesAssumption DEF I!InterruptsAssumption
<1>6. Exact(pending, created)' /\ Late(pending, 0)'
  BY <1>1, <1>2, <1>4 DEF Late
<1> QED BY <1>2, <1>5, <1>6 DEF QueueInv, I!OnlyTimerOverdue

\* No step of the machine breaks the invariant.
LEMMA QueueKept == QueueInv /\ [I!Next]_interruptVars => QueueInv'
<1> SUFFICES ASSUME QueueInv, [I!Next]_interruptVars PROVE QueueInv'
  OBVIOUS
<1>1. ASSUME NEW d \in I!Devices, I!Create(d) PROVE QueueInv'
  <2>1. d \in created' /\ created = created' \ {d} /\ created' \subseteq {Timer} \cup Pollers
    BY <1>1 DEF I!Create, QueueInv
  <2> QED BY <1>1, <2>1, ScheduleInv DEF I!Create, I!InKernel
<1>2. ASSUME NEW d \in I!Devices, I!Request(d) PROVE QueueInv'
  <2>1. created = created' \ {d} /\ created' \subseteq {Timer} \cup Pollers
    BY <1>2, DevicesAssumption DEF I!Request, QueueInv, I!InterruptsAssumption
  <2> QED BY Zenon, <1>2, <2>1, ScheduleInv DEF I!Request, I!InKernel
<1>3. CASE I!Enable \/ I!UserInstruction
  BY <1>3, TickInv DEF I!Enable, I!UserInstruction, I!InKernel
<1>4. CASE I!OneTickCheck \/ I!IdleMore
  <2>1. /\ Exact(pending, created) /\ Late(pending, IF at' = "OneTick" THEN SystemTick ELSE 0)
        /\ at' \in {"OneTick", "IdleMore"} /\ (at' = "IdleMore" <=> mode = "IdleMode")
        /\ pending # <<>> /\ UNCHANGED <<created, level, mode>>
    BY <1>4 DEF QueueInv, I!OneTickCheck, I!IdleMore, I!Callable
  <2>2. Head(pending) = pending[1]
    BY <2>1 DEF Exact
  <2>3. I!CallHandler(pending[1].type, Tail(pending))
    BY <1>4, <2>2 DEF I!OneTickCheck, I!IdleMore
  <2> QED BY <2>1, <2>3, CheckInv
<1>5. CASE I!IdleCheck
  <2>1. PICK L : L = I!Advanced
    OBVIOUS
  <2>2. /\ at = "Idle" /\ at' = "IdleMore" /\ UNCHANGED <<created, level, mode>>
        /\ L # <<>> /\ I!CallHandler(Head(pending).type, Tail(L))
    BY <1>5, <2>1 DEF I!IdleCheck, I!Callable
  <2>3. Exact(L, created) /\ Late(L, 0) /\ L[1].type = Head(pending).type
    BY <2>1, <2>2, AdvancedExact
  <2>4. mode = "IdleMode"
    BY <2>2 DEF QueueInv
  <2> QED BY <2>2, <2>3, <2>4, CheckInv
<1>6. CASE I!OneTickReturn
  <2>1. mode' \in {"SystemMode", "UserMode"}
    BY <1>6 DEF I!OneTickReturn, QueueInv
  <2> QED BY Zenon, <1>6, <2>1, ReturnInv DEF I!OneTickReturn
<1>7. CASE I!IdleReturn
  <2>1. level' \in {"IntOn", "IntOff"}
    BY <1>7 DEF I!IdleReturn, QueueInv
  <2> QED BY Zenon, <1>7, <2>1, ReturnInv DEF I!IdleReturn
<1>8. CASE I!Halt
  BY <1>8, HaltInv
<1>9. CASE I!Disable \/ I!EnterUser \/ I!RaiseException \/ I!Idle
  BY <1>9 DEF I!Disable, I!EnterUser, I!RaiseException, I!Idle, I!InKernel, QueueInv,
              Exact, Late, I!OnlyTimerOverdue, Once, Sorted
<1>10. CASE I!Halted \/ UNCHANGED interruptVars
  BY <1>10 DEF I!Halted, I!vars, interruptVars, QueueInv, Exact, Late, I!OnlyTimerOverdue,
               Once, Sorted
<1> QED BY <1>1, <1>2, <1>3, <1>4, <1>5, <1>6, <1>7, <1>8, <1>9, <1>10 DEF I!Next

\* Whatever mix of ticks, idle periods, requests and put-backs has changed it,
\* the list CheckIfDue looks at is sorted, holds each polling device once, and
\* holds nothing overdue but the timer when code runs (Interrupt::Schedule,
\* OneTick, Idle, CheckIfDue).
THEOREM PendingStaysExact == MCSpec => []PendingExact
<1>1. MCInit => QueueInv
  BY QueueStarts DEF MCInit
<1>2. ASSUME QueueInv, [MCNext]_<<device, interruptVars, consoleVars, vars>> PROVE QueueInv'
  <2>1. [I!Next]_interruptVars
    BY <1>2 DEF MCNext
  <2> QED BY <1>2, <2>1, QueueKept
<1>3. QueueInv => PendingExact
  BY Zenon, QueueSays DEF PendingExact
<1> QED BY <1>1, <1>2, <1>3, PTL DEF MCSpec

-----------------------------------------------------------------------------
(* The console and its echo                                                *)

\* Every character the console has read is counted by readAvail, about to be
\* echoed, or displayed; the display is busy, or has told so, exactly while the
\* thread waits for it; and the buffer holds the one character that is counted.
ConsoleTypes ==
    /\ typed \in Seq(Chars) /\ Len(typed) <= MaxTyped
    /\ nread \in 0..Len(typed)
    /\ incoming \in Chars \cup {EOF}
    /\ closed \in BOOLEAN /\ putBusy \in BOOLEAN /\ aborted \in BOOLEAN
    /\ readAvail \in Nat /\ writeDone \in Nat
    /\ pc \in {"wait", "echo", "written", "returned"}
    /\ output \in Seq(Chars \cup {EOF})

ConsoleCount ==
    /\ nread = readAvail + (IF pc = "echo" THEN 1 ELSE 0) + Len(output)
    /\ pc # "written" => ~putBusy /\ writeDone = 0
    /\ pc = "written" => writeDone = IF putBusy THEN 0 ELSE 1
    /\ aborted => closed /\ nread = Len(typed)

ConsoleEchoes ==
    ~C!EOFTyped =>
       /\ \A i \in 1..Len(output) : output[i] = typed[i]
       /\ incoming = EOF => readAvail = 0 /\ pc # "echo"
       /\ incoming # EOF => nread = Len(output) + 1 /\ incoming = typed[nread]

ConsoleInv == ConsoleTypes /\ ConsoleCount /\ ConsoleEchoes

\* The invariant says what the run checks.
LEMMA ConsoleSays == ConsoleInv => C!TypeOK /\ C!EchoInOrder /\ C!AbortOnlyAtEnd
<1> SUFFICES ASSUME ConsoleInv PROVE C!TypeOK /\ C!EchoInOrder /\ C!AbortOnlyAtEnd
  OBVIOUS
<1>1. Len(output) \in Nat /\ Len(typed) \in Nat /\ Len(output) <= Len(typed)
  BY DEF ConsoleInv, ConsoleTypes, ConsoleCount, ConsoleEchoes
<1>2. {closed, putBusy, aborted} \subseteq BOOLEAN
  BY Zenon DEF ConsoleInv, ConsoleTypes, ConsoleCount, ConsoleEchoes
<1>3. C!TypeOK
  BY <1>1, <1>2 DEF ConsoleInv, ConsoleTypes, ConsoleCount, ConsoleEchoes, C!TypeOK
<1>4. ASSUME ~C!EOFTyped PROVE output = SubSeq(typed, 1, Len(output))
  <2>1. /\ output \in Seq(Chars \cup {EOF}) /\ typed \in Seq(Chars)
        /\ \A i \in 1..Len(output) : output[i] = typed[i]
    BY Zenon, <1>4 DEF ConsoleInv, ConsoleTypes, ConsoleCount, ConsoleEchoes
  <2> QED BY <1>1, <2>1
<1> QED BY <1>3, <1>4 DEF ConsoleInv, ConsoleTypes, ConsoleCount, ConsoleEchoes, C!EchoInOrder, C!AbortOnlyAtEnd

\* Nothing has been typed, and the thread waits.
LEMMA ConsoleStarts == C!Init => ConsoleInv
<1> SUFFICES ASSUME C!Init PROVE ConsoleInv
  OBVIOUS
<1>1. /\ typed \in Seq(Chars) /\ output \in Seq(Chars \cup {EOF})
      /\ Len(typed) = 0 /\ Len(output) = 0 /\ MaxTyped \in Nat
  BY DevicesAssumption DEF C!ConsoleAssumption, C!Init
<1>2. closed \in BOOLEAN /\ putBusy \in BOOLEAN /\ aborted \in BOOLEAN /\ ~aborted /\ ~putBusy
  BY Zenon DEF C!Init
<1>3. /\ nread = 0 /\ incoming = EOF /\ readAvail = 0 /\ writeDone = 0 /\ pc = "wait"
  BY Zenon DEF C!Init
<1> QED BY <1>1, <1>2, <1>3 DEF ConsoleInv, ConsoleTypes, ConsoleCount, ConsoleEchoes

\* No step of the keyboard, the console or ConsoleTest breaks the invariant.
LEMMA ConsoleKept == ConsoleInv /\ [C!Next]_consoleVars => ConsoleInv'
<1> SUFFICES ASSUME ConsoleInv, [C!Next]_consoleVars PROVE ConsoleInv'
  OBVIOUS
<1>0. ConsoleTypes /\ ConsoleCount /\ ConsoleEchoes
  BY Zenon DEF ConsoleInv
<1> USE DEF ConsoleTypes, ConsoleCount, ConsoleEchoes
<1>1. ASSUME NEW c \in Chars, C!Type(c) PROVE ConsoleInv'
  <2>1. /\ typed' \in Seq(Chars) /\ Len(typed') = Len(typed) + 1
        /\ Len(typed) \in Nat /\ Len(typed) < MaxTyped /\ MaxTyped \in Nat
        /\ \A i \in 1..Len(typed) : typed'[i] = typed[i]
    BY <1>0, <1>1, DevicesAssumption DEF C!Type, C!ConsoleAssumption
  <2>2. C!EOFTyped => C!EOFTyped'
    <3>1. DOMAIN typed = 1..Len(typed) /\ DOMAIN typed' = 1..(Len(typed) + 1)
      BY <2>1
    <3>2. \A i \in DOMAIN typed : i \in DOMAIN typed' /\ typed'[i] = typed[i]
      BY ONLY <2>1, <3>1
    <3> QED BY Zenon, <3>2 DEF C!EOFTyped
  <2>3. ~aborted
    BY Zenon, <1>0, <1>1 DEF C!Type
  <2>4. UNCHANGED <<nread, closed, incoming, putBusy, readAvail, writeDone, pc, ch, output,
                    aborted>>
    BY Zenon, <1>1 DEF C!Type
  <2>5. nread <= Len(typed) /\ nread \in Nat
    BY <1>0, <2>1
  <2>6. ConsoleTypes'
    <3>1. Len(typed') <= MaxTyped /\ nread' \in 0..Len(typed')
      BY ONLY <2>1, <2>4, <2>5
    <3> QED BY Zenon, <1>0, <2>1, <2>4, <3>1
  <2>7. ConsoleCount'
    BY Zenon, <1>0, <2>3, <2>4
  <2>8. ConsoleEchoes'
    <3>1. readAvail \in Nat /\ Len(output) \in Nat /\ Len(output) <= nread
      BY <1>0
    <3>2. \A i \in 1..Len(output) : typed'[i] = typed[i]
      BY ONLY <2>1, <2>5, <3>1
    <3>3. nread = Len(output) + 1 => typed'[nread] = typed[nread]
      BY ONLY <2>1, <2>5, <3>1
    <3> QED BY Zenon, <1>0, <2>2, <2>4, <3>2, <3>3
  <2> QED BY Zenon, <2>6, <2>7, <2>8 DEF ConsoleInv
<1>2. CASE C!CloseInput
  BY Zenon, <1>0, <1>2 DEF C!CloseInput, C!EOFTyped, ConsoleInv
<1>3. CASE C!CheckCharAvail
  <2>1. CASE nread < Len(typed)
    <3>1. /\ incoming = EOF /\ incoming' = typed[nread + 1] /\ nread' = nread + 1
          /\ readAvail' = readAvail + 1 /\ ~aborted
          /\ UNCHANGED <<typed, closed, putBusy, writeDone, pc, ch, output, aborted>>
      BY Zenon, <1>3, <2>1 DEF C!CheckCharAvail, C!CanRead
    <3>2. nread + 1 \in DOMAIN typed /\ typed[nread + 1] \in Chars
      BY <1>0, <2>1
    <3>3. C!EOFTyped' = C!EOFTyped /\ (~C!EOFTyped => incoming' # EOF)
      BY Zenon, <3>1, <3>2 DEF C!EOFTyped
    <3>4. ConsoleTypes'
      BY <1>0, <3>1, <3>2
    <3>5. ConsoleCount'
      BY <1>0, <3>1
    <3>6. ConsoleEchoes'
      BY <1>0, <3>1, <3>3
    <3> QED BY Zenon, <3>4, <3>5, <3>6 DEF ConsoleInv
  <2>2. CASE ~(nread < Len(typed))
    <3>1. /\ aborted' = TRUE /\ closed
          /\ UNCHANGED <<typed, nread, closed, incoming, putBusy, readAvail, writeDone, pc, ch,
                         output>>
      BY Zenon, <1>3, <2>2 DEF C!CheckCharAvail, C!CanRead, C!PollFile
    <3>2. C!EOFTyped' = C!EOFTyped
      BY Zenon, <3>1 DEF C!EOFTyped
    <3>3. nread = Len(typed)
      BY <1>0, <2>2
    <3> QED BY Zenon, <1>0, <3>1, <3>2, <3>3 DEF ConsoleInv
  <2> QED BY Zenon, <2>1, <2>2
<1>4. CASE C!WriteDone
  <2>1. C!EOFTyped' = C!EOFTyped
    BY Zenon, <1>4 DEF C!WriteDone, C!EOFTyped
  <2>2. pc = "written" /\ writeDone = 0 /\ putBusy' = FALSE /\ writeDone' = 1
    BY <1>0, <1>4 DEF C!WriteDone
  <2>3. closed' \in BOOLEAN /\ putBusy' \in BOOLEAN /\ aborted' \in BOOLEAN
    BY Zenon, <1>0, <1>4 DEF C!WriteDone
  <2>4. UNCHANGED <<typed, nread, closed, incoming, readAvail, pc, ch, output, aborted>>
    BY Zenon, <1>4 DEF C!WriteDone
  <2>5. 1 \in Nat
    OBVIOUS
  <2> QED BY Zenon, <1>0, <2>1, <2>2, <2>3, <2>4, <2>5 DEF ConsoleInv
<1>5. CASE C!AwaitChar
  <2>1. /\ pc = "wait" /\ readAvail > 0 /\ readAvail' = readAvail - 1 /\ pc' = "echo"
        /\ UNCHANGED <<typed, nread, closed, incoming, putBusy, writeDone, ch, output, aborted>>
    BY Zenon, <1>5 DEF C!AwaitChar
  <2>2. C!EOFTyped' = C!EOFTyped
    BY Zenon, <2>1 DEF C!EOFTyped
  <2>3. /\ readAvail \in Nat /\ Len(output) \in Nat /\ nread = readAvail + Len(output)
        /\ ~putBusy /\ writeDone = 0
    BY <1>0, <2>1
  <2>4. readAvail' \in Nat /\ nread' = readAvail' + 1 + Len(output) /\ readAvail # 0
    BY ONLY <2>1, <2>3
  <2>5. ConsoleTypes'
    BY Zenon, <1>0, <2>1, <2>4
  <2>6. ConsoleCount'
    BY <1>0, <2>1, <2>3, <2>4
  <2>7. ConsoleEchoes'
    BY Zenon, <1>0, <2>1, <2>2, <2>4
  <2> QED BY Zenon, <2>5, <2>6, <2>7 DEF ConsoleInv
<1>6. CASE C!Echo
  <2>1. /\ pc = "echo" /\ pc' = "written" /\ incoming' = EOF /\ putBusy' = TRUE
        /\ output' = Append(output, incoming)
        /\ UNCHANGED <<typed, nread, closed, readAvail, writeDone, aborted>>
    BY Zenon, <1>0, <1>6 DEF C!Echo
  <2>2. /\ output' \in Seq(Chars \cup {EOF}) /\ Len(output') = Len(output) + 1
        /\ Len(output) \in Nat /\ output'[Len(output) + 1] = incoming
        /\ \A i \in 1..Len(output) : output'[i] = output[i]
    BY <1>0, <2>1
  <2>3. C!EOFTyped' = C!EOFTyped
    BY Zenon, <2>1 DEF C!EOFTyped
  <2>4. /\ nread = readAvail + 1 + Len(output) /\ readAvail \in Nat
        /\ ~putBusy /\ writeDone = 0
    BY <1>0, <2>1, <2>2
  <2>5. ~C!EOFTyped => readAvail = 0 /\ incoming = typed[Len(output) + 1]
    BY <1>0, <2>1, <2>2, <2>4
  <2>6. ConsoleTypes'
    BY Zenon, <1>0, <2>1, <2>2
  <2>7. ConsoleCount'
    BY <1>0, <2>1, <2>2, <2>4
  <2>8. ConsoleEchoes'
    <3>1. ASSUME ~C!EOFTyped, NEW i \in 1..Len(output') PROVE output'[i] = typed[i]
      <4>1. i \in 1..Len(output) \/ i = Len(output) + 1
        BY ONLY <2>2, <3>1
      <4> QED BY Zenon, <1>0, <2>2, <2>5, <3>1, <4>1
    <3> QED BY Zenon, <2>1, <2>3, <2>5, <3>1
  <2> QED BY Zenon, <2>6, <2>7, <2>8 DEF ConsoleInv
<1>7. CASE C!AwaitWritten
  <2>1. /\ pc = "written" /\ writeDone > 0 /\ writeDone' = writeDone - 1
        /\ pc' \in {"wait", "returned"}
        /\ UNCHANGED <<typed, nread, closed, incoming, putBusy, readAvail, ch, output, aborted>>
    BY Zenon, <1>7 DEF C!AwaitWritten
  <2>2. C!EOFTyped' = C!EOFTyped
    BY Zenon, <2>1 DEF C!EOFTyped
  <2>3. writeDone = 1 /\ ~putBusy
    BY <1>0, <2>1
  <2>4. writeDone' = 0 /\ writeDone' \in Nat
    BY ONLY <2>1, <2>3
  <2>5. pc' # "echo" /\ pc' # "written" /\ pc # "echo"
    BY ONLY <2>1
  <2>6. ConsoleTypes'
    BY Zenon, <1>0, <2>1, <2>4
  <2>7. ConsoleCount'
    BY Zenon, <1>0, <2>1, <2>3, <2>4, <2>5
  <2>8. ConsoleEchoes'
    BY Zenon, <1>0, <2>1, <2>2, <2>5
  <2> QED BY Zenon, <2>6, <2>7, <2>8 DEF ConsoleInv
<1>8. CASE UNCHANGED consoleVars
  BY Zenon, <1>0, <1>8 DEF consoleVars, C!EOFTyped, ConsoleInv
<1> QED BY Zenon, <1>1, <1>2, <1>3, <1>4, <1>5, <1>6, <1>7, <1>8
        DEF C!Next, C!ConsoleTest, C!Stay, C!vars, consoleVars

\* ConsoleTest echoes what is typed, in order and with nothing lost or doubled,
\* and only the end of the input aborts Nachos, however the arrival of
\* characters, the write interrupts and the thread interleave.
THEOREM EchoStaysRight == MCSpec => []EchoRight
<1>1. MCInit => ConsoleInv
  BY ConsoleStarts DEF MCInit
<1>2. ASSUME ConsoleInv, [MCNext]_<<device, interruptVars, consoleVars, vars>> PROVE ConsoleInv'
  <2>1. [C!Next]_consoleVars
    BY <1>2 DEF MCNext
  <2> QED BY <1>2, <2>1, ConsoleKept
<1>3. ConsoleInv => EchoRight
  BY ConsoleSays DEF EchoRight
<1> QED BY <1>1, <1>2, <1>3, PTL DEF MCSpec

=============================================================================
