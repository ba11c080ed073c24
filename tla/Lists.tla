-------------------------------- MODULE Lists --------------------------------
(***************************************************************************)
(* The singly linked list of threads/list.cc, with its cells and pointers. *)
(* Ready threads, waiting threads, pending interrupts and mail are kept in *)
(* such lists; AbstractList is what their users rely on.  The destructor,  *)
(* which calls Remove until the list is empty, is left out.                *)
(***************************************************************************)
EXTENDS Integers, Sequences

LOCAL Ext == INSTANCE FiniteSetsExt

CONSTANTS
    Cells,      \* addresses of list elements
    Items,      \* what the lists hold
    Keys,       \* sort keys
    NULL,
    SizeBound   \* bound: how far size may get from 0

VARIABLES
    cell,       \* the list elements, or Free
    first,
    last,
    size,
    result,     \* what the last operation returned
    counted     \* history: only operations that keep size in step were used

vars == <<cell, first, last, size, result, counted>>

Free == [free |-> TRUE]

\* ListElement::ListElement, and the pointer its user stores in it.
ListElement(item, key, next) == [next |-> next, key |-> key, item |-> item]

\* List::List.
Init ==
    /\ cell = [c \in Cells |-> Free]
    /\ first = NULL
    /\ last = NULL
    /\ size = 0
    /\ result = NULL
    /\ counted = TRUE

IsEmpty == first = NULL

\* The cells from first on.
Chain ==
    LET at[i \in 1..Ext!Cardinality(Cells)] ==
            IF i = 1 THEN first ELSE IF at[i - 1] = NULL THEN NULL ELSE cell[at[i - 1]].next
    IN  SelectSeq([i \in 1..Ext!Cardinality(Cells) |-> at[i]], LAMBDA c : c # NULL)

\* The new element c goes after last, or is alone.
PutLast(c, item, key) ==
    /\ cell' = [d \in Cells |-> IF d = c THEN ListElement(item, key, NULL)
                                ELSE IF d = last /\ ~IsEmpty THEN [cell[d] EXCEPT !.next = c]
                                ELSE cell[d]]
    /\ first' = IF IsEmpty THEN c ELSE first
    /\ last' = c

\* List::Append.
ListAppend(c, item) ==
    /\ PutLast(c, item, 0)
    /\ size' = size + 1
    /\ result' = NULL
    /\ UNCHANGED counted

\* List::Prepend.
Prepend(c, item) ==
    /\ cell' = [cell EXCEPT ![c] = ListElement(item, 0, first)]
    /\ first' = c
    /\ last' = IF IsEmpty THEN c ELSE last
    /\ size' = size + 1
    /\ result' = NULL
    /\ UNCHANGED counted

\* Mutant: an item goes before the items with the same key.
BiggerOrEqual(chain, key) == {i \in DOMAIN chain : key <= cell[chain[i]].key}

\* The positions that hold a larger key.
Bigger(chain, key) == {i \in DOMAIN chain : key < cell[chain[i]].key}

\* List::SortedInsert, which does not count the element.
SortedInsert(c, item, key) ==
    LET chain == Chain
        bigger == Bigger(chain, key)
        i == Ext!Min(bigger)
    IN  /\ IF bigger = {} THEN PutLast(c, item, key)
           ELSE /\ cell' = [d \in Cells |->
                               IF d = c THEN ListElement(item, key, chain[i])
                               ELSE IF i > 1 /\ d = chain[i - 1] THEN [cell[d] EXCEPT !.next = c]
                               ELSE cell[d]]
                /\ first' = IF i = 1 THEN c ELSE first
                /\ UNCHANGED last
        /\ result' = NULL
        /\ counted' = FALSE
        /\ UNCHANGED size

\* What SortedRemove does to the list.
TakeFirst ==
    IF IsEmpty THEN result' = NULL /\ UNCHANGED <<cell, first, last>>
    ELSE /\ result' = [item |-> cell[first].item, key |-> cell[first].key]
         /\ first' = IF first = last THEN NULL ELSE cell[first].next
         /\ last' = IF first = last THEN NULL ELSE last
         /\ cell' = [cell EXCEPT ![first] = Free]

\* List::SortedRemove, which does not count either.
SortedRemove ==
    /\ TakeFirst
    /\ counted' = FALSE
    /\ UNCHANGED size

\* List::Remove counts before it looks whether there is an element.
Remove ==
    /\ TakeFirst
    /\ size' = size - 1
    /\ counted' = (counted /\ ~IsEmpty)

Next ==
    \/ \E c \in Cells, item \in Items :
         /\ cell[c] = Free
         /\ \/ size < SizeBound /\ (ListAppend(c, item) \/ Prepend(c, item))
            \/ \E key \in Keys : SortedInsert(c, item, key)
    \/ SortedRemove
    \/ size > -SizeBound /\ Remove

Spec == Init /\ [][Next]_vars

-----------------------------------------------------------------------------
(* Properties                                                              *)

\* getSize is the number of items, on which getID and Finish rely when they go
\* round activeThreads: as long as the list is neither used sorted nor removed
\* from when it is empty.
SizeExact == counted => size = Len(Chain)

\* Pointers lead from first to last, over exactly the elements that have been
\* allocated: none is lost, none is used after it was deleted.
TypeOK ==
    /\ size \in -SizeBound..SizeBound
    /\ counted \in BOOLEAN
    /\ {Chain[i] : i \in DOMAIN Chain} = {c \in Cells : cell[c] # Free}
    /\ ~IsEmpty => last = Chain[Len(Chain)] /\ cell[last].next = NULL
    /\ SizeExact

Abstract == INSTANCE AbstractList WITH
    contents <- [i \in DOMAIN Chain |-> [item |-> cell[Chain[i]].item, key |-> cell[Chain[i]].key]]

\* The pointers implement a sequence: first in first out for Append and Remove,
\* the newest first for Prepend, and the order of the keys for SortedInsert.
ImplementsSequence == Abstract!Spec

=============================================================================
