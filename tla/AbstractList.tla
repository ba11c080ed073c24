----------------------------- MODULE AbstractList -----------------------------
(***************************************************************************)
(* What the users of threads/list.cc rely on: a sequence of items that can *)
(* be used as a queue, as a stack, or in the order of the keys, where      *)
(* items with equal keys keep the order of their insertion.                *)
(***************************************************************************)
EXTENDS Integers, Sequences

LOCAL Ext == INSTANCE SequencesExt

CONSTANTS Items, Keys, NULL

VARIABLES
    contents,   \* the items and their keys, from the front
    result      \* what the last operation returned

vars == <<contents, result>>

Entry(item, key) == [item |-> item, key |-> key]

Init == contents = <<>> /\ result = NULL

\* Append and Prepend leave the key 0.
AtEnd(item) == contents' = Append(contents, Entry(item, 0)) /\ result' = NULL

AtFront(item) == contents' = <<Entry(item, 0)>> \o contents /\ result' = NULL

\* Before the first larger key.
Sorted(item, key) ==
    LET larger(e) == e.key > key
        n == Ext!SelectInSeq(contents, larger)
        at == IF n = 0 THEN Len(contents) + 1 ELSE n
    IN  contents' = Ext!InsertAt(contents, at, Entry(item, key)) /\ result' = NULL

\* The front item, or NULL.
Taken ==
    IF contents = <<>> THEN result' = NULL /\ UNCHANGED contents
    ELSE result' = Head(contents) /\ contents' = Tail(contents)

Next ==
    \/ \E item \in Items : AtEnd(item) \/ AtFront(item) \/ \E key \in Keys : Sorted(item, key)
    \/ Taken

Spec == Init /\ [][Next]_vars

=============================================================================
