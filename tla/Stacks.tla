-------------------------------- MODULE Stacks --------------------------------
(***************************************************************************)
(* The stacks of c++example: ArrayStack and ListStack (inheritstack.cc),   *)
(* two implementations of the abstract class Stack, and the list of        *)
(* integers below the second (list.cc).  A caller such as SelfTest cannot  *)
(* tell which one it has: here both get the same calls, in any order that  *)
(* the assertions allow.                                                   *)
(***************************************************************************)
EXTENDS Naturals, Sequences

CONSTANTS
    StackSize,      \* size of the ArrayStack
    Pushed,         \* the values a caller pushes
    Addresses,      \* where list elements can be
    Null            \* the NULL pointer, and an array entry nobody has set

VARIABLES
    stack, top,             \* of the ArrayStack
    firstE, lastE, heap,    \* of the List in the ListStack; heap: its elements
    contents,               \* history: what a stack should hold, the top first
    popped                  \* history: what Pop returned in each, and should have

vars == <<stack, top, firstE, lastE, heap, contents, popped>>

\* The constructors.
Init ==
    /\ stack = [k \in 0..(StackSize - 1) |-> Null]
    /\ top = 0
    /\ firstE = Null /\ lastE = Null /\ heap = <<>>
    /\ contents = <<>>
    /\ popped = [array |-> Null, list |-> Null, right |-> Null]

ArrayFull == top = StackSize
ArrayEmpty == top = 0
ListEmpty == firstE = Null

\* ArrayStack::Push
ArrayPush(value) ==
    /\ ~ArrayFull
    /\ stack' = [stack EXCEPT ![top] = value]
    /\ top' = top + 1

\* ArrayStack::Pop: the value returned, and the new top.
ArrayTop == stack[top - 1]
ArrayPop == ~ArrayEmpty /\ top' = top - 1 /\ UNCHANGED stack

\* List::Prepend on a new ListElement; the heap gives any free address.
Prepend(value) ==
    \E element \in Addresses \ DOMAIN heap :
        /\ heap' = [a \in DOMAIN heap \cup {element} |->
                      IF a # element THEN heap[a]
                      ELSE [item |-> value, next |-> IF ListEmpty THEN Null ELSE firstE]]
        /\ firstE' = element
        /\ lastE' = IF ListEmpty THEN element ELSE lastE

\* List::Remove, called by ListStack::Pop; the element is deleted.
ListRemove ==
    /\ IF firstE = lastE
       THEN firstE' = Null /\ lastE' = Null
       ELSE firstE' = heap[firstE].next /\ UNCHANGED lastE
    /\ heap' = [a \in DOMAIN heap \ {firstE} |-> heap[a]]

-----------------------------------------------------------------------------
Push(value) ==
    /\ ArrayPush(value)
    /\ Prepend(value)
    /\ contents' = <<value>> \o contents
    /\ UNCHANGED popped

Pop ==
    /\ ~ListEmpty
    /\ ArrayPop
    /\ ListRemove
    /\ contents' = Tail(contents)
    /\ popped' = [array |-> ArrayTop, list |-> heap[firstE].item, right |-> Head(contents)]

\* The destructors and new constructors; ~List removes what is left.
Delete ==
    /\ stack' = [k \in 0..(StackSize - 1) |-> Null]
    /\ top' = 0
    /\ firstE' = Null /\ lastE' = Null /\ heap' = <<>>
    /\ contents' = <<>>
    /\ UNCHANGED popped

Next == (\E value \in Pushed : Push(value)) \/ Pop \/ Delete

-----------------------------------------------------------------------------
(* Properties                                                              *)

\* The elements of the list from firstE on.
Reached[k \in 1..StackSize] == IF k = 1 THEN firstE ELSE heap[Reached[k - 1]].next

\* The user of a Stack need not know which of the two it is (inheritstack.h):
\* both hold the values pushed and not popped, last in first out, both return
\* the same ones and agree on being empty; and the list has lost no element.
StacksAgree ==
    LET n == Len(contents)
    IN  /\ top = n /\ \A k \in 1..n : stack[n - k] = contents[k]
        /\ ListEmpty <=> n = 0
        /\ n > 0 => lastE = Reached[n] /\ heap[lastE].next = Null
        /\ DOMAIN heap = {Reached[k] : k \in 1..n}
        /\ \A k \in 1..n : heap[Reached[k]].item = contents[k]
        /\ popped.array = popped.right /\ popped.list = popped.right

=============================================================================
