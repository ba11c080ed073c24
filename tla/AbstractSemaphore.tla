-------------------------- MODULE AbstractSemaphore --------------------------
(***************************************************************************)
(* What threads/synch.h promises of a semaphore: P waits until value > 0,  *)
(* then decrements it, V increments it, both atomically.  No thread order  *)
(* is promised, but a unit is not left lying while threads wait for it.    *)
(***************************************************************************)
EXTENDS Naturals

CONSTANTS Threads, Sems, NoSem, InitialValue

VARIABLES value, waitsFor

aVars == <<value, waitsFor>>

AInit ==
    /\ value = InitialValue
    /\ waitsFor = [t \in Threads |-> NoSem]

\* P finds a unit at once.
TryP(s) ==
    /\ value[s] > 0
    /\ value' = [value EXCEPT ![s] = @ - 1]
    /\ UNCHANGED waitsFor

\* P finds none and waits.
WaitP(t, s) ==
    /\ waitsFor[t] = NoSem
    /\ value[s] = 0
    /\ waitsFor' = [waitsFor EXCEPT ![t] = s]
    /\ UNCHANGED value

\* A waiting thread gets its unit.
EndP(t, s) ==
    /\ waitsFor[t] = s
    /\ value[s] > 0
    /\ value' = [value EXCEPT ![s] = @ - 1]
    /\ waitsFor' = [waitsFor EXCEPT ![t] = NoSem]

AtomicV(s) ==
    /\ value' = [value EXCEPT ![s] = @ + 1]
    /\ UNCHANGED waitsFor

SomeEndP(s) == \E t \in Threads : EndP(t, s)

ANext ==
    \E s \in Sems : TryP(s) \/ AtomicV(s) \/ SomeEndP(s) \/ (\E t \in Threads : WaitP(t, s))

ASpec == AInit /\ [][ANext]_aVars /\ \A s \in Sems : WF_aVars(SomeEndP(s))
=============================================================================
