--------------------------- MODULE MCSemaphores ---------------------------
(* Small instances of Semaphores for TLC. *)
EXTENDS Semaphores

CONSTANTS t1, t2, t3, s1, s2

InitiallyZero == [s \in Sems |-> 0]
=============================================================================
