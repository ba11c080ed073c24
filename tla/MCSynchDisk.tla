--------------------------- MODULE MCSynchDisk ---------------------------
(* Small instances of SynchDisk for TLC. *)
EXTENDS SynchDisk, TLC

CONSTANTS t1, t2, t3, t4, s1

InitiallyZero == [s \in Sems |-> 0]
=============================================================================
