-------------------------- MODULE MCProcesses --------------------------
(* Small instances of Processes for TLC. *)
EXTENDS Processes, TLC

CONSTANTS t1, t2, t3, t4

\* The processes Exec may start are interchangeable.
Symmetry == Permutations(Threads \ {Main})
=============================================================================
