------------------------------ MODULE IdMapMC ------------------------------
(* Small instances of IdMap for TLC.                                       *)
EXTENDS IdMap, TLC

\* The tasks run the same code: states that differ in a renaming of tasks
\* are the same.  Used in the runs where every task is cancellable or none.
TaskSymmetry == Permutations(Tasks)
=============================================================================
