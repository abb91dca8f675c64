---------------------------- MODULE MCTaskWorker ----------------------------
(* Instances of TaskWorker for TLC.                                        *)
EXTENDS TaskWorker, TLC

\* Pollers are interchangeable, and so are tasks.
Symmetry == Permutations(Pollers) \cup Permutations(Tasks)
=============================================================================
