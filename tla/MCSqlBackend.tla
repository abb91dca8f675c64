---------------------------- MODULE MCSqlBackend ----------------------------
(* Instances of SqlBackend for TLC: two handlers of one worker and, where  *)
(* Handlers has it, one of another worker.                                 *)
EXTENDS SqlBackend, TLC

CONSTANTS h1, h2, h3, w1, w2, p, c

Owner == [h \in Handlers |-> IF h = h3 THEN w2 ELSE w1]

\* The two handlers of a worker are interchangeable.
Symmetry == Permutations({h1, h2})
=============================================================================
