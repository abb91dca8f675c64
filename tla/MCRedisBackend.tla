--------------------------- MODULE MCRedisBackend ---------------------------
(* Instances of RedisBackend for TLC.                                      *)
EXTENDS RedisBackend, TLC

CONSTANTS i, j

\* Executions of i continue as new or start j.
Once == (i :> 2 @@ j :> 1)

\* One id alone.
Thrice == (i :> 3 @@ j :> 0)

\* Workers are interchangeable.
Symmetry == Permutations(Workers)
=============================================================================
