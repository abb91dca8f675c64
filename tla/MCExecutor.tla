----------------------------- MODULE MCExecutor -----------------------------
(* Executor for TLC: the workflow code it runs and the environments.       *)
EXTENDS Executor

CONSTANTS w1, w2

Do(op) == [op |-> op, of |-> 0]
Await(k) == [op |-> "await", of |-> k]

\* Runs on two workers, to completion.
Plain == [code |-> <<>>, restarts |-> FALSE, fails |-> FALSE, limit |-> 100,
          canceled |-> FALSE, signals |-> 0, workers |-> {w1, w2}, late |-> FALSE]

SideEffects ==
    [Plain EXCEPT !.code = <<Do("trace"), Await(1), Do("sideEffect"), Await(3), Do("activity"),
                             Do("signal"), Do("subWorkflow"), Await(5), Await(7)>>,
                  !.signals = 1]

Timers ==
    [Plain EXCEPT !.code = <<Do("activity"), Do("timer"), Await(2), Do("timer"), Await(4), Await(1)>>,
                  !.canceled = TRUE]

Restarts ==
    [Plain EXCEPT !.code = <<Do("signal"), Do("subWorkflow"), Do("signal"), Await(2)>>,
                  !.restarts = TRUE, !.signals = 2]

Abandons ==
    [Plain EXCEPT !.code = <<Do("activity"), Await(1), Do("activity"), Do("spawn")>>,
                  !.fails = TRUE]

TooLong ==
    [Plain EXCEPT !.code = <<Do("activity"), Await(1), Do("activity"), Await(3)>>,
                  !.fails = TRUE, !.limit = 5]

SlowWorker ==
    [Plain EXCEPT !.code = <<Do("activity"), Do("timer"), Await(1), Await(2)>>,
                  !.canceled = TRUE, !.workers = {w1}, !.late = TRUE]

ReplayScenarios == {SideEffects, Timers, Restarts, Abandons, TooLong, SlowWorker}
=============================================================================
