------------------------------ MODULE MCTester ------------------------------
(* Instances of Tester for TLC.                                            *)
EXTENDS Tester

\* Workflows that run activities beside timers, and some that cancel timers.
MCMenus == {{"none", "finish", "activity", "timer", "sub"},
            {"none", "finish", "timer", "cancelTimer", "sub", "mock", "continue"}}

MCCallbacks == <<0, 1>>
=============================================================================
