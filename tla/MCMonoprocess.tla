---------------------------- MODULE MCMonoprocess ----------------------------
(* An instance of Monoprocess for TLC: two workflow pollers of one worker, *)
(* which ask for the same queue, and an activity poller.                   *)
EXTENDS Monoprocess

MCPollers == [workflow |-> {"p", "q"}, activity |-> {"a"}]
MCQueue == [i \in Instances |-> "default"]
MCQueues == [x \in AllPollers |-> {"default"}]
=============================================================================
