---------------------------- MODULE MCCoroutines ----------------------------
(* Instances of Coroutines for TLC: the menus.                             *)
EXTENDS Coroutines

On(kind, on) == [kind |-> kind, on |-> on]
Spawn(c) == [kind |-> "go", co |-> c]
SpawnIn(g, c) == [kind |-> "goGroup", on |-> g, co |-> c]
Under(kind, x, p) == [kind |-> kind, on |-> x, parent |-> p]
Select(cases) == [kind |-> "select", cases |-> cases]
Else == [kind |-> "default"]

MCChan == {"u", "s", "root", "g", "x", "y"}
MCSize == [h \in MCChan |-> IF h = "s" THEN 2 ELSE 0]

\* An unbuffered channel between two coroutines and the main one.
Channels ==
    [c \in Co |-> CASE c = "main" -> {Spawn("a"), Spawn("b"), On("receive", "u"),
                                      On("sendNB", "u")}
                    [] c = "a" -> {On("receive", "u"), On("close", "u"),
                                   Select(<<On("send", "u"), Else>>)}
                    [] c = "b" -> {On("send", "u"), On("receiveNB", "u"),
                                   Select(<<On("receive", "u"), On("receive", "root")>>)}]

\* Signals, before and after their channel is opened.
Signaled ==
    [c \in Co |-> CASE c = "main" -> {Spawn("a"), On("signalChannel", "s"),
                                      On("receive", "s")}
                    [] c = "a" -> {On("receive", "s"), Under("timer", "t", "root"),
                                   On("sendNB", "s"),
                                   Select(<<On("receive", "s"), On("get", "t")>>)}
                    [] c = "b" -> {}]

\* A wait group, and a channel to keep its functions waiting.
Waits ==
    [c \in Co |-> CASE c = "main" -> {Spawn("a"), Spawn("b"), On("add", "w"),
                                      On("wait", "w")}
                    [] c = "a" -> {On("done", "w"), On("receive", "u")}
                    [] c = "b" -> {On("done", "w"), On("add", "w"), On("send", "u"),
                                   On("wait", "w")}]

\* An error group, a context below it and a timer.
Cancellations ==
    [c \in Co |-> CASE c = "main" -> {Under("withCancel", "g", "root"),
                                      Under("withCancel", "x", "root"),
                                      SpawnIn("g", "a"), SpawnIn("g", "b"),
                                      On("wait", "g"), On("get", "t")}
                    [] c = "a" -> {Under("withCancel", "x", "g"), Under("disconnect", "x", "g"),
                                   Under("withCancel", "y", "x"),
                                   Under("timer", "t", "x"), On("get", "t")}
                    [] c = "b" -> {On("cancel", "x"), On("receive", "g"),
                                   Under("timer", "t", "y"), SpawnIn("g", "a"),
                                   Select(<<On("receive", "y"), On("get", "t")>>)}]

\* Selects that wait for the other side of an unbuffered channel.
Selects ==
    [c \in Co |-> CASE c = "main" -> {Spawn("a"), Spawn("b"), On("sendNB", "u"),
                                      Select(<<On("receive", "u"), On("receive", "root")>>)}
                    [] c = "a" -> {On("send", "u"), On("receive", "u"), On("cancel", "root")}
                    [] c = "b" -> {Select(<<On("send", "u")>>), On("close", "u")}]

MCMenus == {Channels, Signaled, Waits, Cancellations, Selects}

\* Nobody blocks in a Send on the buffered channel.
ASSUME MenusAssumption == SendsUnbuffered
=============================================================================
