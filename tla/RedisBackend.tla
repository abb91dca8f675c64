---------------------------- MODULE RedisBackend ----------------------------
(***************************************************************************)
(* The Redis backend (backend/redis): task queues made of a stream, its    *)
(* consumer group and a set of queued ids; streams of pending events and   *)
(* of history; and the Lua scripts that complete tasks.  A script runs     *)
(* atomically, a Go function between two commands does not: a worker       *)
(* dequeues a task, reads the instance and reads the pending events in     *)
(* three steps, and a client reads an instance before it writes to it.     *)
(*                                                                         *)
(* No lock is checked when a task is completed: a task whose worker is     *)
(* slow is claimed by another one after the lock timeout, and both of them *)
(* go on.  Several queues are merged, hence the order in which tasks are   *)
(* taken is left open.                                                     *)
(***************************************************************************)
EXTENDS Integers, FiniteSets, Sequences, SequencesExt

CONSTANTS
    Ids,             \* instance ids
    MaxExecutions,   \* bound: executions of each instance id
    Workers,         \* workers, each with one workflow task and one activity
    MaxSteps,        \* bound: signals, activities, timers, sub-workflows
    ClientOps,       \* which of "signal", "cancel", "remove", "expire" happen
    Commands,        \* which commands workflows issue
    NoExec, NoInst, NoTask

ASSUME RedisAssumption ==
    /\ MaxExecutions \in [Ids -> Nat] /\ MaxSteps \in Nat
    /\ ClientOps \subseteq {"signal", "cancel", "remove", "expire"}
    /\ Commands \subseteq {"none", "activity", "timer", "cancelTimer", "sub",
                           "continue", "finish"}

\* An execution: the instance id and the number of the execution.
Exec == UNION {{i} \X (1 .. MaxExecutions[i]) : i \in Ids}

VARIABLES
    inst,        \* instance:<id>:<execution>
    active,      \* active-instance-execution:<id>
    pending,     \* pending-events stream of each execution
    trimmed,     \* entries that have left that stream, names the ones in it
    history,     \* history stream of each execution
    stream,      \* workflow task stream with the group's pending entries
    queued,      \* workflow task set
    entries,     \* tasks added to the stream for each execution, names them
    futures,     \* future-events
    activities,  \* activity task stream
    worker,      \* the workflow task each worker is at
    holds,       \* the activity task each worker is at
    client,      \* what a client has read and not yet written
    steps,       \* steps counted by MaxSteps, names activities and timers
    gone         \* executions whose keys were deleted or have expired

vars == <<inst, active, pending, trimmed, history, stream, queued, entries,
          futures, activities, worker, holds, client, steps, gone>>

tasks == <<stream, queued, entries>>
instances == <<inst, active, pending, trimmed, history, gone>>

EventKinds == {"start", "signal", "cancel", "result", "timer", "conflict", "child"}
Event == [kind : EventKinds, n : 0 .. MaxSteps]

Instance == [state : {"Active", "ContinuedAsNew", "Finished"}, last : Nat,
             parent : Exec \cup {NoExec}, n : 0 .. MaxSteps]

\* A missing key is no instance.
ASSUME NoInstAssumption == NoInst \notin Instance

WorkerState == [at : {"free", "dequeued", "known", "executing"},
                task : (Exec \X Nat) \cup {NoTask},
                state : {"none", "Active", "ContinuedAsNew", "Finished"},
                last : Nat, events : Seq(Event), upto : Nat]

Free == [at |-> "free", task |-> NoTask, state |-> "none", last |-> 0, events |-> <<>>,
         upto |-> 0]

TypeOK ==
    /\ inst \in [Exec -> Instance \cup {NoInst}]
    /\ active \in [Ids -> Exec \cup {NoExec}]
    /\ pending \in [Exec -> Seq(Event)]
    /\ trimmed \in [Exec -> Nat]
    /\ history \in [Exec -> Seq([seq : Nat, event : Event])]
    /\ stream \subseteq [exec : Exec, entry : Nat, held : BOOLEAN, idle : BOOLEAN]
    /\ queued \subseteq Exec
    /\ entries \in [Exec -> Nat]
    /\ futures \subseteq Exec \X (1 .. MaxSteps)
    /\ activities \subseteq [exec : Exec, n : 1 .. MaxSteps, held : BOOLEAN, idle : BOOLEAN]
    /\ worker \in [Workers -> WorkerState]
    /\ holds \in [Workers -> (Exec \X (1 .. MaxSteps) \X {"executing", "known"}) \cup {NoTask}]
    /\ client = NoTask \/ client \in Exec \X Event
    /\ steps \in 0 .. MaxSteps
    /\ gone \subseteq Exec

Init ==
    /\ inst = [x \in Exec |-> NoInst]
    /\ active = [i \in Ids |-> NoExec]
    /\ pending = [x \in Exec |-> <<>>]
    /\ trimmed = [x \in Exec |-> 0]
    /\ history = [x \in Exec |-> <<>>]
    /\ stream = {} /\ queued = {} /\ futures = {} /\ activities = {} /\ gone = {}
    /\ entries = [x \in Exec |-> 0]
    /\ worker = [w \in Workers |-> Free]
    /\ holds = [w \in Workers |-> NoTask]
    /\ client = NoTask
    /\ steps = 0

Id(x) == x[1]

\* The next execution of an instance id has not been used.
Fresh(x) == inst[x] = NoInst /\ x \notin gone
            /\ \A k \in 1 .. x[2] - 1 : ~(inst[<<Id(x), k>>] = NoInst /\ <<Id(x), k>> \notin gone)

\* Mutant of NewInstance: sequence ids start before 1.
NewInstanceFromMinusOne(parent, n) ==
    [state |-> "Active", last |-> -1, parent |-> parent, n |-> n]

NewInstance(parent, n) == [state |-> "Active", last |-> 0, parent |-> parent, n |-> n]

Ev(kind, n) == [kind |-> kind, n |-> n]

\* The entry a worker has dequeued; its names in the stream.
IsEntry(e, t) == e.exec = t[1] /\ e.entry = t[2]

\* SADD and, if that added, XADD, for every execution in X.
AddTasks(X, s, q) ==
    /\ queued' = q \cup X
    /\ stream' = s \cup {[exec |-> x, entry |-> entries[x] + 1, held |-> FALSE,
                          idle |-> FALSE] : x \in X \ q}
    /\ entries' = [x \in Exec |-> IF x \in X \ q THEN entries[x] + 1 ELSE entries[x]]

\* Mutant of Enqueue: the stream is extended without a look at the set.
EnqueueAlways(x) == AddTasks({x}, stream, queued \ {x})

Enqueue(x) == AddTasks({x}, stream, queued)

\* create_workflow_instance.lua, for a client.
CreateWorkflowInstance(x) ==
    /\ Fresh(x) /\ active[Id(x)] = NoExec
    /\ inst' = [inst EXCEPT ![x] = NewInstance(NoExec, 0)]
    /\ active' = [active EXCEPT ![Id(x)] = x]
    /\ pending' = [pending EXCEPT ![x] = Append(@, Ev("start", 0))]
    /\ Enqueue(x)
    /\ UNCHANGED <<trimmed, history, futures, activities, worker, holds, client, steps,
                   gone>>
-----------------------------------------------------------------------------
(* Clients: read first, then the script.                                   *)

\* SignalWorkflow has read the active execution and its instance.
SignalReads(x) ==
    /\ "signal" \in ClientOps /\ client = NoTask /\ steps < MaxSteps
    /\ active[Id(x)] = x /\ inst[x] # NoInst
    /\ client' = <<x, Ev("signal", steps + 1)>>
    /\ steps' = steps + 1
    /\ UNCHANGED <<instances, tasks, futures, activities, worker, holds>>

\* CancelWorkflowInstance has read the instance, whatever its state.
CancelReads(x) ==
    /\ "cancel" \in ClientOps /\ client = NoTask /\ steps < MaxSteps
    /\ inst[x] # NoInst
    /\ client' = <<x, Ev("cancel", steps + 1)>>
    /\ steps' = steps + 1
    /\ UNCHANGED <<instances, tasks, futures, activities, worker, holds>>

\* signal_workflow.lua and cancel_workflow_instance.lua.
ClientWrites ==
    /\ client # NoTask
    /\ LET x == client[1] IN
       /\ pending' = [pending EXCEPT ![x] = Append(@, client[2])]
       /\ Enqueue(x)
    /\ client' = NoTask
    /\ UNCHANGED <<inst, active, trimmed, history, gone, futures, activities, worker,
                   holds, steps>>

\* RemoveWorkflowInstance and delete_instance.lua: tasks and futures stay.
RemoveWorkflowInstance(x) ==
    /\ "remove" \in ClientOps
    /\ inst[x] # NoInst /\ inst[x].state # "Active"
    /\ inst' = [inst EXCEPT ![x] = NoInst]
    /\ pending' = [pending EXCEPT ![x] = <<>>]
    /\ trimmed' = [trimmed EXCEPT ![x] = @ + Len(pending[x])]
    /\ history' = [history EXCEPT ![x] = <<>>]
    /\ active' = [active EXCEPT ![Id(x)] = NoExec]
    /\ gone' = gone \cup {x}
    /\ UNCHANGED <<tasks, futures, activities, worker, holds, client, steps>>

\* The keys of a closed execution expire (expire_workflow_instance.lua).
Expires(x) ==
    /\ "expire" \in ClientOps
    /\ inst[x] # NoInst /\ inst[x].state # "Active"
    /\ inst' = [inst EXCEPT ![x] = NoInst]
    /\ pending' = [pending EXCEPT ![x] = <<>>]
    /\ trimmed' = [trimmed EXCEPT ![x] = @ + Len(pending[x])]
    /\ history' = [history EXCEPT ![x] = <<>>]
    /\ gone' = gone \cup {x}
    /\ UNCHANGED <<active, tasks, futures, activities, worker, holds, client, steps>>
-----------------------------------------------------------------------------
(* Workflow tasks.                                                         *)

\* schedule_future_events.lua, run by every GetWorkflowTask: an event that is
\* due waits as long as a task of its instance is queued.
ScheduleFutureEvent(f) ==
    /\ f \in futures /\ f[1] \notin queued
    /\ futures' = futures \ {f}
    /\ pending' = [pending EXCEPT ![f[1]] = Append(@, Ev("timer", f[2]))]
    /\ Enqueue(f[1])
    /\ UNCHANGED <<inst, active, trimmed, history, gone, activities, worker, holds,
                   client, steps>>

\* Dequeue: XAUTOCLAIM of an entry idle for the lock timeout; if there is none,
\* XREADGROUP, before which another entry may reach the timeout.
Dequeue(w, e) ==
    /\ worker[w].at = "free" /\ e \in stream
    /\ e.held => e.idle
    /\ stream' = (stream \ {e}) \cup {[e EXCEPT !.held = TRUE, !.idle = FALSE]}
    /\ worker' = [worker EXCEPT ![w].at = "dequeued", ![w].task = <<e.exec, e.entry>>]
    /\ UNCHANGED <<instances, queued, entries, futures, activities, holds, client, steps>>

\* readInstance: an error when the instance is gone; the entry stays claimed.
ReadInstance(w) ==
    LET x == worker[w].task[1] IN
    /\ worker[w].at = "dequeued"
    /\ worker' = [worker EXCEPT ![w] =
                    IF inst[x] = NoInst THEN Free
                    ELSE [@ EXCEPT !.at = "known", !.state = inst[x].state,
                                   !.last = inst[x].last]]
    /\ UNCHANGED <<instances, tasks, futures, activities, holds, client, steps>>

\* XRANGE of the pending events: without one, taking the id of the last one
\* panics and the worker's process ends.
ReadPending(w) ==
    LET x == worker[w].task[1] IN
    /\ worker[w].at = "known"
    /\ worker' = [worker EXCEPT ![w] =
                    IF pending[x] = <<>> THEN Free
                    ELSE [@ EXCEPT !.at = "executing", !.events = pending[x],
                                   !.upto = trimmed[x] + Len(pending[x])]]
    /\ UNCHANGED <<instances, tasks, futures, activities, holds, client, steps>>

\* The execution fails, or the worker's process ends.
Fail(w) ==
    /\ worker[w].at = "executing"
    /\ worker' = [worker EXCEPT ![w] = Free]
    /\ UNCHANGED <<instances, tasks, futures, activities, holds, client, steps>>

\* An entry has been idle for the lock timeout.
LockExpires(e) ==
    /\ e \in stream /\ e.held /\ ~e.idle
    /\ stream' = (stream \ {e}) \cup {[e EXCEPT !.idle = TRUE]}
    /\ UNCHANGED <<instances, queued, entries, futures, activities, worker, holds,
                   client, steps>>

\* ExtendWorkflowTask: XCLAIM resets the idle time, whoever has the entry.
ExtendWorkflowTask(w) ==
    /\ worker[w].at = "executing"
    /\ \E e \in stream : /\ IsEntry(e, worker[w].task) /\ e.idle
                         /\ stream' = (stream \ {e}) \cup {[e EXCEPT !.idle = FALSE]}
    /\ UNCHANGED <<instances, queued, entries, futures, activities, worker, holds,
                   client, steps>>

\* The state an outcome leaves the execution in.
StateAfter(outcome) ==
    CASE outcome = "finish"   -> "Finished"
      [] outcome = "continue" -> "ContinuedAsNew"
      [] OTHER                -> "Active"

\* What the execution of a task can result in: a finished one discards its
\* events, one that was continued runs into its end again, with an error or not.
Outcomes(state) ==
    CASE state = "Finished"       -> {"discard"}
      [] state = "ContinuedAsNew" -> {"continue", "finish"} \cap Commands
      [] OTHER                    -> Commands

\* Mutant of Fenced: XADD without explicit ids.
FencedNot(w) == TRUE

\* XADD refuses an id that is not above the last one of the history stream; the
\* script then ends with nothing written.
Fenced(w) ==
    LET x == worker[w].task[1] IN
    history[x] # <<>> => worker[w].last + 1 > Last(history[x]).seq

\* Entries of the stream that the worker has read and that are still there.
Read(w) == LET x == worker[w].task[1] IN
           IF worker[w].upto > trimmed[x] THEN worker[w].upto - trimmed[x] ELSE 0

\* Mutant of AfterTrim: DEL of the stream.
AfterTrimAll(w) == <<>>

\* XTRIM MINID and XDEL: what came after the last event the worker has read.
AfterTrim(w) == LET x == worker[w].task[1] IN
                SubSeq(pending[x], Read(w) + 1, Len(pending[x]))

\* The executed events with their sequence ids.
Executed(w) == [i \in DOMAIN worker[w].events |->
                  [seq |-> worker[w].last + i, event |-> worker[w].events[i]]]

\* The instance that an outcome starts, if any.
Starts(x, outcome) ==
    CASE outcome = "continue" -> {y \in Exec : Fresh(y) /\ Id(y) = Id(x)}
      [] outcome = "sub"      -> {y \in Exec : Fresh(y) /\ Id(y) # Id(x)}
      [] OTHER                -> {NoExec}

\* The parent that is told about the end of a sub-workflow.
Told(x, outcome) == IF outcome = "finish" THEN inst[x].parent ELSE NoExec

\* The instance is queued again if events came in the meantime.
Requeued(x, events) == IF events # <<>> THEN {x} ELSE {}

\* complete_workflow_task.lua.  y: the execution it starts, t: the timer it cancels.
CompleteWorkflowTask(w, outcome, y, t) ==
    LET x      == worker[w].task[1]
        closed == outcome \in {"finish", "continue", "discard"}
        n      == steps + 1
        to     == Told(x, outcome)
        cleared == IF closed THEN [active EXCEPT ![Id(x)] = NoExec] ELSE active
        clash  == y # NoExec /\ cleared[Id(y)] # NoExec
        makes  == y # NoExec /\ ~clash
        events == AfterTrim(w)
                  \o (IF clash THEN <<Ev("conflict", IF outcome = "sub" THEN n ELSE 0)>>
                      ELSE <<>>)
        others == {z \in Exec : (makes /\ z = y) \/ z = to}
        entry  == {e \in stream : IsEntry(e, worker[w].task)}
        left   == IF entry = {} THEN queued ELSE queued \ {x}
    IN
    /\ worker[w].at = "executing"
    /\ inst[x] # NoInst                       \* else cjson.decode fails
    /\ to # NoExec => inst[to] # NoInst       \* else readInstance fails
    /\ outcome \in Outcomes(worker[w].state)
    /\ y \in Starts(x, outcome)
    /\ outcome # "discard" => Fenced(w)
    /\ outcome \in {"activity", "timer", "sub"} => steps < MaxSteps
    /\ steps' = IF outcome \in {"activity", "timer", "sub"} THEN n ELSE steps
    /\ outcome = "cancelTimer" <=> t > 0
    /\ history' = IF outcome = "discard" THEN history
                  ELSE [history EXCEPT ![x] = @ \o Executed(w)]
    /\ inst' = [z \in Exec |->
                  CASE z = x /\ outcome = "discard" -> [inst[x] EXCEPT !.state = "Finished"]
                    [] z = x /\ outcome # "discard" ->
                         [inst[x] EXCEPT !.state = StateAfter(outcome),
                                         !.last = worker[w].last + Len(worker[w].events)]
                    [] makes /\ z = y ->
                         IF outcome = "sub" THEN NewInstance(x, n)
                         ELSE NewInstance(inst[x].parent, inst[x].n)
                    [] OTHER -> inst[z]]
    /\ active' = IF makes THEN [cleared EXCEPT ![Id(y)] = y] ELSE cleared
    /\ pending' = [z \in Exec |->
                     IF z = x THEN events
                     ELSE IF makes /\ z = y THEN Append(pending[z], Ev("start", 0))
                     ELSE IF z = to THEN Append(pending[z], Ev("child", inst[x].n))
                     ELSE pending[z]]
    /\ trimmed' = [trimmed EXCEPT ![x] = @ + Read(w)]
    /\ futures' = (futures \ {<<x, t>>}) \cup (IF outcome = "timer" THEN {<<x, n>>} ELSE {})
    /\ activities' = activities \cup
         (IF outcome = "activity"
          THEN {[exec |-> x, n |-> n, held |-> FALSE, idle |-> FALSE]} ELSE {})
    /\ AddTasks(others \cup Requeued(x, events), stream \ entry, left)
    /\ worker' = [worker EXCEPT ![w] = Free]
    /\ UNCHANGED <<holds, client, gone>>
-----------------------------------------------------------------------------
(* Activity tasks.                                                         *)

Holds(w, a) == holds[w] # NoTask /\ holds[w][1] = a.exec /\ holds[w][2] = a.n

DequeueActivity(w, a) ==
    /\ holds[w] = NoTask /\ a \in activities
    /\ a.held => a.idle
    /\ activities' = (activities \ {a}) \cup {[a EXCEPT !.held = TRUE, !.idle = FALSE]}
    /\ holds' = [holds EXCEPT ![w] = <<a.exec, a.n, "executing">>]
    /\ UNCHANGED <<instances, tasks, futures, worker, client, steps>>

ActivityLockExpires(a) ==
    /\ a \in activities /\ a.held /\ ~a.idle
    /\ activities' = (activities \ {a}) \cup {[a EXCEPT !.idle = TRUE]}
    /\ UNCHANGED <<instances, tasks, futures, worker, holds, client, steps>>

ExtendActivityTask(w) ==
    /\ \E a \in activities : /\ Holds(w, a) /\ a.idle
                             /\ activities' = (activities \ {a}) \cup {[a EXCEPT !.idle = FALSE]}
    /\ UNCHANGED <<instances, tasks, futures, worker, holds, client, steps>>

\* Mutant of StillQueued: the result is added without a look at the task.
StillQueuedAlways(w) == TRUE

StillQueued(w) == \E a \in activities : Holds(w, a)

\* CompleteActivityTask has read the instance; an error when it is gone.
ReadActivityInstance(w) ==
    /\ holds[w] # NoTask /\ holds[w][3] = "executing"
    /\ holds' = [holds EXCEPT ![w] = IF inst[@[1]] = NoInst THEN NoTask
                                    ELSE <<@[1], @[2], "known">>]
    /\ UNCHANGED <<instances, tasks, futures, activities, worker, client, steps>>

\* complete_activity_task.lua, whatever has become of the instance.
CompleteActivityTask(w) ==
    LET x == holds[w][1] IN
    /\ holds[w] # NoTask /\ holds[w][3] = "known"
    /\ IF StillQueued(w)
       THEN /\ activities' = {a \in activities : ~Holds(w, a)}
            /\ pending' = [pending EXCEPT ![x] = Append(@, Ev("result", holds[w][2]))]
            /\ Enqueue(x)
       ELSE UNCHANGED <<activities, pending, tasks>>
    /\ holds' = [holds EXCEPT ![w] = NoTask]
    /\ UNCHANGED <<inst, active, trimmed, history, gone, futures, worker, client, steps>>

Next ==
    \/ \E x \in Exec : \/ CreateWorkflowInstance(x) \/ SignalReads(x) \/ CancelReads(x)
                       \/ RemoveWorkflowInstance(x) \/ Expires(x)
    \/ ClientWrites
    \/ \E f \in futures : ScheduleFutureEvent(f)
    \/ \E e \in stream : LockExpires(e) \/ \E w \in Workers : Dequeue(w, e)
    \/ \E w \in Workers :
         \/ ReadInstance(w) \/ ReadPending(w) \/ Fail(w) \/ ExtendWorkflowTask(w)
         \/ \E outcome \in Commands \cup {"discard"}, y \in Exec \cup {NoExec},
               t \in {0} \cup {f[2] : f \in futures} :
              CompleteWorkflowTask(w, outcome, y, t)
         \/ ReadActivityInstance(w) \/ CompleteActivityTask(w) \/ ExtendActivityTask(w)
         \/ \E a \in activities : DequeueActivity(w, a)
    \/ \E a \in activities : ActivityLockExpires(a)

Spec == Init /\ [][Next]_vars
-----------------------------------------------------------------------------
(* Properties.                                                             *)

(***************************************************************************)
(* Of the workers that have executed one task, the one that completes it   *)
(* first extends the history: the ids of the stream keep the others out    *)
(* (complete_workflow_task.lua), though no lock is looked at.              *)
(***************************************************************************)
HistoryFenced ==
    \A x \in Exec : inst[x] # NoInst =>
        /\ inst[x].last = Len(history[x])
        /\ \A i \in DOMAIN history[x] : history[x][i].seq = i

(***************************************************************************)
(* An execution with pending events has a task, and the set and the stream *)
(* of the queue agree: one entry for each queued execution, whatever order *)
(* the scripts of workers and clients run in (queue/*.lua).                *)
(***************************************************************************)
TasksMatchPending ==
    /\ \A x \in Exec : pending[x] # <<>> => x \in queued
    /\ queued = {e.exec : e \in stream}
    /\ \A e, d \in stream : e.exec = d.exec => e = d

(***************************************************************************)
(* A pending event goes away only when it becomes history, is discarded by *)
(* a finished instance, or goes with all of the execution's keys           *)
(* (XTRIM and XDEL in complete_workflow_task.lua).                         *)
(***************************************************************************)
EventsMove ==
    \A x \in Exec : \A ev \in ToSet(pending[x]) \ ToSet(pending'[x]) :
      \/ \E i \in DOMAIN history'[x] : history'[x][i].event = ev
      \/ x \in gone'
      \/ inst[x].state = "Finished"

EventsMoveToHistory == [][EventsMove]_vars

Occurrences(x, ev) ==
    Cardinality({i \in DOMAIN pending[x] : pending[x][i] = ev})
      + Cardinality({i \in DOMAIN history[x] : history[x][i].event = ev})

(***************************************************************************)
(* A result arrives once, and not while the task of its activity is        *)
(* queued, however many workers ran it (complete_activity_task.lua); a     *)
(* timer fires once (schedule_future_events.lua).                          *)
(***************************************************************************)
ResultsOnce ==
    \A x \in Exec, n \in 1 .. MaxSteps :
      /\ Occurrences(x, Ev("result", n))
           + Cardinality({a \in activities : a.exec = x /\ a.n = n}) <= 1
      /\ Occurrences(x, Ev("timer", n))
           + Cardinality({f \in futures : f = <<x, n>>}) <= 1

(***************************************************************************)
(* An instance id has one active execution, the one that its key names     *)
(* (keys.go:22): a second one is refused (backendtest.go:64).              *)
(***************************************************************************)
OneActiveExecution ==
    \A x, y \in Exec :
      /\ Id(x) = Id(y)
      /\ inst[x] # NoInst /\ inst[x].state = "Active"
      /\ inst[y] # NoInst /\ inst[y].state = "Active"
      => x = y
=============================================================================
