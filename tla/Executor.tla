------------------------------ MODULE Executor ------------------------------
(***************************************************************************)
(* The workflow executor (workflow/executor), the commands                 *)
(* (internal/command) and the workers' executor caches, for one execution. *)
(*                                                                         *)
(* Workflow code is a fixed sequence of operations: schedule something,    *)
(* wait for its future, wait for a signal.  It runs until it blocks, when  *)
(* an event of the history (replay) or of a task (for the first time) is   *)
(* executed.  Scheduling adds a command; after the events of a task the    *)
(* commands emit the events that are appended to the history.              *)
(*                                                                         *)
(* The backend is what SqlBackend shows of it: a task locks the instance,  *)
(* locks expire while the task is still worked on, and a checkpoint        *)
(* succeeds only if its task is current (StaleTasksFenced).                *)
(***************************************************************************)
EXTENDS Integers, Sequences, FiniteSets, SequencesExt

CONSTANTS
    Workers,         \* worker processes, each with an executor cache
    Scenarios,       \* workflow code and its environment
    NoWorker, NoTask, NoExecutor

\* What workflow code schedules: each takes an id and adds a command.
ScheduleOps == {"activity", "timer", "subWorkflow", "trace", "sideEffect", "spawn"}

(* An operation: schedule, wait for the future of operation number of, or  *)
(* receive a signal.  WorkflowTracer.Start is a trace and its await,       *)
(* SideEffect is that followed by sideEffect.                              *)
Operation == [op : ScheduleOps \cup {"await", "signal"}, of : Nat]

IsTrace(c, k) ==
    /\ k + 1 \in DOMAIN c
    /\ c[k].op = "trace" /\ c[k + 1] = [op |-> "await", of |-> k]

ASSUME ScenariosAssumption ==
    \A s \in Scenarios :
        /\ s.code \in Seq(Operation)
        /\ \A k \in DOMAIN s.code :
             /\ s.code[k].op = "await" => s.code[k].of \in 1 .. (k - 1)
             /\ s.code[k].op = "trace" => IsTrace(s.code, k)
             /\ s.code[k].op = "sideEffect" => k > 2 /\ IsTrace(s.code, k - 2)
        /\ s.restarts \in BOOLEAN     \* the code returns ContinueAsNew
        /\ s.fails \in BOOLEAN        \* the code abandons a future, or exceeds limit
        /\ s.limit \in Nat            \* MaxHistorySize
        /\ s.canceled \in BOOLEAN     \* a client may cancel the instance
        /\ s.signals \in Nat          \* signals a client sends
        /\ s.workers \subseteq Workers \* the workers that run
        /\ s.late \in BOOLEAN         \* cached executors outlive locks

VARIABLES
    scenario,  \* the scenario of this behaviour
    hist,      \* the history
    pending,   \* visible pending events
    owed,      \* scheduled events whose result has not arrived
    spawned,   \* starts of detached instances: schedule id, when
    state,     \* state of the instance
    owner,     \* the worker that locked the instance last
    locked,    \* its lock has not expired
    cache,     \* the executor each worker has cached
    task,      \* the task each worker holds, and its result
    outside    \* signals still to be sent, and whether a cancellation is

db == <<hist, pending, owed, spawned, state>>
lock == <<owner, locked>>
vars == <<scenario, db, lock, cache, task, outside>>

-----------------------------------------------------------------------------
(* Data.                                                                   *)

CommandStates == {"Pending", "Committed", "CancelPending", "Canceled", "Done"}
CommandKinds == ScheduleOps \cup {"complete", "fail", "continueAsNew"}

EventKinds ==
    {"WorkflowTaskStarted", "WorkflowExecutionStarted", "WorkflowExecutionCanceled",
     "WorkflowExecutionFinished", "WorkflowExecutionContinuedAsNew", "SignalReceived",
     "ActivityScheduled", "ActivityCompleted", "TimerScheduled", "TimerFired",
     "TimerCanceled", "SubWorkflowScheduled", "SubWorkflowCancellationRequested",
     "SubWorkflowCompleted", "SubWorkflowFailed", "TraceStarted", "SideEffectResult"}

(* of is the schedule event id of an event about a command, the number of  *)
(* a signal, and 1 for a WorkflowExecutionFinished with an error.          *)
Event == [kind : EventKinds, of : Nat]

Ev(kind, of) == [kind |-> kind, of |-> of]

(* Schedule event ids are positions in cmds: whoever takes an id adds a    *)
(* command with it.                                                        *)
Executor == [seq      : Nat,                 \* lastSequenceID
             pc       : Nat \ {0},           \* the operation the code is at
             fut      : Seq(Nat),            \* the future of each operation, 0: ready
             cmds     : Seq([kind : CommandKinds, state : CommandStates]),
             futures  : SUBSET Nat,          \* pendingFutures
             ready    : SUBSET Nat,          \* futures that are set
             canceled : BOOLEAN,             \* the workflow's context
             signals  : Nat,                 \* received, not consumed
             err      : {"none", "error", "panic"}]

NewExecutor ==
    [seq |-> 0, pc |-> 1, fut |-> <<>>, cmds |-> <<>>, futures |-> {}, ready |-> {},
     canceled |-> FALSE, signals |-> 0, err |-> "none"]

States == {"Active", "ContinuedAsNew", "Finished"}

Result == [state : States, executed : Seq(Event), spawns : SUBSET Nat]

NoResult == [state |-> "none"]

Task == [last : Nat, new : Seq(Event), res : Result \cup {NoResult}]

TypeOK ==
    /\ scenario \in Scenarios
    /\ hist \in Seq(Event)
    /\ pending \subseteq Event /\ owed \subseteq Event
    /\ spawned \subseteq [of : Nat, at : Nat]
    /\ state \in States
    /\ owner \in Workers \cup {NoWorker} /\ locked \in BOOLEAN
    /\ cache \in [Workers -> Executor \cup {NoExecutor}]
    /\ task \in [Workers -> Task \cup {NoTask}]
    /\ outside \in [signals : Nat, cancel : BOOLEAN]

Init ==
    /\ scenario \in Scenarios
    /\ hist = <<>>
    /\ pending = {Ev("WorkflowExecutionStarted", 0)}
    /\ owed = {} /\ spawned = {}
    /\ state = "Active"
    /\ owner = NoWorker /\ locked = FALSE
    /\ cache = [w \in Workers |-> NoExecutor]
    /\ task = [w \in Workers |-> NoTask]
    /\ outside = [signals |-> scenario.signals, cancel |-> scenario.canceled]
-----------------------------------------------------------------------------
(* Commands.                                                               *)

Error(x) == [x EXCEPT !.err = "error"]

Is(x, id, kind) == id \in DOMAIN x.cmds /\ x.cmds[id].kind = kind

\* A transition of command id, which panics from any other state.
Move(x, id, from, to) ==
    IF x.cmds[id].state \in from THEN [x EXCEPT !.cmds[id].state = to]
    ELSE [x EXCEPT !.err = "panic"]

\* The states Done() accepts.
DoneFrom(kind) ==
    CASE kind \in {"timer", "subWorkflow"} -> {"Committed", "Canceled"}
      [] kind \in {"trace", "sideEffect"} -> {"Pending", "Committed"}
      [] OTHER -> {"Committed"}

\* The event Execute() emits for command c, "none" if it does not.
Emission(c) ==
    CASE c.state = "Pending" ->
           CASE c.kind = "activity"      -> "ActivityScheduled"
             [] c.kind = "timer"         -> "TimerScheduled"
             [] c.kind = "subWorkflow"   -> "SubWorkflowScheduled"
             [] c.kind = "trace"         -> "TraceStarted"
             [] c.kind = "sideEffect"    -> "SideEffectResult"
             [] c.kind = "continueAsNew" -> "WorkflowExecutionContinuedAsNew"
             [] c.kind \in {"complete", "fail"} -> "WorkflowExecutionFinished"
             [] OTHER                    -> "none"
      [] c.state = "CancelPending" ->
           IF c.kind = "timer" THEN "TimerCanceled" ELSE "SubWorkflowCancellationRequested"
      [] OTHER -> "none"

\* The state Execute() leaves command c in.
Executed(c) ==
    CASE c.state = "Pending" ->
           IF c.kind \in {"trace", "sideEffect", "complete", "fail"} THEN "Done" ELSE "Committed"
      [] c.state = "CancelPending" -> "Canceled"
      [] OTHER -> c.state

\* Cancel(), which the context calls for commands that are not Done.
Canceled(c) ==
    CASE c.state = "Pending" -> "Canceled"
      [] c.state = "Committed" -> "CancelPending"
      [] OTHER -> c.state
-----------------------------------------------------------------------------
(* Workflow code.                                                          *)

code == scenario.code

Completed(x) == x.pc > Len(code)

\* Mutant of Blocked: receiving does not wait for a signal.
BlockedOnFutures(x) ==
    Completed(x) \/ (code[x.pc].op = "await" /\ x.fut[code[x.pc].of] \notin {0} \cup x.ready)

Blocked(x) ==
    \/ Completed(x)
    \/ code[x.pc].op = "await" /\ x.fut[code[x.pc].of] \notin {0} \cup x.ready
    \/ code[x.pc].op = "signal" /\ x.signals = 0

\* Mutant of Schedule: nothing is traced while replaying.
ScheduleUntraced(x, op, replaying) ==
    LET id == Len(x.cmds) + 1
        inline == op \in {"trace", "sideEffect"} /\ ~replaying
    IN  IF (x.canceled /\ op # "trace") \/ (replaying /\ op = "trace")
        THEN [x EXCEPT !.fut = Append(@, 0)]
        ELSE [x EXCEPT !.fut = Append(@, id),
                       !.cmds = Append(@, [kind |-> op, state |-> "Pending"]),
                       !.futures = @ \cup (IF inline \/ op = "spawn" THEN {} ELSE {id}),
                       !.ready = @ \cup (IF inline THEN {id} ELSE {})]

(* Schedules operation op.  A canceled context sets the future at once and *)
(* takes no id, except for a trace.  Traces and side effects have their    *)
(* result unless they are replayed.  A spawned workflow has no future.     *)
Schedule(x, op, replaying) ==
    LET id == Len(x.cmds) + 1
        inline == op \in {"trace", "sideEffect"} /\ ~replaying
    IN  IF x.canceled /\ op # "trace" THEN [x EXCEPT !.fut = Append(@, 0)]
        ELSE [x EXCEPT !.fut = Append(@, id),
                       !.cmds = Append(@, [kind |-> op, state |-> "Pending"]),
                       !.futures = @ \cup (IF inline \/ op = "spawn" THEN {} ELSE {id}),
                       !.ready = @ \cup (IF inline THEN {id} ELSE {})]

Step(x, replaying) ==
    LET op == code[x.pc].op
        y == IF op \in ScheduleOps THEN Schedule(x, op, replaying)
             ELSE [x EXCEPT !.fut = Append(@, 0),
                            !.signals = IF op = "signal" THEN @ - 1 ELSE @]
    IN  [y EXCEPT !.pc = @ + 1]

\* Runs the code until it blocks or returns.
Continue(x, replaying) ==
    LET run[n \in 0 .. Len(code)] ==
            IF n = 0 THEN x
            ELSE LET y == run[n - 1] IN IF Blocked(y) THEN y ELSE Step(y, replaying)
    IN  IF x.err = "none" THEN run[Len(code)] ELSE x
-----------------------------------------------------------------------------
(* Events.                                                                 *)

Settle(x, id) == [x EXCEPT !.futures = @ \ {id}, !.ready = @ \cup {id}]

\* Mutant of Commit: the command is found but not marked.
CommitUnmarked(x, id, kind) == IF Is(x, id, kind) THEN x ELSE Error(x)

\* The history says that command id was executed.
Commit(x, id, kind) ==
    IF Is(x, id, kind) THEN Move(x, id, {"Pending"}, "Committed") ELSE Error(x)

\* A result arrived.
Resolve(x, id, kind) ==
    IF id \in x.futures /\ Is(x, id, kind)
    THEN Move(Settle(x, id), id, DoneFrom(kind), "Done") ELSE Error(x)

\* The result of a trace or side effect: the command comes first.
ResolveInline(x, id, kind) ==
    LET y == Move(x, id, DoneFrom(kind), "Done")
    IN  CASE ~Is(x, id, kind) -> Error(x)
          [] y.err # "none" -> y
          [] OTHER -> IF id \in x.futures THEN Settle(y, id) ELSE Error(y)

\* Mutant of HandleCancel: a canceled command is done.
HandleCancelDone(x, id, kind) ==
    IF Is(x, id, kind) THEN Move(x, id, {"CancelPending"}, "Done") ELSE Error(x)

HandleCancel(x, id, kind) ==
    IF Is(x, id, kind) THEN Move(x, id, {"CancelPending"}, "Canceled") ELSE Error(x)

\* The future may have been given up already; running blocked code changes nothing.
TimerCanceled(x, id) ==
    LET y == HandleCancel(x, id, "timer")
    IN  IF id \in x.futures /\ y.err = "none" THEN Settle(y, id) ELSE y

\* Mutant of CancelContext: the futures of timers are kept.
CancelContextKeepsFutures(x) ==
    IF x.canceled THEN x
    ELSE [x EXCEPT !.canceled = TRUE,
                   !.cmds = [i \in DOMAIN @ |->
                               IF @[i].kind \in {"timer", "subWorkflow"}
                               THEN [@[i] EXCEPT !.state = Canceled(x.cmds[i])] ELSE @[i]]]

(* Cancels the context: timers are given up at once, sub-workflows only if *)
(* they have not been scheduled.                                           *)
CancelContext(x) ==
    LET hit == {i \in DOMAIN x.cmds : x.cmds[i].kind \in {"timer", "subWorkflow"}}
        gone == {i \in hit \cap x.futures :
                   x.cmds[i].kind = "timer" \/ x.cmds[i].state = "Pending"}
    IN  IF x.canceled THEN x
        ELSE [x EXCEPT !.canceled = TRUE,
                       !.cmds = [i \in DOMAIN @ |->
                                   IF i \in hit THEN [@[i] EXCEPT !.state = Canceled(x.cmds[i])]
                                   ELSE @[i]],
                       !.futures = @ \ gone, !.ready = @ \cup gone]

\* executeEvent
Handle(x, e, replaying) ==
    LET go(y) == Continue(y, replaying)
    IN  CASE e.kind = "WorkflowExecutionStarted" -> go(x)
          [] e.kind = "WorkflowExecutionCanceled" -> go(CancelContext(x))
          [] e.kind = "SignalReceived" -> go([x EXCEPT !.signals = @ + 1])
          [] e.kind = "ActivityScheduled" -> Commit(x, e.of, "activity")
          [] e.kind = "ActivityCompleted" -> go(Resolve(x, e.of, "activity"))
          [] e.kind = "TimerScheduled" -> Commit(x, e.of, "timer")
          [] e.kind = "TimerFired" ->
               IF e.of \in x.futures THEN go(Resolve(x, e.of, "timer")) ELSE x
          [] e.kind = "TimerCanceled" -> go(TimerCanceled(x, e.of))
          [] e.kind = "SubWorkflowScheduled" -> Commit(x, e.of, "subWorkflow")
          [] e.kind = "SubWorkflowCancellationRequested" ->
               go(HandleCancel(x, e.of, "subWorkflow"))
          [] e.kind \in {"SubWorkflowCompleted", "SubWorkflowFailed"} ->
               go(Resolve(x, e.of, "subWorkflow"))
          [] e.kind = "TraceStarted" -> go(ResolveInline(x, e.of, "trace"))
          [] e.kind = "SideEffectResult" -> go(ResolveInline(x, e.of, "sideEffect"))
          [] OTHER -> x

\* Executes events up to the first that fails; seq counts them.
Execute(x, events, replaying) ==
    FoldLeft(LAMBDA y, e :
               IF y.err # "none" THEN y
               ELSE LET z == Handle(y, e, replaying)
                    IN  IF z.err = "none" THEN [z EXCEPT !.seq = @ + 1] ELSE z,
             x, events)

Replay(x, events) == Execute(x, events, TRUE)
-----------------------------------------------------------------------------
(* Tasks.                                                                  *)

Add(x, kind) == [x EXCEPT !.cmds = Append(@, [kind |-> kind, state |-> "Pending"])]

Started == Ev("WorkflowTaskStarted", 0)

\* Replays what the task has seen and x has not.
Catchup(x, t) ==
    IF t.last > x.seq THEN Replay(x, SubSeq(hist, x.seq + 1, Len(hist))) ELSE x

\* The errors of catchupOnHistory.
Rejects(x, t) ==
    \/ t.last < x.seq
    \/ LET y == Catchup(x, t) IN y.err = "none" /\ y.seq # t.last

\* Mutant of Ending: pending futures do not matter.
EndingIgnoresFutures(x) ==
    CASE x.err = "error" -> <<"fail">>
      [] Completed(x) -> IF scenario.restarts THEN <<"continueAsNew">> ELSE <<"complete">>
      [] OTHER -> <<>>

(* The command with which the code, having executed the events, ends: code *)
(* that returns while futures are pending fails.                           *)
Ending(x) ==
    CASE x.err = "error" \/ (Completed(x) /\ x.futures # {}) -> <<"fail">>
      [] Completed(x) -> IF scenario.restarts THEN <<"continueAsNew">> ELSE <<"complete">>
      [] OTHER -> <<>>

(* The executor after the events of task t and before its commands.  If    *)
(* the replay fails the new events are skipped.                            *)
AfterEvents(x, t) ==
    LET y == Catchup(x, t)
        z == IF y.err = "error" THEN [y EXCEPT !.seq = t.last + 1]
             ELSE Execute(y, <<Started>> \o t.new, FALSE)
        limit == IF z.seq >= scenario.limit THEN <<"fail">> ELSE <<>>
    IN  IF z.err = "panic" THEN z
        ELSE FoldLeft(Add, [z EXCEPT !.err = "none"], Ending(z) \o limit)

\* What the commands emit, in order.
Emitted(x) ==
    LET of(id) == CASE x.cmds[id].kind \in ScheduleOps -> id
                    [] x.cmds[id].kind = "fail" -> 1
                    [] OTHER -> 0
    IN  SelectSeq([id \in DOMAIN x.cmds |-> [kind |-> Emission(x.cmds[id]), of |-> of(id)]],
                  LAMBDA e : e.kind # "none")

\* The state of the instance: the largest the commands ask for.
NewState(x) ==
    LET kinds == {c.kind : c \in {d \in Range(x.cmds) : d.state = "Pending"}}
    IN  CASE kinds \cap {"complete", "fail"} # {} -> "Finished"
          [] "continueAsNew" \in kinds -> "ContinuedAsNew"
          [] OTHER -> "Active"

AfterCommands(x) ==
    [x EXCEPT !.cmds = [id \in DOMAIN @ |-> [@[id] EXCEPT !.state = Executed(x.cmds[id])]],
              !.seq = @ + Len(Emitted(x))]

ResultOf(x, t) ==
    [state |-> NewState(x),
     executed |-> SubSeq(<<Started>> \o t.new, 1, x.seq - t.last) \o Emitted(x),
     spawns |-> {id \in DOMAIN x.cmds : x.cmds[id] = [kind |-> "spawn", state |-> "Pending"]}]

\* The order of pending events is the database's; the first event is first.
Orders(events) ==
    {s \in SetToSeqs(events) :
       Ev("WorkflowExecutionStarted", 0) \in events => s[1].kind = "WorkflowExecutionStarted"}

GetTask(w) ==
    /\ w \in scenario.workers /\ task[w] = NoTask
    /\ state = "Active" /\ pending # {} /\ ~locked
    /\ owner' = w /\ locked' = TRUE
    /\ \E new \in Orders(pending) :
         task' = [task EXCEPT ![w] = [last |-> Len(hist), new |-> new, res |-> NoResult]]
    /\ UNCHANGED <<scenario, db, cache, outside>>

\* The executor from the cache, or a new one.
GetExecutor(w) == IF cache[w] = NoExecutor THEN NewExecutor ELSE cache[w]

\* Worker w works on its task; unless it is late it does so at once.
MayExecute(w) ==
    /\ task[w] # NoTask /\ task[w].res = NoResult
    /\ scenario.late \/ (locked /\ owner = w)

\* A panic is the loss of the process: DropTask and Evict.
ExecuteTask(w) ==
    LET t == task[w]
        x == AfterEvents(GetExecutor(w), t)
    IN  /\ MayExecute(w)
        /\ ~Rejects(GetExecutor(w), t) /\ x.err = "none"
        /\ cache' = [cache EXCEPT ![w] = AfterCommands(x)]
        /\ task' = [task EXCEPT ![w].res = ResultOf(x, t)]
        /\ UNCHANGED <<scenario, db, lock, outside>>

\* The executor does not fit the task: the task fails, the executor stays.
RejectTask(w) ==
    LET x == GetExecutor(w)
    IN  /\ MayExecute(w) /\ Rejects(x, task[w])
        /\ cache' = [cache EXCEPT ![w] = IF task[w].last > x.seq THEN Catchup(x, task[w]) ELSE x]
        /\ task' = [task EXCEPT ![w] = NoTask]
        /\ UNCHANGED <<scenario, db, lock, outside>>

TimersCanceled(events) == {e.of : e \in {f \in events : f.kind = "TimerCanceled"}}

\* Mutant of Kept: every pending event is deleted.
KeptNone(events) == {}

\* The pending events that a checkpoint with these events keeps.
Kept(events) ==
    {e \in pending \ events : ~(e.kind = "TimerFired" /\ e.of \in TimersCanceled(events))}

\* The results still to come after a checkpoint with these events.
Owed(events) ==
    {e \in owed \cup events :
       /\ e.kind \in {"ActivityScheduled", "TimerScheduled", "SubWorkflowScheduled"}
       /\ ~(e.kind = "TimerScheduled" /\ e.of \in TimersCanceled(events))}

(* The worker completes its task.  The start of a spawned workflow may     *)
(* find an active instance of that name, which is reported to the caller   *)
(* as the failure of a sub-workflow.                                       *)
Checkpoint(w) ==
    LET t == task[w]
        events == Range(t.res.executed)
    IN  /\ t # NoTask /\ t.res # NoResult
        /\ owner = w /\ t.last = Len(hist) /\ state = "Active"
        /\ hist' = hist \o t.res.executed
        /\ state' = t.res.state
        /\ \E taken \in SUBSET {id \in t.res.spawns : \E s \in spawned : s.of = id} :
             /\ spawned' = spawned \cup [of : t.res.spawns \ taken, at : {Len(hist)}]
             /\ pending' = Kept(events)
                           \cup (IF taken = {} THEN {} ELSE {Ev("SubWorkflowFailed", 0)})
        /\ owed' = Owed(events)
        /\ locked' = FALSE
        /\ cache' = [cache EXCEPT ![w] = IF t.res.state = "Active" THEN @ ELSE NoExecutor]
        /\ task' = [task EXCEPT ![w] = NoTask]
        /\ UNCHANGED <<scenario, owner, outside>>

\* The worker fails to complete its task; its executor stays ahead of history.
DropTask(w) ==
    /\ task[w] # NoTask
    /\ task' = [task EXCEPT ![w] = NoTask]
    /\ UNCHANGED <<scenario, db, lock, cache, outside>>

(* A lock lives longer than an executor nobody asks for, with the default  *)
(* options (60s and 10s).                                                  *)
LockExpires ==
    /\ locked
    /\ locked' = FALSE
    /\ cache' = [cache EXCEPT ![owner] = IF scenario.late THEN @ ELSE NoExecutor]
    /\ UNCHANGED <<scenario, db, owner, task, outside>>

\* Expiry, capacity, or the restart of the process.
Evict(w) ==
    /\ cache[w] # NoExecutor
    /\ cache' = [cache EXCEPT ![w] = NoExecutor]
    /\ UNCHANGED <<scenario, db, lock, task, outside>>

\* The result of an activity, timer or sub-workflow arrives.
Deliver(e) ==
    /\ state = "Active"
    /\ owed' = owed \ {e}
    /\ pending' = pending \cup
         {Ev(CASE e.kind = "ActivityScheduled" -> "ActivityCompleted"
               [] e.kind = "TimerScheduled" -> "TimerFired"
               [] OTHER -> "SubWorkflowCompleted", e.of)}
    /\ UNCHANGED <<scenario, hist, spawned, state, lock, cache, task, outside>>

Signal ==
    /\ state = "Active" /\ outside.signals > 0
    /\ outside' = [outside EXCEPT !.signals = @ - 1]
    /\ pending' = pending \cup {Ev("SignalReceived", outside.signals)}
    /\ UNCHANGED <<scenario, hist, owed, spawned, state, lock, cache, task>>

Cancel ==
    /\ state = "Active" /\ outside.cancel
    /\ outside' = [outside EXCEPT !.cancel = FALSE]
    /\ pending' = pending \cup {Ev("WorkflowExecutionCanceled", 0)}
    /\ UNCHANGED <<scenario, hist, owed, spawned, state, lock, cache, task>>

Next ==
    \/ \E w \in Workers : \/ GetTask(w) \/ ExecuteTask(w) \/ RejectTask(w)
                          \/ Checkpoint(w) \/ DropTask(w) \/ Evict(w)
    \/ \E e \in owed : Deliver(e)
    \/ Signal
    \/ Cancel
    \/ LockExpires

Spec == Init /\ [][Next]_vars

\* An ExecuteTask step, told by its effect.
Executes(w) ==
    /\ task[w] # NoTask /\ task[w].res = NoResult
    /\ task'[w] # NoTask /\ task'[w].res # NoResult

(* Pollers poll, locks expire, activities, timers and sub-workflows end,   *)
(* clients send the signals they will send, and handlers do not keep their *)
(* tasks forever.  Not every attempt at a task fails before its execution  *)
(* (the second conjunct, which is strong fairness of ExecuteTask where     *)
(* tasks are not rejected) or after it.                                    *)
LiveSpec ==
    /\ Spec
    /\ ([]<>(\E w \in Workers : MayExecute(w))) => []<><<\E w \in Workers : Executes(w)>>_vars
    /\ WF_vars(\E w \in Workers : GetTask(w))
    /\ SF_vars(\E w \in Workers : Checkpoint(w))
    /\ \A w \in Workers : WF_vars(Checkpoint(w) \/ DropTask(w))
    /\ WF_vars(\E e \in owed : Deliver(e))
    /\ WF_vars(Signal)
    /\ WF_vars(LockExpires)
-----------------------------------------------------------------------------
(* Properties.                                                             *)

Replayed == Replay(NewExecutor, hist)

(* A worker that has nothing cached can take the execution over at any     *)
(* time: replaying the history never meets an event the code, run again,   *)
(* does not account for (catchupOnHistory would fail the workflow).        *)
ReplayNeverFails == state = "Active" => Replayed.err = "none"

(* The executor a worker has cached, once it is up to date, is the one a   *)
(* replay would build: same position of the code, same commands in the     *)
(* same states, same futures.                                              *)
ReplayAgrees ==
    state = "Active" =>
        \A w \in Workers :
            cache[w] # NoExecutor /\ cache[w].seq = Len(hist) => cache[w] = Replayed

(* Nothing is recorded twice: whoever replays or repeats a task, a command *)
(* is scheduled, settled and canceled once, a signal received once.        *)
RecordedOnce ==
    \A i, j \in DOMAIN hist : hist[i] = hist[j] /\ hist[i] # Started => i = j

ClosingEvents == {"WorkflowExecutionFinished", "WorkflowExecutionContinuedAsNew"}

(* A history is closed by one event, its last, and the execution fails     *)
(* exactly if its code abandons a future or exceeds MaxHistorySize, never  *)
(* because a worker could not make sense of an event or of the history.    *)
ClosesAsWritten ==
    state # "Active" =>
        /\ {i \in DOMAIN hist : hist[i].kind \in ClosingEvents} = {Len(hist)}
        /\ (hist[Len(hist)] = Ev("WorkflowExecutionFinished", 1)) = scenario.fails

(* No sequence of results and cancellations takes a command through a      *)
(* transition that invalidStateTransition answers with a panic.            *)
NoPanic ==
    \A w \in Workers :
        MayExecute(w) /\ ~Rejects(GetExecutor(w), task[w]) =>
            AfterEvents(GetExecutor(w), task[w]).err # "panic"

(* Whatever is dropped, evicted and repeated, a workflow ends once its     *)
(* results and signals have come.  If executors outlive locks nothing      *)
(* ensures it: every rejected task refreshes the entry of the executor.    *)
WorkflowCloses == ~scenario.late => <>(state # "Active")
=============================================================================
