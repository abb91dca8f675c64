# A TLA+ model of go-workflows

go-workflows runs durable workflows: user code whose progress is recorded as a
history of events, so that any worker can take an instance over by replaying
it. The system is correct when that history is: one numbered sequence of events
per execution, every event handled once, every activity, timer and sub-workflow
with one outcome - although workers stall, die, lose their locks and report late.
This directory models the parts that have to guarantee it - three kinds of backend,
the workers, the executor that replays, the scheduler that workflow code runs on -
and the tester that stands in for them. It model-checks them on small instances and
proves for all sizes what matters most: that the SQL and Redis backends keep the history,
that workers keep their slots, that workflow code gets all that its scheduler and
channels promise, and that the tester loses no event.

Paths below are relative to the repository's root (`backend/sqlite/sqlite.go` is
`src/backend/sqlite/sqlite.go` in `PROJECT.json`, whose `map` lists the source
lines of every definition).

## 1. The system

| component | state it keeps | operations | module |
|---|---|---|---|
| SQL backends `backend/sqlite`, `mysql`, `postgres` | tables `instances` (state, `locked_until`, `sticky_until`, `worker`, parent), `pending_events` (with `visible_at`), `history` (sequence ids), `activities`, `attributes` | create, signal, cancel, remove, batch removal; get / extend / complete a workflow task; get / extend / complete an activity task | `SqlBackend` |
| Task worker `internal/worker`, `worker` | poller goroutines, slots and tasks channels, dispatcher's WaitGroup, heartbeat goroutines, contexts | poll, reserve, add, release, handle, heartbeat, shutdown, `WaitForCompletion` | `TaskWorker` |
| Workflow executor `workflow/executor`, `internal/workflowstate` | replayed workflow state, last sequence id, pending futures, commands | catch up on history, execute new events, execute commands | `Executor`; in `SqlBackend` a choice |
| Commands `internal/command` | a state machine per command | schedule, cancel, done, `Execute` | `Executor`; the messages they send in `SqlBackend` |
| Executor cache `workflow/executor/cache` | LRU of executors with expiry | store, get, evict | `Executor` |
| Scheduler and synchronisation `internal/sync`, `workflow/channel.go`, `workflow/select.go`, `workflow/timer.go`, signals | the list of coroutines, buffers and waiting callbacks of channels, futures, contexts, counts of groups, pending signals | start, send, receive, close, select, get, add, done, wait, cancel, schedule a timer; execute a round | `Coroutines`; one coroutine in `Executor` |
| Redis backend `backend/redis` | streams with a consumer group and a set of queued ids, streams of pending events and history, sorted set of future events, keys of instances | create, signal, cancel, remove, expire; dequeue, recover, extend, complete (Lua scripts) | `RedisBackend` |
| Monoprocess backend `backend/monoprocess` | two wake-up channels around another backend, running timers | check, wait, notify | `Monoprocess` |
| Tester `tester` | test workflows, callbacks channel, timers, mock clock, count of running activities | execute passes, schedule, cancel and fire timers, run activities and mocks | `Tester` |
| Client `client` | none | calls of the backend, polling for the end of an instance | client actions of the backends |

How they interact. A client writes rows through the backend. Pollers of a worker
call `GetWorkflowTask`/`GetActivityTask`, which lock a row and return a task; the
task goes over an unbuffered channel to the dispatcher, which starts a goroutine.
That goroutine executes the task - workflow code up to the point where it blocks,
or an activity - while a second goroutine extends the lock, and hands the result
to the backend in one transaction: `CompleteWorkflowTask` writes the history,
deletes the handled pending events, inserts activities, timers and the messages
for other instances, and unlocks the row. Everything shared between workers is in
the database; a lock is a timestamp plus a worker *name*, which all handlers of a
process share. The Redis backend does the same with one Lua script per call, but its
tasks are stream entries that other workers claim after a timeout, and its Go code
reads in steps before the script runs. The monoprocess backend wraps one of the
others and wakes the pollers of its own process. Inside a task, the executor feeds
one event after the other to workflow code, which runs as coroutines of a
deterministic scheduler until all of them are blocked. The tester replaces workers and
backend by one loop.

What is hard here. A handler may stall past the lock timeout while the row is
handed out again, also to another handler of the same worker, and then complete
its stale task (`sqlite.go:614`); its heartbeat keeps running meanwhile. Signals,
cancellations and timers arrive between reading the pending events and deleting
the handled ones. An activity may be run by several workers. Timers fall due while
they are being canceled. Sub-workflows continue as new, collide with running
instances, and are removed. At shutdown pollers, handlers and heartbeats are at
any line, and slots are released on half a dozen paths. On Redis a task may be
executed by several workers at once and nothing checks who owns it. Coroutines wake
each other in ways the scheduler's notion of progress does not always see. In the
tester activities, wall-clock timers and the loop share a channel. `PROJECT.json`
lists these under `hazards`, each with its line and the properties that guard it;
where the code gives no guarantee a note says so, and section 6 describes what
happens.

Properties that make each component correct:

- **SQL backends**: contiguous histories (`HistoryContiguous`); stale tasks are
  fenced (`StaleTasksFenced`); closed executions stay closed
  (`ClosedHistoryFrozen`); events move from the pending table to the history once
  and are not lost (`LogSpec`, the refinement of `ExecutionLog`); one active
  execution per instance (`OneActiveExecution`); exactly one outcome of
  every activity, timer and sub-workflow (`ActivityOutcome`, `TimerOutcome`,
  `SubWorkflowOutcome`); progress (`EventsHandled`, `ActivitiesHandled`).
- **Task worker**: slots neither leak nor are returned twice (`SlotsOwned`); the
  shutdown never closes a channel under a sender, waits for the handlers
  (`ShutdownInOrder`) and ends (`ShutdownCompletes`); fetched tasks settle and
  their heartbeats end (`TasksSettle`).
- **Executor**: replaying a history gives the commands the history records
  (`ReplayNeverFails`), and the same executor whoever does it and in how many parts
  (`ReplayAgrees`); nothing is recorded twice (`RecordedOnce`); an execution ends
  once and as its code says (`ClosesAsWritten`), and does end whatever attempts fail
  (`WorkflowCloses`); no command leaves its state machine (`NoPanic`).
- **Scheduler**: a round ends with every coroutine blocked or finished
  (`RoundEndsBlocked`); channels and signal channels are queues (`FifoSpec`, the
  refinement of `FifoChannels`); cancellation reaches what is below, and timers are
  registered for it exactly as long as they are pending (`CancellationReaches`); a
  `Wait` that blocked ends at zero (`BlockedWaitEndsAtZero`).
- **Redis**: of the completions of one task the first alone extends the history
  (`HistoryFenced`); an execution with events is queued, once (`TasksMatchPending`);
  events are executed before they are trimmed (`EventsMoveToHistory`); results and
  timers arrive once (`ResultsOnce`).
- **Monoprocess**: no notification is lost (`NoLostWakeup`), and what nobody is
  notified of is found all the same (`TasksFetched`).
- **Tester**: results reach their workflow once (`ResultsConserved`), no workflow is
  left with events and no timer with the test timed out (`NothingLeftBehind`), time
  travel fires timers once and canceled ones never (`TimeTravelTimers`), forward
  (`TimeGoesForward`), and activities are answered (`ActivitiesAnswered`).

## 2. Modules

### SqlBackend

One transaction of a backend is one action; interleaving happens between the calls
of a handler. This is exact for SQLite, which has one writer at a time. The
correspondence:

| TLA+ | code |
|---|---|
| `inst[x]` | the row of `instances` of execution `x`. `lock` is `locked_until`: NULL, in the future (`held`) or past (`expired`); `sticky` says that `sticky_until` is in the future. States other than Active, ContinuedAsNew and Finished stand for a missing row: `unused`, `removed` (with history and attributes), `purged` (by `RemoveWorkflowInstances`, which leaves those behind) |
| `pending[x]`, `due` | `pending_events`, and which timer events' `visible_at` has passed |
| `hist[x]` | `history`: one record per checkpoint with the range of sequence ids it inserted, the executed events and those its commands emitted |
| `activities` | the `activities` table |
| `wtask[h]`, `atask[h]` | the task a handler goroutine holds: a snapshot of what the backend returned, which may be stale |
| `nextID` | UUIDs of events, in order of creation |

Actions: `CreateWorkflowInstance`, `SignalWorkflow`, `CancelWorkflowInstance`,
`RemoveWorkflowInstance`, `RemoveWorkflowInstances`; `GetWorkflowTask`,
`ExtendWorkflowTask`, `CompleteWorkflowTask`, `DropWorkflowTask` (the executor or
the heartbeat failed, the process died, or the completing transaction rolled back);
the same four for activities; and time: `WorkflowLockExpires`, `StickyExpires`,
`ActivityLockExpires`, `TimerDue`.

`CompleteWorkflowTask` is the whole transaction, in `Checkpoint`. What the executor
hands to it is a choice: the execution goes on, finishes or continues as new, with
at most one command (activity, timer, cancellation of an open timer, sub-workflow,
cancellation of an open sub-workflow). With `EventsMayFail` an event may fail to
execute, and the batch then holds only the events before it
(`executor.go:295`). Timers, cancellations, the start of a child or continuation,
the failure when the child's id is taken, and the result for the parent are the
`Messages` of the checkpoint.

The three SQL backends differ in two ways that matter here, which are constants:
`UniqueEventIDs` (SQLite's history has the primary key `(id, instance_id)`; the other
two have a surrogate key only) and `LockChecked` (PostgreSQL's completing UPDATE
also requires `locked_until IS NOT NULL`).

| backend | `UniqueEventIDs` | `LockChecked` |
|---|---|---|
| SQLite | TRUE | FALSE |
| MySQL | FALSE | FALSE |
| PostgreSQL | FALSE | TRUE |

Abstractions: queues (every worker serves all), payloads, names, metadata, the
wording of errors, trace contexts; absolute time (a lock or a timer has expired or
not, at any moment). Two of the model's actions stand for several lines of different
files: what commands emit is taken from `internal/command/*.go` and the messages of
the finished workflow from `complete_workflow.go`.

### ExecutionLog

The abstract specification of a task backend: an execution has a status, an inbox
and a log. A checkpoint moves a set of events from the inbox to the log, each at most
once; other inboxes only grow, at most one execution comes into being with it, and it
may close the execution. Only events of timers leave an inbox without being executed.
It knows neither locks nor workers. `SqlBackend!Log` instantiates it: `Status` merges
the row's states, `inbox` is `pending`, and `Executed` is the history without the
events that commands emit.

### The proof modules

`SqlBackendProofs`, `SqlBackendOutcomeProofs`, `RedisBackendProofs`,
`RedisBackendOnceProofs`, `MonoprocessProofs`, `TaskWorkerProofs`, `CoroutinesProofs` and
`TesterProofs` hold the theorems about `SqlBackend`, `RedisBackend`, `Monoprocess`,
`TaskWorker`, `Coroutines` and `Tester`, section 5.

### TaskWorker

One worker (`Worker[Task, TaskResult]`), as goroutines: `poller[p]` is the line a
poller is at, `slots` the length of the slots channel, `task[t]` the life of a
delivered task, `beat[t]` its heartbeat goroutine, `canceled` the tasks whose
context is canceled, `aborted` those whose execution noticed it; `closed`,
`dispatcher` and `waiting` are the shutdown. `MaxParallelTasks = 0` is the default,
without slots. `Cause` is how the root context ends, by `cancel()` or by its
deadline: `poll` and `poller` treat the two errors differently. `ReportsErrors`
distinguishes the workflow worker, whose `Execute` returns an error of a canceled
execution, from the activity worker, which makes a result of it. The backend is a
set of deliveries; polling intervals and backoff are time and left out.

### Executor

One execution, its backend reduced to what `SqlBackend` shows of it (a lock that
expires, a checkpoint that succeeds only if its task is current), and workers with
executor caches.

| TLA+ | code |
|---|---|
| `code` | the workflow function, as a sequence of operations: schedule, wait for a future, receive a signal. One coroutine; it ignores errors of its futures |
| `cache[w]` | the `executor` with its `WfState` that worker `w` has cached: `seq` is `lastSequenceID`, `cmds` the commands (their positions are the schedule event ids), `futures` `pendingFutures`, `ready` the futures with a value, `pc` and `fut` where the code is and which futures it holds |
| `hist`, `pending`, `state`, `owner`, `locked` | the history, the visible pending events, and the instance's row |
| `owed` | scheduled activities, timers and sub-workflows whose result has not come |
| `task[w]` | a task `w` holds and, once executed, its `ExecutionResult` |
| `spawned` | starts of detached workflows that were sent |

`Handle` is `executeEvent` with its handlers, `Execute` applies it to events,
`Replay` does so while replaying; `AfterEvents` and `AfterCommands` are the two
halves of `ExecuteTask`. Actions: `GetTask`, `ExecuteTask`, `RejectTask` (the errors
of `catchupOnHistory`), `Checkpoint`, `DropTask` (anything that keeps a task from
being completed), `LockExpires`, `Evict`; and the world: `Deliver`, `Signal`,
`Cancel`. The events of a task come in any order (`Orders`): the SQL of SQLite has no
`ORDER BY`, that of MySQL and PostgreSQL orders timers by their insertion.

A worker may stall after it has executed a task, so that its checkpoint comes too
late. With the default options its cached executor, which is then ahead of the
history, does not survive that: it expires after 10 seconds without use, a lock 60
seconds after its last extension. `LockExpires` therefore evicts the holder's
executor. In scenarios with `late` it does not, and a task may also be executed
after its lock expired.

Abstractions: an activity that fails is one that completes; names and inputs; the
time workflow code reads; tracing is `trace` operations; `WithRetries`; parents (the
result for a parent is in `SqlBackend`). `NoPanic` is stated of the next execution of
a task: a panic itself is the loss of the process, `DropTask` and `Evict`.

### Coroutines and FifoChannels

The scheduler and everything workflow code blocks on. Which program runs is left open:
a coroutine makes any call of its *menu*, up to `MaxCalls` of them, or returns. One
step is one call, from where the coroutine runs to where the call returns or yields.

| TLA+ | code |
|---|---|
| `coroutines`, `turn`, `allBlocked`, `progress` | the scheduler's list, the index and local of the loop in `Execute` (`turn = 0` outside of it), and `coState.progress` |
| `co[c]` | a coroutine: `op` the call in which it has yielded, `waits` its local `addedSender`/`addedListener`, `woken` its local `sentValue`/`receivedValue`, `left` the calls left, `group` the error group whose function it runs |
| `chan[h]` | `buffer`, the callbacks in `receivers` and `senders`, `closed`. A context's done channel is the channel of the same name, in whose `receivers` pending timers register |
| `future`, `ctx`, `group` | timers' futures, cancelable contexts with their children, wait and error groups (count, future, `waiting`, `firstErr`) |
| `pending`, `opened`, `signals` | `pendingSignals`, `signalChannels`, the number of signals received |
| `delivered`, `quiet`, `silent` | history variables: what was received, and whether a turn enabled others without marking progress, by a call that returns or by one that blocks (`SelectWaits`) |

`MovesTo` is the loop of `Execute`; `Send`, `Receive`, `Answered`, `CloseChan`,
`SelectYields`, `SelectDefault`, `Get`, `Go`, `GroupGo`, `Add`, `Done`, `Wait`,
`WithCancel`, `Disconnect`, `Cancel`, `ScheduleTimer`, `SignalChannel` and `Finish`
are the calls, `Select`'s cases being the calls themselves. Between rounds the
executor delivers an event: `ReceiveSignal`, `TimerFired`, `WorkflowCanceled`; `Exit`
ends the coroutines. Misuse that the code answers with a panic (`Panics`) ends the
execution, as `Execute` returns the error.

`FifoChannels` is what channels promise: values that are accepted (buffered, or
offered by a blocked sender) are received once, in order of acceptance. `Coroutines!Fifo`
maps its queue to the buffer followed by the values of blocked senders.

Abstractions: values are identities of calls; deadlines and values of contexts are
left out; the futures are those of timers, as a future is set by an event in the same
way whatever it belongs to.

### RedisBackend

A Lua script is one action; a Go function that reads first is several. `stream`,
`queued` are the two halves of a task queue (stream with pending entries: `held`,
`idle`; and the set); `worker[w]` goes through `dequeued`, `known` (it has read the
instance), `executing` (and the pending events); `holds[w]` the same for an activity;
`client` is what a client has read and not yet written. `futures` is the sorted set of
future events, `active` the keys of active executions. Entries of a stream have ids
that grow: `trimmed[x]` counts the entries that have left the stream of pending events
of `x`, which names the ones still in it, and a worker keeps the id of the last one it
has read in `upto` (`CustomData` of the task).

| TLA+ | code |
|---|---|
| `CreateWorkflowInstance`, `SignalReads`, `CancelReads`, `ClientWrites`, `RemoveWorkflowInstance`, `Expires` | `instance.go`, `signal.go`, `delete.go`, `expire.go` and their scripts |
| `ScheduleFutureEvent` | one iteration of `schedule_future_events.lua` |
| `Dequeue`, `LockExpires`, `ExtendWorkflowTask` | `queue.go`: `XAUTOCLAIM` or `XREADGROUP`, the idle time, `XCLAIM` |
| `ReadInstance`, `ReadPending`, `Fail` | `GetWorkflowTask` after the dequeue; a failed execution |
| `CompleteWorkflowTask` | `complete_workflow_task.lua`, with `Fenced` (`XADD` refuses ids that are not above the last one), `Read` and `AfterTrim` (`XTRIM MINID` up to the worker's `upto`), and the expiration or removal as separate actions |
| `DequeueActivity` ... `CompleteActivityTask` | `activity.go`, `complete_activity_task.lua` |

What the executor makes of a task is a choice (`Commands`, `Outcomes`): no command, an
activity, a timer, its cancellation, a sub-workflow, a continuation, the end.
Abstractions: queues are merged, and the order in which tasks are taken is left open;
`CompleteWorkflowTask` reads a sub-workflow's parent before the script, here in the
same step; a future event is identified by its execution and command.

### Tester

`ExecuteTask` is one iteration of a pass of `Execute` - the events of the first
workflow that has any, and what its commands do to the tester - and `EndPass`,
`RunCallback`, `PollNothing`, `fireTimer` and `Blocked` the rest of the loop. `pass`
holds the range of the pass, which a Go `range` evaluates once, and `gotNewEvents`.
`wallSet`, `armed` and `late` are `wallClockTimer`, the timer the wall clock has, and
callbacks of timers that fired whose goroutine has not sent yet. A callback of the wall
clock clears `wallClockTimer` whichever timer it was for (`tester.go:544`); if another
one was armed meanwhile the tester forgets it, and the wall clock fires it all the
same: these are in `forgotten`. Other goroutines:
`WallClockFires`, `WallClockSends`, `ActivitySignals`, `ActivityCompletes`,
`ActivityEnds`. Workflow code is a choice: a task cancels at most one timer,
schedules at most one, and issues at most one other command. `Blocked` is the panic of
`TestTimeout`, which is taken to be longer than activities and wall-clock timers take.

### Monoprocess

Calls commit in the wrapped backend (`ClientCall`, `CompleteWorkflowTask`,
`CompleteActivityTask`) and owe a notification (`owing`, `Notify`); pollers check
(`Fetch`, `Nothing`) and then wait (`Woken`, `GiveUp` after the poll's 30 seconds).
`alarms` are the `time.AfterFunc` of timers. The wrapped backend is a table of which
tasks are there and locked. `Drop`, `LockExpires` and `Restart` make tasks available
that nobody is notified of (`untold`).

### MC modules

`MCSqlBackend`, `MCTaskWorker`, `MCExecutor`, `MCCoroutines`, `MCRedisBackend`,
`MCTester` and `MCMonoprocess` instantiate the specifications for TLC: which handlers
belong to which worker name, the workflow code and environments (`Scenarios`) of
`Executor`, the menus of `Coroutines` and `Tester`, and the symmetry of
interchangeable handlers and workers, which is used only in runs without liveness
properties.

In all specifications the definitions announced as *Mutant of ...* are not used by
the specification. Each is the code's definition with a plausible mistake; put in
the place of the original it must break a property, which is how every property
here is known to say something about the code.

## 3. Runs

Passing runs:

| run | question | instance | states |
|---|---|---|---|
| `sqlite_tasks` | Does the backend implement the execution log - histories contiguous, closed executions closed, no event lost or repeated - when three handlers hold tasks of the same execution? | two handlers of one worker, one of another; two executions; signals, removal | 234 k |
| `sqlite_commands` | Has every activity and timer exactly one outcome? | two handlers of one worker; activities, timers and their cancellation; cancellation and purge of the instance | 613 k |
| `sqlite_subworkflows` | Has every sub-workflow exactly one result, and every instance one active execution? | two instances, three executions, with `RemoveContinuedAsNewInstances` | 830 k |
| `sqlite_progress` | Are events and activities of active executions handled, however many tasks are dropped? | one handler of each of two workers, so that stickiness matters | 38 k |
| `worker` | Slots, queue, heartbeats and shutdown | three pollers, two slots, two tasks, shutdown by cancellation | 152 k |
| `executor` | Can any worker take over at any time, by replay, and does the workflow end as written? | six scenarios, two workers | 43 k |
| `coroutines` | Do rounds end when all are blocked, are channels queues, does cancellation reach what it should? | three coroutines of up to four calls, five menus; a channel, a signal channel, four contexts, a timer, two groups | 219 k |
| `redis` | Is a task that several workers execute recorded once, and is nothing lost around it? | two workers, two executions of one id and one of another; signal, cancellation, removal, expiration; every command | 630 k |
| `tester` | Does a test see every event, once and at the right time? | two workflows with two commands each, two delays, two callbacks; one menu with activities, one that cancels timers | 425 k |
| `monoprocess` | Is a wake-up ever lost, and is what nobody signals found? | two instances, two workflow pollers and an activity poller, three events, one fault | 250 k |

Runs that show where the code departs from what its comments or tests say (each is
described under `findings` in `PROJECT.json`):

| run | what TLC shows |
|---|---|
| `postgres_stale_task` | Without a unique key on event ids, a stale task of the same worker name appends the same sequence ids again. PostgreSQL's check of `locked_until` does not prevent it, as the stale task's own heartbeat sets it again. MySQL lacks that check too. |
| `redis_removed` | Removing an execution that continued as new deletes the key that names its successor as the active execution; another execution of the same id can then be created beside it. |

Bounds and why they are enough. A stale completion takes two handlers of one worker
name and one of another to move `worker` away and back; a third handler adds the
case of two stale tasks at once. `MaxID` bounds the events ever created: 7 in
`sqlite_tasks` allows a start, signals before and after a task was handed out, a
continuation and its start; 9 in `sqlite_commands` an activity or a timer, its
result and a second command of either kind that overlaps it; 11 with three
executions in `sqlite_subworkflows` a child that continues as new or collides, its
cancellation and its result. One command per checkpoint (a bound in `CommandsOf`)
suffices for properties about single commands; two commands reach the history
through two checkpoints. Two tasks and three pollers over two slots make pollers
compete for a slot while all slots are owned by pollers, by tasks, or by both. The
scenarios of `executor` have up to nine operations: side effects and a sub-workflow
with a signal in between; two timers and an activity under cancellation; a
continuation as new with two signals; code that abandons a future; a history that
exceeds its limit; and one worker whose executors outlive its locks. Every
operation and every order of the events of a task
occurs, and a task can be dropped, repeated and taken over at every point. The
scenarios leave out what the code does not handle (section 6): a sub-workflow under
cancellation, a trace or side effect under cancellation, a limit reached by the
completing task, and two workers whose executors outlive locks.

In `coroutines` a channel needs a sender, a receiver and a third coroutine that
takes the value away from one of them; four calls allow each to open, use and close
what it uses twice, and the menu `Selects` lets coroutines wait in a `Select` for each
other. The signal channel holds 2 instead of 100, so that four signals
overflow it. Four contexts make a tree of depth three with a sibling. In `redis` two
workers are needed for a task to be claimed while it is executed; a third adds another
claim of the same kind. `MaxSteps = 1` gives each behaviour one signal, cancellation,
activity, timer or sub-workflow, so that the state space is that of each of them in
turn with takeover, continuation, removal and expiration; two at once are not explored
there. `redis_removed` has three executions of one id, and a single worker, without
steps. In `tester` two workflows are a parent and a child or a workflow and its continuation;
two commands let a timer be pending beside an activity or a second timer. The menus are
separate because `TimeTravelTimers` is about tests without activities. In
`monoprocess` two instances and two pollers of a queue are the least with which one
signal stands for two tasks; one fault is a dropped task or a restart.

The passing runs take every action, and every disjunct of the next-state relations.
`CHECK_DEADLOCK FALSE` is set wherever the system may stop: all workflows have ended,
a program has made its calls, a test is over, or a bound is reached. The `worker` run
checks for deadlock, with `Terminated` as the one state in which nothing is left to do.

## 4. Fairness

`SqlBackend!LiveSpec`: pollers poll forever, so getting a task is weakly fair; time
passes, so expirations and timers are; a handler does not keep a task forever, as
`handle` ends by completing or by an error (weak fairness of complete-or-drop).
Strong fairness of completing says that a task that is handed out again and again is
completed in the end by a worker that neither dies nor stalls past the timeout on
every attempt: without it a system that always crashes makes no progress. No
fairness is assumed of clients or heartbeats.

`TaskWorker!LiveSpec`: every goroutine that can take a step takes one - weak
fairness per poller, per handler, per heartbeat, and of the goroutine in
`WaitForCompletion` and the dispatcher. Workflow code and activities return, and so
do calls of the backend. That the context ends is not assumed: `ShutdownCompletes`
starts when it has.

`Executor!LiveSpec`: pollers, time, clients and results are weakly fair, and a
handler does not keep a task forever; not every attempt at a task fails, before its
execution or after. The second conjunct says the former without `ENABLED`, which
would execute the workflow code in every state; it is strong fairness of
`ExecuteTask` in the scenarios in which tasks are not rejected, and
`WorkflowCloses` speaks of those.

`Tester!LiveSpec`: the loop of `Execute` goes on (weak fairness), the wall clock fires and
its goroutine sends, and activities return and end - there are finitely many, so that
weak fairness of some activity's return means that all of them do. Nothing is assumed
of `Blocked`, the timeout.

`Monoprocess!LiveSpec`: every poller, every pending notification, every handler, lock
and timer is weakly fair; clients, drops and restarts are not. A poller that waits gives
up after its 30 seconds: that `GiveUp` is part of a poller's weakly fair steps is what
`TasksFetched` rests on, as its mutant shows.

`Coroutines` and `RedisBackend` state safety only.

## 5. Proofs

`SqlBackendProofs` proves, for all values of the constants allowed by
`ConstantsAssumption` (any set of handlers, workers and instances, any bounds):

- `TypeCorrect`: `Spec => []TypeOK`, for all three backends;
- `HistoryNumbered`: `Spec => []HistoryContiguous`;
- `StaleTasksCannotComplete`: `Spec => []StaleTasksFenced`;
- `ClosedStaysClosed`: `Spec => ClosedHistoryFrozen`;
- `ImplementsLog`: `Spec => LogSpec`, the SQL backend implements `ExecutionLog`.

`SqlBackendOutcomeProofs` extends it and proves what becomes of the single activity,
timer and sub-workflow,

- `ActivitiesAnsweredOnce`: `Spec => []ActivityOutcome`, for all three backends;
- `TimersFireOnce`: `Spec => []TimerOutcome`, for all three backends;
- `OneExecutionActive`: `Spec => []OneActiveExecution`;
- `SubWorkflowsReplyOnce`: `Spec => []SubWorkflowOutcome`.

`MonoprocessProofs` proves

- `WakeupsKept`: `Spec => []NoLostWakeup`,

and `RedisBackendProofs`, for all constants allowed by `RedisAssumption` and
`NoInstAssumption` (any workers, instances, executions and steps),

- `TypeCorrect`: `Spec => []TypeOK`;
- `HistoriesFenced`: `Spec => []HistoryFenced`;
- `EventsHaveTasks`: `Spec => []TasksMatchPending`.

`RedisBackendOnceProofs` extends it and proves, without further assumptions,

- `EventsKept`: `Spec => EventsMoveToHistory`;
- `ResultsArriveOnce`: `Spec => []ResultsOnce`.

`TaskWorkerProofs` proves, for any finite sets of pollers and tasks and any limit,

- `TypeCorrect`: `Spec => []TypeOK`;
- `ShutdownOrdered`: `Spec => []ShutdownInOrder`;
- `SlotsConserved`: `Spec => []SlotsOwned`, if `Cause = "canceled"`.

`CoroutinesProofs` proves, for any coroutines, channels and capacities, contexts, timers,
groups and bounds, and for any menus of well-formed calls (`CoroutinesAssumption`,
`CallsAssumption`), so for every program,

- `TypeCorrect`: `Spec => []TypeOK`;
- `CancellationReachesAll`: `Spec => []CancellationReaches`;
- `BlockedWaitEnds`: `Spec => BlockedWaitEndsAtZero`;
- `RoundsEndBlocked`: `Spec => []RoundEndsBlocked`;
- `ChannelsAreQueues`: `Spec => FifoSpec`, the channels implement `FifoChannels`, if no
  `Send` is called on a buffered channel (`SendsUnbuffered`, which the menus of the run
  satisfy; a `Select` may send there, and `SendNonblocking`).

`TesterProofs` proves, for any menus of commands, delays of timers and of callbacks, and
bounds (`TesterAssumption`, `NoTimerAssumption`),

- `NothingIsLeftBehind`: `Spec => []NothingLeftBehind`;
- `TimeTravelGoesForward`: `Spec => TimeGoesForward`, if the callbacks are scheduled in
  the order of their delays (`Ascending`);
- `ResultsAreConserved`: `Spec => []ResultsConserved`;
- `TimersFireOnce`: `Spec => []TimeTravelTimers`.

### The SQL backends

The theorems not marked "for all three backends" assume `UniqueEventIDs` and
`~EventsMayFail`. The run `postgres_stale_task` is a counterexample to the first of them
without `UniqueEventIDs`, and section 6 describes the one without `~EventsMayFail`; the
others rest on it.

`HistoryContiguous` is not inductive. A checkpoint continues the history only if the
task's `last` still is the last sequence id, and nothing in the row says so: the
worker check lets a stale task of the same name through. The inductive invariant is
`IInv == TypeOK /\ HistoryContiguous /\ StaleTasksFenced`. `StaleTasksFenced` says
that a task in flight is either *current* - execution active, its events all still
pending and visible, `last` equal to the last sequence id - or *fenced*: its
execution is gone or one of its events is in the history already, so that the
primary key rejects its batch. To be preserved by the completion of a current task
it needs its second half: any two unfenced tasks of an execution share an event.
They do: when a task is handed out its events are all the visible ones, and those of
another current task are among them. The completion of one thereby fences every other
task of the execution, also those whose snapshot holds the future event of a timer
it cancels, and no task's events leave the pending table in any other way.

`QuietStep` and `RemovalStep` cover the actions that leave histories and tasks alone
or remove an execution, `GetTaskNumbered` and `CompletionNumbered` the two that matter;
`CheckpointStep` is the core, what the writes of a checkpoint do to the tasks in flight.
`ClosedHistoryFrozen` follows from the same invariant: a task of a
closed execution is not current, hence fenced, hence cannot append.

`ImplementsLog` needs one conjunct more, `LInv == IInv /\ FreshIDs`: the ids of pending
events have been given out, so that what a checkpoint sends is not among what it
executes (`FreshIDs`). `InitLogged` maps the initial states. `StepLogged` maps the
steps: `ReceiveStep` and `RemoveStep` are the lemmas for a step that only adds to
inboxes, or that removes closed executions, and `ClientLogged` and `QuietLogged` apply
them to every action but one; `RecordStep` is about `CompleteWorkflowTask`. There a task
whose batch the primary key accepts is current by `StaleTasksFenced`, so that the batch
is in the inbox and not in the log, which is what `Record` asks; `CheckpointRows`,
`AppendedBatch` and `MessageIDs` say what the checkpoint writes.

The outcome theorems split the steps in two. All but two actions are *quiet*
(`StepCases`): they open or remove executions, lock rows and add clients' events, but
neither schedule nor answer anything. Of the other two, `CompleteActivityTask` is simple,
and what the completion of a workflow task writes is stated once, per table, for any
choice of the executed events and of the command (`Completes`, `CompletionRows`,
`CompletionTables`, `SentEvents`). All four need that ids are new when
they are given out (`IDs`): what events, rows and histories refer to is below `nextID`.
Results carry the id of the event that scheduled them, which is what connects them.

- `ActivityOutcome` becomes `OneResult`: an activity has a row and no result, or no row
  and exactly one. The row goes in the step that delivers the result, so that a second
  worker finds none. A stale task could record a result that is no longer pending, or
  was never delivered: it cannot, since the events a task holds were pending when it was
  handed out and are pending or recorded since (`ResultsDelivered`). The argument holds
  where histories repeat events, and so for all three backends.
- `TimerOutcome` becomes `TimersPend`: the future event is there exactly if the timer
  has neither fired nor been canceled. A firing is recorded by the step that takes the
  same event from the pending ones, because a timer has one future event, whose id is
  that of the timer plus one: no other event of the same timer can stay behind, however
  stale the task.
- `OneActiveExecution` becomes `Exclusive`. New executions are checked against the active
  ones; what could break it is the completion of a stale task that reopens an execution
  which has continued as new. `IInv` excludes it (`CurrentCompletes`), and with it the
  two assumptions come in.
- `SubWorkflowOutcome` becomes `OneReply`: one active child and no reply, or no child and
  one reply. A child that continues as new must be replaced in the same transaction;
  that the insertion of the new execution cannot collide with an active one is
  `Exclusive` (`ContinuationStarts`). A new child that does collide is answered by
  `SubWorkflowFailed` at once, and a finished one replies as it closes, once, since a
  completion that is accepted is of an active execution.

### The monoprocess backend

`WakeupsKept` assumes `OneQueue`: each kind of task has a poller, and every poller asks
for the queues of all instances. Without it a poller may take the signal of a task it
does not ask for (section 6). `NoLostWakeup` is not inductive: a completed activity makes
a workflow task, a timer that fires another, and the proof has to know that somebody will
notify for each. `IInv` adds to the types that a pending timer that no restart
has made forgotten has an alarm (`TimersAlarmed`), that a held activity is not in the table
a second time (`HeldOnce`), and states the wake-up per kind (`WakeupPending`): a signal,
a notification owed, an alarm, or a poller that does not wait. `PollersKeep`, `CallsKeep`
and `FaultsKeep` are its steps.

### The Redis backend

`HistoryFenced` says that the sequence id an instance records is the length of its
history and that the history is numbered from 1. A worker writes from the sequence id it
has read, which may be long ago. The invariant `FenceInv` adds `Behind` - what a worker
has read is not newer than the instance, and an instance that is gone does not come back
under the same execution id - and `Blank` - no instance, no history. Then `XADD` leaves one
possibility: ids below the last one are refused (`Fenced`), and ids above the next one
are impossible by `Behind`, so that a completion writes exactly the next ones
(`FenceComplete`). No lock and no owner takes part in the argument.

`TasksMatchPending` is inductive with the types. `AddTasksMatch` is about the script that
adds to the set and then to the stream; `MatchWrite`, `MatchClaim` and `MatchKept` are
about the three kinds of steps around it. In `MatchComplete` the uniqueness of an
execution's entry makes the removal from the stream and from the set agree, also when the
entry was claimed by others meanwhile.

`EventsMoveToHistory` needs what the worker knows about the stream it trims. The script
has no check of its own: it appends the events the worker passes and trims up to the id
the worker passes, and these are from the same read. `HistoryFenced` tells that a
completion with events is accepted only if the worker's `last` is still the instance's
(`FencedIsLast`). The invariant `SnapInv` says what follows from that: its state is
the instance's (`Abreast`), and unless the instance has finished, its events are the
first of the stream and `upto` is the id of the last of them (`Snapshots`); other steps
only append. The case without events is the discarding of a finished instance's, which
`Abreast` shows to be finished still. `SnapComplete` is the step that matters: a
completion makes the workers that are abreast stale, because it executes at least one
event and moves the last sequence id. It is what fails if a task could be completed
without events. `CompletionMoves` and `EventsStep` then give the action property.

`ResultsOnce` counts occurrences; its invariant `OnceInv` speaks of places. `At(x, kind,
n, l)` says that the result or timer number `n` of `x` is at place `l`: a positive place
in the pending stream, a negative one in the history, 0 for a task still queued or a
future event not yet due. `OnePlace` says that there is at most one such place, and none
for a number that has not been given out. A completion shifts places (`Was`,
`AtCompleted`), from the front of the stream to the end of the history, which is one to
one (`WasDifferent`) by `CompletesCurrent`; the activity's completion takes place 0
away when it appends the result (`OnceResult`), and the script for future events
likewise (`OnceFuture`). `OneOccurrence` turns places back into cardinalities.

### The task worker

`ShutdownInOrder` is inductive once it says which goroutine waits for which (`InOrder`):
the channel is closed when all pollers are done, the dispatcher is done when the channel
is closed and its WaitGroup is zero, and `WaitForCompletion` returns after it.

`SlotsOwned` equates a counter with the number of owners. The types need `Handover`: the
task a poller is about to send is fetched, by it and by no other poller, so that sending
it passes the slot on exactly once. Then `PollerBalanced` and `HandlerBalanced` go through
the lines that touch slots, each of which moves one goroutine in or out of the owners
(`OneMoves`). The hypothesis is `Cause = "canceled"`: the error of a
deadline in `reserve` does not end the poller, which goes on to poll without a slot and
then releases one (`worker.go:147`), and the property is false (section 6). It is stated of the
cause alone; the two other theorems hold for both.

### Coroutines

The types need to know what a suspended coroutine is in (`PendingCalls`: one of the calls
that block) and where early signals are (`SignalsKept`: with the channel once it
is opened, before that in no greater number than it holds, so that moving them does not
exceed its capacity). `Typed` is `TypeOK` with both.

`CancellationReaches` is not inductive: it does not say how a cancellation finds what is
below. `Reaching` does. A live context is among the children of its live parent
(`Tree`), a pending timer is registered with a live context (`Registered`), and each timer
once in each list (`RegisteredOnce`), so that `TimerFired`, which removes the first entry,
leaves none. A cancellation closes the least set with the context and the live children
of its members (`BelowClosed`), which by `Tree` leaves no live context under a canceled
one (`CancelsReaching`); what is derived from a canceled context is canceled at
birth (`WithCancelReaching`, `ScheduleTimerReaching`).

`BlockedWaitEndsAtZero` follows from two facts about a coroutine in `Wait` (`Waited`):
nobody but the group wakes it, and once the group's future is set the count
stays at zero. The second is that `Add`, `Done` and `Go` panic on a group that somebody
waits for; at the end of a function of an error group (`FinishGroups`), where nothing
panics, the count is that of its live coroutines, the ending one included (`Counted`,
`Listed`), so that it was not zero. The first depends on who is in the lists of callbacks. A
coroutine in a list of receivers is in that `Receive` and has no answer (`Awaiting`), a
value in a list of senders is that of the pending `Send` of its coroutine or of a call that
is over (`Offered`), and a channel with receivers has nothing to receive (`ReceiversFirst`):
otherwise the call of a coroutine could end and its callback fire later, into a `Wait`.
`Linked` and `Grouped` collect these; they hold until a panic or `Exit` (`Orderly`), after
which nothing runs. There is one lemma per call (`SendLinked`, ..., `FinishLinked`),
composed of what the call does to the lists (`HandOverLists`, `ValuesLists`,
`CancelsLists`, ...) and of what returning or yielding does to the coroutines
(`ReturnsLinks`, `YieldsLinks`, `WakesLinks`).

`RoundEndsBlocked` compares the end of a round with the turns that led to it. The
invariant is `Rounds`. Who yielded in `Send` or `Receive` is in the list of its channel or
was answered (`Enlisted`), so that what could enable it finds it there; pending calls
look only at timers that exist (`TimersMade`), as a timer that came into being
could otherwise enable a `Get`; and as long as no turn of the round marked progress or
enabled another coroutine, those whose turn is over are stuck (`RoundStuck`). A call that
returns without marking progress or enabling anybody leaves the data alone, or changes
nothing that a stuck coroutine looks at (`Calm`, `Stay`, `HaltedStays`); one that
blocks is in a list, which matters only to a `Select` for the other side
(`SelectWaits`, `YieldingCalmly`). There is again one lemma per call (`SendRounds`, ...,
`FinishRounds`).

`ChannelsAreQueues` sorts what steps do to the channels into five kinds (`Exchanges`): they
leave all values where they are and perhaps close channels (`Keeps`), put one value in
(`Accepts`), take one out (`Gives`), open the channel of a signal, which brings in
the signals that came early, in reverse (`Opens`), or store such a signal (`Stores`). Each
is a step of `FifoChannels` or a stutter (`KeepsFifo`, `AcceptsFifo`, ...), for
which one needs that a value that goes in was never there before. The invariant `Values`
says so: what was delivered, is buffered or waits is without repetition and comes from
calls that are over, or is the value of a `Send` that is pending (`SentOnce`); early
signals are of the past as well (`Early`); nobody waits behind a buffer
(`NoneBehind`), where `SendsUnbuffered` comes in. A pending `Send` that is run again adds
nothing (`SendExchanges`): by `Enlisted` its value is among the senders, by
`ReceiversFirst` nobody receives then, and its channel has no buffer. Calls
are used up (`Wears`), which keeps all of it true of the values that are there.

### The tester

`SInv` is types and references: what is in timers, callbacks and running activities
belongs to workflows that exist (`Known`). Each theorem adds its own part.

- `NothingLeftBehind`: a workflow with pending events is still ahead in the pass, or
  the pass has got new events and another follows (`Seen`); and `wallClockTimer` is
  set exactly as long as the wall clock has a timer armed, late, or in the callbacks, so
  that a test that waits with timers is woken (`Wall`).
- `TimeGoesForward`: the timers are sorted and none is before the clock (`Ahead`).
  `scheduleTimer` inserts in order (`Scheduled`), but `ScheduleCallback` appends, which
  is why `Ascending` is assumed; section 6 has the counterexample without it.
- `ResultsConserved` and `TimeTravelTimers` count, per id, the occurrences in the pending
  events of a workflow and everything elsewhere that will become one (`Balanced`): a
  running activity that has not sent, a callback, a scheduled timer. The sum is one if the
  workflow waits for the id and zero otherwise. Executing a task takes the first
  pending event away, with what it was waiting for (`LeftDue`, `TaskBalanced`); a callback
  moves one from the channel to the workflow (`DeliveryBalanced`). For timers this holds
  in tests without activities (`Travel`): then there is no wall clock (`Quiet`), whose
  callbacks remove timers that are not theirs.

### Only model-checked

Liveness (fairness and `ENABLED` are out of the prover's reach) and everything about
`Executor`: what its `Replay` computes for every history would take induction over data,
which the prover cannot do either. `FifoSpec` without `SendsUnbuffered` is no theorem: it
is false of programs with a `Send` that blocks on a full buffered channel (section 6).

## 6. Known departures without a run

The models also show the following, each of which a scenario, constant or menu of the
passing runs leaves out; the hazards name them.

- *A stale task that fails on its first event* (`executor.go:295`) records none of the
  events whose ids the history has, so that SQLite's primary key does not stop it and
  its batch gets numbers that are taken. `SqlBackend` with `EventsMayFail = TRUE`.
- *The activity of a removed instance* stays first in the table and makes every
  `GetActivityTask` of SQLite fail (`sqlite.go:822`); other activities wait behind it.
  `SqlBackend` with a removal among the commands of `sqlite_progress`.
- *A deadline instead of a cancellation*: with a task limit a poller then releases a
  slot it never reserved, blocks, and `WaitForCompletion` hangs (`worker.go:147`).
  `TaskWorker` with `Cause = "deadline"`.
- *An activity whose heartbeat failed* is completed all the same, its cancellation
  being taken for its result (`activity.go:76`). `ReportsErrors = FALSE`.
- *A cancellation and the result of a sub-workflow in one task* take its command from
  CancelPending to Done, which panics, on every attempt (`cancelablecommand.go:46`).
- *A spawned workflow* leaves nothing in its caller's history, so the next worker that
  replays the caller starts it again (`spawn_workflow.go:59`).
- *A cancellation under a trace or side effect* reaches the replaying code before it has
  scheduled what the history records, and the replay fails (`tracer.go:78`).
- *A signal during a continuation* stays with the closed execution (`sqlite.go:732`), and
  *the cancellation of a sub-workflow* does not reach its continuation
  (`schedule_subworkflow.go:108`).
- *A Send that blocked on a full buffered channel* and then finds room leaves its
  callback behind: the value is delivered twice, and `Close` panics (`channel.go:98`).
- *A round may end with a coroutine able to run* although the comment of `Execute` says
  "executes all coroutines until they are all blocked" (`scheduler.go:20`).
  `SendNonblocking`, `Close`, `Done` and cancellation enable others without marking
  progress, and in the last turn of a round nothing else does (`scheduler.go:45`). So does
  a `Send` that blocks on a channel for which another coroutine has already yielded in a
  `Select` (`channel.go:101`, `selector.go:49`): blocking is no progress, a `Select` is
  registered nowhere, and if no event comes from elsewhere both wait for ever. Main
  starts `a` and selects a receive from `u`, `a` sends to `u`: that is the whole program.
  A `Receive` after a `Select` that sends is alike. `RoundEndsBlocked` excepts these
  turns (`silent`, `SelectWaits`); without `silent` TLC finds them in the menu `Selects`.
- *The future of a wait group or error group* stays set once the count was zero
  (`waitgroup.go:44`, `errgroup.go:80`): when it has risen again a `Wait` returns at once.
  `BlockedWaitEndsAtZero` is about a `Wait` that blocked.
- *On Redis*, a task without pending events (completed by another worker between
  two reads) panics the worker (`workflow.go:86`); the task of an instance that is
  gone is recovered forever (`workflow.go:39`); and a signal to an execution that has
  continued as new lets it run into its end again, by which it can start another
  continuation (`Outcomes`).
- *In the tester*, `cancelTimer` stops a field that is never set (`tester.go:789`), so the
  wall clock fires canceled timers and removes another one in its place, or panics when
  there is none; callbacks scheduled in descending order make time travel go back.
- *Monoprocess pollers of different queues* share a channel and take each other's
  signals; the timeout of their polls alone corrects it (`monoprocess.go:56`).

## 7. Not modelled

- Statement-level interleaving of MySQL and PostgreSQL transactions, in particular
  `createInstance`, which looks for an active execution and then inserts
  (`mysql.go:434`).
- The composition of `Executor` with a backend: its `Checkpoint` has the guard that
  `StaleTasksFenced` justifies, instead of the tables.
- The client's polling for the end of an instance, the workflow that removes expired
  instances periodically, `WithRetries` (a loop of activities and timers in workflow
  code), the activity executor (one call by reflection), the activity tester, and in
  `Tester` the cancellation of sub-workflows.
- Queues, tracing, metrics, logging, converters, registry, the diagnostics and web
  UI, the analyzer, samples and benchmarks: no state the properties depend
  on, or not part of the running system.

## 8. What could come next

1. `createInstance` at statement level for MySQL and PostgreSQL.
2. Type correctness of `Executor` as a theorem, with its folds over events as recursive
   functions.
3. `RedisBackend` as an implementation of `ExecutionLog`, for executions that are not
   re-executed after they were closed.
