----------------------------- MODULE TaskWorker -----------------------------
(***************************************************************************)
(* A worker (internal/worker): pollers that reserve a slot, fetch a task   *)
(* and hand it to the dispatcher over an unbuffered channel; one goroutine *)
(* per task that executes and completes it while another one heartbeats    *)
(* its lock; and the shutdown that WaitForCompletion waits for.            *)
(*                                                                         *)
(* Tasks stand for deliveries by the backend.  Polling intervals and their *)
(* backoff are time, and left out.                                         *)
(***************************************************************************)
EXTENDS Integers, FiniteSets

CONSTANTS
    Pollers,           \* poller goroutines (options.Pollers of them)
    Tasks,             \* bound: deliveries of tasks
    MaxParallelTasks,  \* capacity of the slots channel, 0: unlimited
    Cause,             \* how the root context ends: "canceled" or "deadline"
    ReportsErrors,     \* Execute returns the error of a canceled execution
    NoTask

ASSUME WorkerAssumption ==
    /\ MaxParallelTasks \in Nat
    /\ Cause \in {"canceled", "deadline"}
    /\ ReportsErrors \in BOOLEAN
    /\ IsFiniteSet(Pollers) /\ IsFiniteSet(Tasks) /\ NoTask \notin Tasks

VARIABLES
    ctx,         \* "live" until the root context is done, then Cause
    poller,      \* where each poller is
    got,         \* the task each poller has fetched
    slots,       \* length of the slots channel
    task,        \* the life of each task
    canceled,    \* tasks whose context is canceled
    beat,        \* the heartbeat goroutine of each task
    closed,      \* the tasks channel is closed
    dispatcher,  \* "receiving", "done"
    waiting      \* WaitForCompletion has not returned

vars == <<ctx, poller, got, slots, task, canceled, beat, closed,
          dispatcher, waiting>>

pollers == <<poller, got>>
handlers == <<task, canceled, beat>>
shutdown == <<closed, dispatcher, waiting>>

PollerStates == {"jitter", "top", "reserve", "poll", "getting", "add",
                 "release", "releaseTop", "wait", "done"}

\* "handled": handle returned and wg.Done() ran; "finished": slot released too.
TaskStates == {"backend", "fetched", "dropped", "executing", "executed",
               "completed", "failed", "handled", "finished"}

TypeOK ==
    /\ ctx \in {"live", Cause}
    /\ poller \in [Pollers -> PollerStates]
    /\ got \in [Pollers -> Tasks \cup {NoTask}]
    /\ slots \in Nat
    /\ MaxParallelTasks > 0 => slots <= MaxParallelTasks
    /\ task \in [Tasks -> TaskStates]
    /\ canceled \subseteq Tasks
    /\ beat \in [Tasks -> {"off", "ticking", "extending", "stopped"}]
    /\ closed \in BOOLEAN
    /\ dispatcher \in {"receiving", "done"}
    /\ waiting \in BOOLEAN

Init ==
    /\ ctx = "live"
    /\ poller = [p \in Pollers |-> "jitter"]
    /\ got = [p \in Pollers |-> NoTask]
    /\ slots = 0
    /\ task = [t \in Tasks |-> "backend"]
    /\ canceled = {}
    /\ beat = [t \in Tasks |-> "off"]
    /\ closed = FALSE
    /\ dispatcher = "receiving"
    /\ waiting = TRUE
-----------------------------------------------------------------------------
(* The work queue.                                                         *)

Unlimited == MaxParallelTasks = 0

\* Mutant of TakesSlot: the channel's capacity is ignored.
TakesSlotUnbounded == IF Unlimited THEN UNCHANGED slots ELSE slots' = slots + 1

\* slots <- struct{}{}
TakesSlot == IF Unlimited THEN UNCHANGED slots
             ELSE slots < MaxParallelTasks /\ slots' = slots + 1

\* <-slots, which blocks when there is none.
FreesSlot == IF Unlimited THEN UNCHANGED slots
             ELSE slots > 0 /\ slots' = slots - 1
-----------------------------------------------------------------------------
(* Pollers.                                                                *)

Goto(p, s) == poller' = [poller EXCEPT ![p] = s]

\* The initial jitter, which staggers the pollers.
Jitter(p) ==
    /\ poller[p] = "jitter"
    /\ Goto(p, "top") \/ (ctx # "live" /\ Goto(p, "done"))
    /\ UNCHANGED <<ctx, got, slots, handlers, shutdown>>

\* The interval between two polls.
Sleep(p) ==
    /\ poller[p] = "wait"
    /\ Goto(p, "top") \/ (ctx # "live" /\ Goto(p, "done"))
    /\ UNCHANGED <<ctx, got, slots, handlers, shutdown>>

LoopTop(p) ==
    /\ poller[p] = "top"
    /\ Goto(p, IF ctx = "live" THEN "reserve" ELSE "done")
    /\ UNCHANGED <<ctx, got, slots, handlers, shutdown>>

\* Mutant of Reserve: it waits for a slot only.
ReserveBlocking(p) ==
    /\ poller[p] = "reserve"
    /\ TakesSlot /\ Goto(p, "poll")
    /\ UNCHANGED <<ctx, got, handlers, shutdown>>

\* reserve, whose select may choose either case when both are ready.  Only
\* context.Canceled ends the poller; after another error it polls, without
\* a slot.
Reserve(p) ==
    /\ poller[p] = "reserve"
    /\ \/ TakesSlot /\ Goto(p, "poll")
       \/ /\ ~Unlimited /\ ctx # "live"
          /\ Goto(p, IF ctx = "canceled" THEN "done" ELSE "poll")
          /\ UNCHANGED slots
    /\ UNCHANGED <<ctx, got, handlers, shutdown>>

\* What the poller does when Get fails because the context is done: poll
\* hides context.DeadlineExceeded.
AfterContextError == IF ctx = "canceled" THEN "wait" ELSE "release"

\* Get begins a transaction, which fails when the context is done.
BeginGet(p) ==
    /\ poller[p] = "poll"
    /\ Goto(p, IF ctx = "live" THEN "getting" ELSE AfterContextError)
    /\ UNCHANGED <<ctx, got, slots, handlers, shutdown>>

Get(p) ==
    /\ poller[p] = "getting"
    /\ \E t \in Tasks :
        /\ task[t] = "backend"
        /\ task' = [task EXCEPT ![t] = "fetched"]
        /\ got' = [got EXCEPT ![p] = t]
    /\ Goto(p, "add")
    /\ UNCHANGED <<ctx, slots, canceled, beat, shutdown>>

\* Mutant of GetNothing: the unused slot is not released.
GetNothingKeepsSlot(p) ==
    /\ poller[p] = "getting"
    /\ Goto(p, "wait")
    /\ UNCHANGED <<ctx, got, slots, handlers, shutdown>>

\* No task, the timeout of poll, an error, or the end of the context.
GetNothing(p) ==
    /\ poller[p] = "getting"
    /\ Goto(p, "release") \/ (ctx # "live" /\ Goto(p, AfterContextError))
    /\ UNCHANGED <<ctx, got, slots, handlers, shutdown>>

\* The dispatcher receives the task and starts its goroutine, which starts
\* the heartbeat.
Add(p) ==
    /\ poller[p] = "add"
    /\ dispatcher = "receiving" /\ ~closed
    /\ task' = [task EXCEPT ![got[p]] = "executing"]
    /\ beat' = [beat EXCEPT ![got[p]] = "ticking"]
    /\ got' = [got EXCEPT ![p] = NoTask]
    /\ Goto(p, "top")
    /\ UNCHANGED <<ctx, slots, canceled, shutdown>>

\* The context ends first.  The task stays locked in the backend.
AddFails(p) ==
    /\ poller[p] = "add"
    /\ ctx # "live"
    /\ task' = [task EXCEPT ![got[p]] = "dropped"]
    /\ got' = [got EXCEPT ![p] = NoTask]
    /\ Goto(p, IF ctx = "canceled" THEN "top" ELSE "releaseTop")
    /\ UNCHANGED <<ctx, slots, canceled, beat, shutdown>>

Release(p) ==
    /\ poller[p] \in {"release", "releaseTop"}
    /\ FreesSlot
    /\ Goto(p, IF poller[p] = "release" THEN "wait" ELSE "top")
    /\ UNCHANGED <<ctx, got, handlers, shutdown>>
-----------------------------------------------------------------------------
(* The goroutine that handles a task.                                      *)

\* Execute ran to its end, or returned an error, maybe because its context was
\* canceled.  The activity worker turns the error into a result.
Execute(t) ==
    /\ task[t] = "executing"
    /\ \/ task' = [task EXCEPT ![t] = "executed"]
       \/ ReportsErrors /\ task' = [task EXCEPT ![t] = "failed"]
    /\ UNCHANGED <<ctx, pollers, slots, canceled, beat, shutdown>>

\* Not under the task's context: the heartbeat goes on meanwhile.
Complete(t) ==
    /\ task[t] = "executed"
    /\ task' = [task EXCEPT ![t] = "completed"]
    /\ UNCHANGED <<ctx, pollers, slots, canceled, beat, shutdown>>

\* Mutant of Return: the context is not canceled.
ReturnKeepsContext(t) ==
    /\ task[t] \in {"completed", "failed"}
    /\ task' = [task EXCEPT ![t] = "handled"]
    /\ UNCHANGED <<ctx, pollers, slots, canceled, beat, shutdown>>

\* handle returns (defer cancelTask()), then wg.Done().
Return(t) ==
    /\ task[t] \in {"completed", "failed"}
    /\ task' = [task EXCEPT ![t] = "handled"]
    /\ canceled' = canceled \cup {t}
    /\ UNCHANGED <<ctx, pollers, slots, beat, shutdown>>

Finish(t) ==
    /\ task[t] = "handled"
    /\ FreesSlot
    /\ task' = [task EXCEPT ![t] = "finished"]
    /\ UNCHANGED <<ctx, pollers, canceled, beat, shutdown>>

\* The ticker and ctx.Done() may both be ready.
Tick(t) ==
    /\ beat[t] = "ticking"
    /\ \/ beat' = [beat EXCEPT ![t] = "extending"]
       \/ t \in canceled /\ beat' = [beat EXCEPT ![t] = "stopped"]
    /\ UNCHANGED <<ctx, pollers, slots, task, canceled, shutdown>>

\* Extend fails when its context is canceled, and may fail otherwise.
Extend(t) ==
    /\ beat[t] = "extending"
    /\ \/ /\ t \notin canceled
          /\ beat' = [beat EXCEPT ![t] = "ticking"]
          /\ UNCHANGED canceled
       \/ /\ beat' = [beat EXCEPT ![t] = "stopped"]
          /\ canceled' = canceled \cup {t}
    /\ UNCHANGED <<ctx, pollers, slots, task, shutdown>>
-----------------------------------------------------------------------------
(* Shutdown.                                                               *)

ContextDone ==
    /\ ctx = "live"
    /\ ctx' = Cause
    /\ UNCHANGED <<pollers, slots, handlers, shutdown>>

\* Mutant of CloseQueue: the pollers are not waited for.
CloseQueueEarly ==
    /\ ~closed /\ ctx # "live"
    /\ closed' = TRUE
    /\ UNCHANGED <<ctx, pollers, slots, handlers, dispatcher, waiting>>

\* pollersWg.Wait(); close(tasks)
CloseQueue ==
    /\ ~closed
    /\ \A p \in Pollers : poller[p] = "done"
    /\ closed' = TRUE
    /\ UNCHANGED <<ctx, pollers, slots, handlers, dispatcher, waiting>>

\* Handlers the dispatcher's WaitGroup counts.
Counted == {t \in Tasks : task[t] \in {"executing", "executed", "completed", "failed"}}

DispatcherDone ==
    /\ dispatcher = "receiving" /\ closed
    /\ Counted = {}
    /\ dispatcher' = "done"
    /\ UNCHANGED <<ctx, pollers, slots, handlers, closed, waiting>>

WaitForCompletion ==
    /\ waiting /\ closed /\ dispatcher = "done"
    /\ waiting' = FALSE
    /\ UNCHANGED <<ctx, pollers, slots, handlers, closed, dispatcher>>
-----------------------------------------------------------------------------
PollerStep(p) ==
    \/ Jitter(p) \/ Sleep(p) \/ LoopTop(p) \/ Reserve(p) \/ BeginGet(p) \/ Get(p)
    \/ GetNothing(p) \/ Add(p) \/ AddFails(p) \/ Release(p)

HandlerStep(t) == Execute(t) \/ Complete(t) \/ Return(t) \/ Finish(t)

HeartbeatStep(t) == Tick(t) \/ Extend(t)

Stop == CloseQueue \/ DispatcherDone \/ WaitForCompletion

\* Nothing is left to run once the shutdown is over.
Terminated ==
    /\ ~waiting
    /\ \A t \in Tasks : task[t] \in {"backend", "dropped", "finished"}
    /\ \A t \in Tasks : beat[t] \in {"off", "stopped"}
    /\ UNCHANGED vars

Next ==
    \/ \E p \in Pollers : PollerStep(p)
    \/ \E t \in Tasks : HandlerStep(t) \/ HeartbeatStep(t)
    \/ ContextDone \/ Stop
    \/ Terminated

Spec == Init /\ [][Next]_vars

(* Goroutines are scheduled, activities and workflow code return, calls of *)
(* the backend return.  The context need not end.                          *)
Fairness ==
    /\ \A p \in Pollers : WF_vars(PollerStep(p))
    /\ \A t \in Tasks : WF_vars(HandlerStep(t)) /\ WF_vars(HeartbeatStep(t))
    /\ WF_vars(Stop)

LiveSpec == Spec /\ Fairness
-----------------------------------------------------------------------------
(* Properties.                                                             *)

\* Pollers that own a slot, and tasks that do.
Reserved == {p \in Pollers : poller[p] \in {"poll", "getting", "add", "release", "releaseTop"}}
Occupying == Counted \cup {t \in Tasks : task[t] = "handled"}

(* While the context is live every slot is owned by exactly one poller     *)
(* between reserve and release, or by one task: no path of the poller      *)
(* loses a slot or returns another's.  When the context has been canceled  *)
(* slots may be lost, never returned twice: MaxParallelTasks holds.        *)
SlotsOwned ==
    ~Unlimited =>
        LET owners == Cardinality(Reserved) + Cardinality(Occupying)
        IN  owners <= slots /\ (ctx = "live" => slots = owners)

(* WaitForCompletion closes the tasks channel when no poller may send on   *)
(* it any more, which would panic (add), and returns after the goroutines  *)
(* of all tasks that were dispatched have completed or failed them.        *)
ShutdownInOrder ==
    /\ closed => \A p \in Pollers : poller[p] # "add"
    /\ ~waiting => Counted = {}

(* When the context has ended, WaitForCompletion returns, whatever pollers *)
(* and handlers were doing.                                                *)
ShutdownCompletes == ctx # "live" ~> ~waiting

(* A fetched task is handled to the end and gives its slot back, or is     *)
(* dropped at shutdown; its heartbeat ends with it: the lock of a task     *)
(* that failed is not kept alive (handle's cancelTask, heartbeatTask).     *)
TasksSettle ==
    \A t \in Tasks :
        /\ task[t] = "fetched" ~> task[t] \in {"finished", "dropped"}
        /\ task[t] \in {"handled", "finished"} ~> beat[t] = "stopped"
=============================================================================
