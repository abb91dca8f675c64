----------------------------- MODULE SqlBackend -----------------------------
(***************************************************************************)
(* The SQL task backend (backend/sqlite; backend/mysql and                 *)
(* backend/postgres differ in the constants below): the instances,         *)
(* pending_events, history and activities tables, the client operations    *)
(* that write them, and the worker goroutines that lock a task, work on    *)
(* it and checkpoint it.  Every backend call is one transaction, hence     *)
(* one action.  What happens between two calls of the same goroutine -     *)
(* other workers, lock timeouts, signals, removals - is interleaving.      *)
(*                                                                         *)
(* The workflow executor is a nondeterministic choice of what a task may   *)
(* return to CompleteWorkflowTask.                                         *)
(***************************************************************************)
EXTENDS Integers, Sequences, FiniteSets

CONSTANTS
    Handlers,        \* goroutines handling one task at a time
    Workers,         \* worker names (options.WorkerName or a UUID)
    WorkerOf,        \* the worker name a handler's backend writes
    Instances,       \* workflow instance ids
    MaxExecutions,   \* bound: executions that are ever created
    MaxID,           \* bound: event ids handed out
    Commands,        \* bound: kinds of command the workflows use
    ClientOps,       \* bound: what clients do besides creating instances
    UniqueEventIDs,  \* history has PRIMARY KEY(id, instance_id) (sqlite only)
    LockChecked,     \* completion requires locked_until IS NOT NULL (postgres only)
    EventsMayFail,   \* executing an event may return an error
    RemoveContinuedAsNewInstances,  \* the option of that name
    NoWorker, NoTask

CommandKinds == {"none", "activity", "timer", "cancelTimer",
                 "subWorkflow", "cancelSubWorkflow"}

ClientOpKinds == {"signal", "cancel", "remove", "purge"}

ASSUME ConstantsAssumption ==
    /\ WorkerOf \in [Handlers -> Workers]
    /\ NoWorker \notin Workers
    /\ Instances # {}
    /\ Commands \subseteq CommandKinds /\ ClientOps \subseteq ClientOpKinds
    /\ MaxExecutions \in Nat /\ MaxID \in Nat
    /\ {UniqueEventIDs, LockChecked, EventsMayFail,
        RemoveContinuedAsNewInstances} \subseteq BOOLEAN

Executions == 1 .. MaxExecutions     \* execution ids, in order of creation

VARIABLES
    inst,        \* instances table, by execution id
    pending,     \* pending_events, by execution id
    hist,        \* history, by execution id: one batch per checkpoint
    activities,  \* activities table
    wtask,       \* the workflow task each handler holds
    atask,       \* the activity task each handler holds
    due,         \* ids of timer events whose visible_at has passed
    nextID       \* next unused event id

vars == <<inst, pending, hist, activities, wtask, atask, due, nextID>>

-----------------------------------------------------------------------------
(* Data.  of is the schedule_event_id: the id of the scheduling command.   *)

EventKinds ==
    {"WorkflowExecutionStarted", "WorkflowExecutionCanceled", "SignalReceived",
     "ActivityScheduled", "ActivityCompleted",
     "TimerScheduled", "TimerFired", "TimerCanceled",
     "SubWorkflowScheduled", "SubWorkflowCancellationRequested",
     "SubWorkflowCompleted", "SubWorkflowFailed"}

Event == [id : Nat, kind : EventKinds, of : Nat]

FiniteSubsets == {S \in SUBSET Event : IsFiniteSet(S)}

Ev(id, kind, of) == [id |-> id, kind |-> kind, of |-> of]

\* The others stand for the absence of a row: never created, removed with its
\* history and attributes, or purged, leaving those behind.
RowStates == {"Active", "ContinuedAsNew", "Finished"}
States    == RowStates \cup {"unused", "removed", "purged"}

Row == [inst   : Instances,
        state  : States,
        lock   : {"null", "held", "expired"},  \* locked_until
        sticky : BOOLEAN,                      \* sticky_until in the future
        worker : Workers \cup {NoWorker},
        parent : Executions \cup {0},          \* parent_execution_id, 0: none
        of     : Nat]                          \* parent_schedule_event_id

(* A checkpoint's rows in the history table: the sequence ids after+1 ..   *)
(* upto, the task's events it executed and the events its commands emitted *)
Batch == [after : Nat, upto : Nat, executed : FiniteSubsets, emitted : FiniteSubsets]

WorkflowTask == [exec : Executions, new : FiniteSubsets, last : Nat]
ActivityRow  == [ev : Event, exec : Executions,
                 lock : {"null", "held", "expired"}, worker : Workers \cup {NoWorker}]
ActivityTask == [ev : Event, exec : Executions]

TypeOK ==
    /\ inst \in [Executions -> Row]
    /\ pending \in [Executions -> FiniteSubsets]
    /\ hist \in [Executions -> Seq(Batch)]
    /\ activities \subseteq ActivityRow
    /\ wtask \in [Handlers -> WorkflowTask \cup {NoTask}]
    /\ atask \in [Handlers -> ActivityTask \cup {NoTask}]
    /\ due \subseteq Nat
    /\ nextID \in Nat
-----------------------------------------------------------------------------
(* Queries.                                                                *)

Exists(x) == inst[x].state \in RowStates

IsActive(x) == inst[x].state = "Active"

ActiveExecutions(i) == {x \in Executions : IsActive(x) /\ inst[x].inst = i}

\* getPendingEvents: the events whose visible_at is NULL or has passed.
Visible(x) == {e \in pending[x] : e.kind = "TimerFired" => e.id \in due}

\* Mutant of LastSequenceID: an empty history is numbered from -1.
LastSequenceIDFromMinusOne(x) == IF hist[x] = <<>> THEN -1 ELSE hist[x][Len(hist[x])].upto

\* The sequence id of the most recently inserted history row.
LastSequenceID(x) == IF hist[x] = <<>> THEN 0 ELSE hist[x][Len(hist[x])].upto

Recorded(x) == UNION {hist[x][i].executed : i \in DOMAIN hist[x]}
Emitted(x)  == UNION {hist[x][i].emitted : i \in DOMAIN hist[x]}

\* The id (a UUID) of the next execution.
IsFresh(x) == /\ inst[x].state = "unused"
              /\ \A y \in Executions : y < x => inst[y].state # "unused"

NewRow(i, parent, of) ==
    [inst |-> i, state |-> "Active", lock |-> "null", sticky |-> FALSE,
     worker |-> NoWorker, parent |-> parent, of |-> of]

Init ==
    /\ inst = [x \in Executions |-> [NewRow(CHOOSE i \in Instances : TRUE, 0, 0)
                                        EXCEPT !.state = "unused"]]
    /\ pending = [x \in Executions |-> {}]
    /\ hist = [x \in Executions |-> <<>>]
    /\ activities = {}
    /\ wtask = [h \in Handlers |-> NoTask]
    /\ atask = [h \in Handlers |-> NoTask]
    /\ due = {}
    /\ nextID = 1
-----------------------------------------------------------------------------
(* Client operations.                                                      *)

CreateWorkflowInstance(i) ==
    /\ ActiveExecutions(i) = {}                  \* else ErrInstanceAlreadyExists
    /\ nextID + 1 <= MaxID
    /\ \E x \in Executions :
        /\ IsFresh(x)
        /\ inst' = [inst EXCEPT ![x] = NewRow(i, 0, 0)]
        /\ pending' = [pending EXCEPT ![x] = @ \cup {Ev(nextID, "WorkflowExecutionStarted", 0)}]
    /\ nextID' = nextID + 1
    /\ UNCHANGED <<hist, activities, wtask, atask, due>>

\* Delivers to the active execution; ErrInstanceNotFound if there is none.
SignalWorkflow(i) ==
    /\ nextID + 1 <= MaxID
    /\ \E x \in ActiveExecutions(i) :
        pending' = [pending EXCEPT ![x] = @ \cup {Ev(nextID, "SignalReceived", 0)}]
    /\ nextID' = nextID + 1
    /\ UNCHANGED <<inst, hist, activities, wtask, atask, due>>

\* Any execution that has a row, finished or not.
CancelWorkflowInstance(x) ==
    /\ nextID + 1 <= MaxID
    /\ Exists(x)
    /\ pending' = [pending EXCEPT ![x] = @ \cup {Ev(nextID, "WorkflowExecutionCanceled", 0)}]
    /\ nextID' = nextID + 1
    /\ UNCHANGED <<inst, hist, activities, wtask, atask, due>>

\* Deletes the row, the history and the attributes; pending events and
\* activities stay.
RemoveWorkflowInstance(x) ==
    /\ Exists(x) /\ ~IsActive(x)                 \* else ErrInstanceNotFinished
    /\ inst' = [inst EXCEPT ![x].state = "removed"]
    /\ hist' = [hist EXCEPT ![x] = <<>>]
    /\ UNCHANGED <<pending, activities, wtask, atask, due, nextID>>

\* One batch.  The statements on history and attributes compare event ids
\* with instance ids and delete nothing.
RemoveWorkflowInstances(S) ==
    /\ \A x \in S : Exists(x) /\ ~IsActive(x)
    /\ inst' = [x \in Executions |->
                  IF x \in S THEN [inst[x] EXCEPT !.state = "purged"] ELSE inst[x]]
    /\ UNCHANGED <<pending, hist, activities, wtask, atask, due, nextID>>
-----------------------------------------------------------------------------
(* Workflow tasks.                                                         *)

\* Mutant of CanLock: a row is never locked again after its lock expired.
CanLockOnce(w, x) ==
    /\ inst[x].lock = "null"
    /\ ~inst[x].sticky \/ inst[x].worker = w
    /\ IsActive(x)
    /\ Visible(x) # {}

\* An unlocked row, not sticky to another worker, with a visible event.
CanLock(w, x) ==
    /\ inst[x].lock # "held"
    /\ ~inst[x].sticky \/ inst[x].worker = w
    /\ IsActive(x)
    /\ Visible(x) # {}

GetWorkflowTask(h) ==
    /\ wtask[h] = NoTask
    /\ \E x \in Executions :
        /\ CanLock(WorkerOf[h], x)
        /\ inst' = [inst EXCEPT ![x].lock = "held", ![x].worker = WorkerOf[h]]
        /\ wtask' = [wtask EXCEPT ![h] = [exec |-> x, new |-> Visible(x),
                                           last |-> LastSequenceID(x)]]
    /\ UNCHANGED <<pending, hist, activities, atask, due, nextID>>

\* The heartbeat.  A failing one ends the task: DropWorkflowTask.
ExtendWorkflowTask(h) ==
    /\ wtask[h] # NoTask
    /\ LET x == wtask[h].exec IN
        /\ Exists(x) /\ inst[x].worker = WorkerOf[h]
        /\ inst' = [inst EXCEPT ![x].lock = "held"]
    /\ UNCHANGED <<pending, hist, activities, wtask, atask, due, nextID>>

\* The executor failed, the heartbeat failed, the process died, or the
\* completion's transaction rolled back: the task is gone, the rows stay.
DropWorkflowTask(h) ==
    /\ wtask[h] # NoTask
    /\ wtask' = [wtask EXCEPT ![h] = NoTask]
    /\ UNCHANGED <<inst, pending, hist, activities, atask, due, nextID>>

(* What the executor may return.  It executes the task's events in order;  *)
(* an event that fails ends the workflow with the events before it.        *)
ExecutedSets(t) ==
    IF EventsMayFail
    THEN {E \in SUBSET t.new : \A e \in E, f \in t.new : f.id < e.id => f \in E}
    ELSE {t.new}

\* Schedule ids of kind's events in x's history that no closing event names.
Open(x, E, kind, closing) ==
    {e.of : e \in {s \in Emitted(x) : s.kind = kind}}
        \ {e.of : e \in {s \in Emitted(x) \cup Recorded(x) \cup E : s.kind \in closing}}

OpenTimers(x) == Open(x, {}, "TimerScheduled", {"TimerFired", "TimerCanceled"})

OpenSubWorkflows(x, E) ==
    Open(x, E, "SubWorkflowScheduled",
         {"SubWorkflowCompleted", "SubWorkflowFailed", "SubWorkflowCancellationRequested"})

\* At most one command per task (a bound).
CommandsOf(x, E) ==
    LET own == {inst[x].inst}
        cmds(kinds, of, target) == [kind : Commands \cap kinds, of : of, target : target]
    IN  [kind : {"none"}, of : {0}, target : own]
          \cup cmds({"activity", "timer"}, {0}, own)
          \cup cmds({"subWorkflow"}, {0}, Instances)
          \cup cmds({"cancelTimer"}, OpenTimers(x), own)
          \cup cmds({"cancelSubWorkflow"}, OpenSubWorkflows(x, E), own)

\* The history events of a command, by its kind.
Emits(cmd) ==
    LET emit(kind, event, of) == IF cmd.kind = kind THEN {Ev(nextID, event, of)} ELSE {}
    IN  emit("activity", "ActivityScheduled", nextID)
          \cup emit("timer", "TimerScheduled", nextID)
          \cup emit("cancelTimer", "TimerCanceled", cmd.of)
          \cup emit("subWorkflow", "SubWorkflowScheduled", nextID)
          \cup emit("cancelSubWorkflow", "SubWorkflowCancellationRequested", cmd.of)

\* Mutant of Starts: the continuation loses the parent.
StartsOrphan(x, st, cmd) ==
    IF st = "ContinuedAsNew" THEN {NewRow(inst[x].inst, 0, 0)}
    ELSE IF cmd.kind = "subWorkflow" THEN {NewRow(cmd.target, x, nextID)} ELSE {}

\* The row of the execution this task starts, if any: a sub-workflow, or the
\* continuation, which keeps the parent.
Starts(x, st, cmd) ==
    IF st = "ContinuedAsNew" THEN {NewRow(inst[x].inst, inst[x].parent, inst[x].of)}
    ELSE IF cmd.kind = "subWorkflow" THEN {NewRow(cmd.target, x, nextID)} ELSE {}

\* Mutant of AlreadyExists: createInstance does not look.
NeverExists(x, st, i) == FALSE

\* createInstance finds an active execution, after x's row was updated to st.
AlreadyExists(x, st, i) == \E y \in ActiveExecutions(i) : y # x \/ st = "Active"

\* The execution id a sub-workflow command was given when it was scheduled.
FirstChild(x, of) ==
    {y \in Executions : /\ inst[y].parent = x /\ inst[y].of = of
                        /\ \A z \in 1 .. (y - 1) : inst[z].parent # x \/ inst[z].of # of}

Msg(to, ev) == {[to |-> y, ev |-> ev] : y \in to}

\* Pending events a checkpoint inserts: timers, a child's cancellation, the
\* start of the new execution n (or the failure to create it, n = 0), the
\* result for the parent.
Messages(x, st, cmd, n) ==
    UNION {Msg(IF cmd.kind = "timer" THEN {x} ELSE {},
               Ev(nextID + 1, "TimerFired", nextID)),
           Msg(IF cmd.kind = "cancelSubWorkflow" THEN FirstChild(x, cmd.of) ELSE {},
               Ev(nextID + 1, "WorkflowExecutionCanceled", 0)),
           Msg({n} \cap Executions, Ev(nextID + 1, "WorkflowExecutionStarted", 0)),
           UNION {Msg(IF n = 0 THEN {x} ELSE {}, Ev(nextID + 1, "SubWorkflowFailed", r.of))
                    : r \in Starts(x, st, cmd)},
           Msg(IF st = "Finished" THEN {inst[x].parent} \cap Executions ELSE {},
               Ev(nextID + 2, "SubWorkflowCompleted", inst[x].of))}

SentTo(y, msgs) == {m.ev : m \in {k \in msgs : k.to = y}}

\* UPDATE instances ... WHERE id = ? AND execution_id = ? AND worker = ?
Owns(w, x) ==
    /\ Exists(x)
    /\ inst[x].worker = w
    /\ LockChecked => inst[x].lock # "null"

\* The rows of the history table a checkpoint inserts: WorkflowTaskStarted,
\* the executed events, those of the command, the closing event.
NewBatch(t, E, st, cmd) ==
    [after |-> t.last,
     upto  |-> t.last + 1 + Cardinality(E) + Cardinality(Emits(cmd))
                 + (IF st = "Active" THEN 0 ELSE 1),
     executed |-> E, emitted |-> Emits(cmd)]

\* Mutants of Deleted: every pending event of the execution; no future event.
DeletedAll(E, cmd, e) == TRUE
DeletedExecuted(E, cmd, e) == e \in E

\* The pending events a checkpoint deletes: the executed ones (by id) and the
\* future event of a timer it cancels.
Deleted(E, cmd, e) ==
    e \in E \/ (e.kind = "TimerFired" /\ cmd.kind = "cancelTimer" /\ e.of = cmd.of)

\* Mutant of Insertable: history without its primary key.
AlwaysInsertable(x, E) == TRUE

\* INSERT INTO history: the primary key rejects an event recorded before.
Insertable(x, E) == UniqueEventIDs => E \cap Recorded(x) = {}

\* removeWorkflowInstance at the end of the transaction.
RemovedAtOnce(st) == RemoveContinuedAsNewInstances /\ st = "ContinuedAsNew"

\* The writes of CompleteWorkflowTask's transaction; n is the new execution.
Checkpoint(t, E, st, cmd, n) ==
    LET x    == t.exec
        row  == [inst[x] EXCEPT !.lock = "null", !.sticky = TRUE,
                                !.state = IF RemovedAtOnce(st) THEN "removed" ELSE st]
        msgs == Messages(x, st, cmd, n)
    IN  /\ inst' = [y \in Executions |->
                      IF y = x THEN row
                      ELSE IF y = n THEN CHOOSE r \in Starts(x, st, cmd) : TRUE
                      ELSE inst[y]]
        /\ pending' = [y \in Executions |->
                         {e \in pending[y] : y = x => ~Deleted(E, cmd, e)}
                           \cup SentTo(y, msgs)]
        /\ hist' = [hist EXCEPT ![x] = IF RemovedAtOnce(st) THEN <<>>
                                        ELSE Append(@, NewBatch(t, E, st, cmd))]
        /\ activities' = activities \cup
                           {[ev |-> e, exec |-> x, lock |-> "null", worker |-> NoWorker]
                             : e \in {e \in Emits(cmd) : e.kind = "ActivityScheduled"}}
        /\ nextID' = IF cmd.kind = "none" /\ st = "Active" THEN nextID ELSE nextID + 3

CompleteWorkflowTask(h) ==
    /\ wtask[h] # NoTask
    /\ LET t == wtask[h]
           x == t.exec
       IN  \E E \in ExecutedSets(t), st \in RowStates :
            /\ E # t.new => st = "Finished"
            /\ Owns(WorkerOf[h], x)                          \* else nothing to unlock
            /\ Insertable(x, E)                             \* else constraint error
            /\ \E cmd \in CommandsOf(x, E), n \in Executions \cup {0} :
                \* pending futures turn a continuation into a failure
                /\ st = "ContinuedAsNew" => cmd.kind \in {"none", "cancelTimer"}
                /\ IF \E r \in Starts(x, st, cmd) : ~AlreadyExists(x, st, r.inst)
                   THEN n # 0 /\ IsFresh(n) ELSE n = 0
                /\ Checkpoint(t, E, st, cmd, n)
    /\ nextID' = nextID \/ nextID' <= MaxID
    /\ wtask' = [wtask EXCEPT ![h] = NoTask]
    /\ UNCHANGED <<atask, due>>
-----------------------------------------------------------------------------
(* Activity tasks.                                                         *)

\* Mutant of Unlocked: an expired lock is not taken over.
NeverLocked == {a \in activities : a.lock = "null"}

Unlocked == {a \in activities : a.lock # "held"}

\* The row the query finds first: the index on (locked_until, queue) yields
\* the never locked rows first, in order of insertion.
FirstUnlocked ==
    LET never == {a \in Unlocked : a.lock = "null"}
    IN  IF never = {} THEN Unlocked
        ELSE {a \in never : \A b \in never : a.ev.id <= b.ev.id}

\* The task needs the event's attributes and the metadata of any execution
\* of the instance.
HasAttributes(a) ==
    /\ inst[a.exec].state # "removed"
    /\ \E y \in Executions : Exists(y) /\ inst[y].inst = inst[a.exec].inst

GetActivityTask(h) ==
    /\ atask[h] = NoTask
    /\ \E a \in FirstUnlocked :
        /\ HasAttributes(a)                       \* else error, rolled back
        /\ activities' = (activities \ {a})
                           \cup {[a EXCEPT !.lock = "held", !.worker = WorkerOf[h]]}
        /\ atask' = [atask EXCEPT ![h] = [ev |-> a.ev, exec |-> a.exec]]
    /\ UNCHANGED <<inst, pending, hist, wtask, due, nextID>>

\* The row of h's activity, if h's worker was the last to lock it.
OwnActivity(h) ==
    {a \in activities : a.ev = atask[h].ev /\ a.exec = atask[h].exec /\ a.worker = WorkerOf[h]}

ExtendActivityTask(h) ==
    /\ atask[h] # NoTask
    /\ \E a \in OwnActivity(h) :
        activities' = (activities \ {a}) \cup {[a EXCEPT !.lock = "held"]}
    /\ UNCHANGED <<inst, pending, hist, wtask, atask, due, nextID>>

\* Mutant of CompleteActivityTask: the number of deleted rows is not checked.
CompleteActivityTaskUnchecked(h) ==
    /\ atask[h] # NoTask
    /\ activities' = activities \ OwnActivity(h)
    /\ pending' = [pending EXCEPT ![atask[h].exec] =
                      @ \cup {Ev(nextID, "ActivityCompleted", atask[h].ev.of)}]
    /\ nextID' = nextID + 1
    /\ atask' = [atask EXCEPT ![h] = NoTask]
    /\ UNCHANGED <<inst, hist, wtask, due>>

CompleteActivityTask(h) ==
    /\ atask[h] # NoTask
    /\ \E a \in OwnActivity(h) :
        /\ activities' = activities \ {a}
        /\ pending' = [pending EXCEPT ![a.exec] =
                          @ \cup {Ev(nextID, "ActivityCompleted", a.ev.of)}]
    /\ nextID' = nextID + 1
    /\ atask' = [atask EXCEPT ![h] = NoTask]
    /\ UNCHANGED <<inst, hist, wtask, due>>

DropActivityTask(h) ==
    /\ atask[h] # NoTask
    /\ atask' = [atask EXCEPT ![h] = NoTask]
    /\ UNCHANGED <<inst, pending, hist, activities, wtask, due, nextID>>
-----------------------------------------------------------------------------
(* Time passes.                                                            *)

WorkflowLockExpires(x) ==
    /\ inst[x].lock = "held"
    /\ inst' = [inst EXCEPT ![x].lock = "expired"]
    /\ UNCHANGED <<pending, hist, activities, wtask, atask, due, nextID>>

StickyExpires(x) ==
    /\ inst[x].sticky
    /\ inst' = [inst EXCEPT ![x].sticky = FALSE]
    /\ UNCHANGED <<pending, hist, activities, wtask, atask, due, nextID>>

ActivityLockExpires(a) ==
    /\ a.lock = "held"
    /\ activities' = (activities \ {a}) \cup {[a EXCEPT !.lock = "expired"]}
    /\ UNCHANGED <<inst, pending, hist, wtask, atask, due, nextID>>

TimerDue(e) ==
    /\ e.kind = "TimerFired" /\ e.id \notin due
    /\ due' = due \cup {e.id}
    /\ UNCHANGED <<inst, pending, hist, activities, wtask, atask, nextID>>
-----------------------------------------------------------------------------
ClientNext ==
    \/ \E i \in Instances : CreateWorkflowInstance(i)
    \/ "signal" \in ClientOps /\ \E i \in Instances : SignalWorkflow(i)
    \/ "cancel" \in ClientOps /\ \E x \in Executions : CancelWorkflowInstance(x)
    \/ "remove" \in ClientOps /\ \E x \in Executions : RemoveWorkflowInstance(x)
    \/ "purge" \in ClientOps /\ \E S \in SUBSET Executions : RemoveWorkflowInstances(S)

WorkerNext ==
    \E h \in Handlers :
        \/ GetWorkflowTask(h) \/ ExtendWorkflowTask(h)
        \/ CompleteWorkflowTask(h) \/ DropWorkflowTask(h)
        \/ GetActivityTask(h) \/ ExtendActivityTask(h)
        \/ CompleteActivityTask(h) \/ DropActivityTask(h)

TimeNext ==
    \/ \E x \in Executions : WorkflowLockExpires(x) \/ StickyExpires(x)
    \/ \E a \in activities : ActivityLockExpires(a)
    \/ \E x \in Executions : \E e \in pending[x] : TimerDue(e)

Next == ClientNext \/ WorkerNext \/ TimeNext

Spec == Init /\ [][Next]_vars

(* Pollers poll, time passes, and a handler does not hold a task forever:  *)
(* handle() completes it or returns an error.  A task that is handed out   *)
(* again and again is eventually completed, by a worker that neither dies  *)
(* nor stalls past the lock timeout.                                       *)
Fairness ==
    /\ \A h \in Handlers :
        /\ WF_vars(GetWorkflowTask(h)) /\ WF_vars(GetActivityTask(h))
        /\ WF_vars(CompleteWorkflowTask(h) \/ DropWorkflowTask(h))
        /\ WF_vars(CompleteActivityTask(h) \/ DropActivityTask(h))
        /\ SF_vars(CompleteWorkflowTask(h)) /\ SF_vars(CompleteActivityTask(h))
    /\ \A x \in Executions : WF_vars(WorkflowLockExpires(x)) /\ WF_vars(StickyExpires(x))
    /\ WF_vars(\E a \in activities : ActivityLockExpires(a))
    /\ WF_vars(\E x \in Executions : \E e \in pending[x] : TimerDue(e))

LiveSpec == Spec /\ Fairness
-----------------------------------------------------------------------------
(* Properties.                                                             *)

(* The history of an execution is numbered without gap or repetition: each *)
(* checkpoint continues where the one before it ended, whoever made it and *)
(* however stale its task was (CompleteWorkflowTask's fences).             *)
HistoryContiguous ==
    \A x \in Executions : \A i \in DOMAIN hist[x] :
        hist[x][i].after = IF i = 1 THEN 0 ELSE hist[x][i - 1].upto

(* A task in flight either is current - its execution is active, its       *)
(* events are still pending and it holds the last sequence id - or is      *)
(* fenced off: the execution was removed, or one of the events is in the   *)
(* history.  Two current tasks share an event, so that the completion of   *)
(* the first fences the other (GetWorkflowTask, CompleteWorkflowTask).     *)
Current(t) == /\ IsActive(t.exec)
              /\ t.last = LastSequenceID(t.exec)
              /\ t.new # {} /\ t.new \subseteq Visible(t.exec)

Fenced(t) == \/ inst[t.exec].state \in {"removed", "purged"}
             \/ t.new \cap Recorded(t.exec) # {}

TasksCurrentOrFenced ==
    \A h \in Handlers : wtask[h] # NoTask => Current(wtask[h]) \/ Fenced(wtask[h])

CurrentTasksOverlap ==
    \A h, g \in Handlers :
        (/\ wtask[h] # NoTask /\ wtask[g] # NoTask /\ wtask[h].exec = wtask[g].exec
         /\ ~Fenced(wtask[h]) /\ ~Fenced(wtask[g]))
            => wtask[h].new \cap wtask[g].new # {}

StaleTasksFenced == TasksCurrentOrFenced /\ CurrentTasksOverlap

(* At most one execution of an instance is active: createInstance's check, *)
(* for clients, sub-workflows and continuations alike.                     *)
OneActiveExecution ==
    \A i \in Instances : Cardinality(ActiveExecutions(i)) <= 1

\* Events delivered to x, handled or not.
Delivered(x) == pending[x] \cup Recorded(x)

(* Every activity a history records has exactly one outcome: its row, to   *)
(* be run (again), or one result, although several workers may run it.     *)
ActivityOutcome ==
    \A x \in Executions : \A s \in Emitted(x) : s.kind = "ActivityScheduled" =>
        Cardinality({a \in activities : a.ev = s})
          + Cardinality({e \in Delivered(x) : e.kind = "ActivityCompleted" /\ e.of = s.of}) = 1

(* A sub-workflow a history records is either running, in its first or a   *)
(* continued execution, or has delivered exactly one result to its parent. *)
SubWorkflowOutcome ==
    \A x \in Executions : \A s \in Emitted(x) : s.kind = "SubWorkflowScheduled" =>
        Cardinality({y \in Executions : IsActive(y) /\ inst[y].parent = x /\ inst[y].of = s.of})
          + Cardinality({e \in Delivered(x) :
                /\ e.kind \in {"SubWorkflowCompleted", "SubWorkflowFailed"}
                /\ e.of = s.of}) = 1

(* A timer's future event is pending until the timer fires or is canceled, *)
(* and from then on never again (timer events, removeFutureEvent).         *)
TimerOutcome ==
    \A x \in Executions : \A s \in Emitted(x) : s.kind = "TimerScheduled" =>
        (\E e \in pending[x] : e.kind = "TimerFired" /\ e.of = s.of)
          <=> s.of \in OpenTimers(x)

KeepsClosed ==
    \A x \in Executions : Exists(x) /\ ~IsActive(x) =>
        \/ inst'[x].state = inst[x].state /\ hist'[x] = hist[x]
        \/ inst'[x].state \in {"removed", "purged"}

(* A finished or continued execution stays closed and its history as it is *)
(* until it is removed, whatever stale task reports back.                  *)
ClosedHistoryFrozen == [][KeepsClosed]_vars

\* What ExecutionLog calls status, log and timers.
Status == [x \in Executions |->
             CASE inst[x].state = "unused" -> "new"
               [] inst[x].state = "Active" -> "open"
               [] inst[x].state \in {"ContinuedAsNew", "Finished"} -> "closed"
               [] OTHER -> "gone"]

Executed == [x \in Executions |-> [i \in DOMAIN hist[x] |-> hist[x][i].executed]]

Timers == {e \in Event : e.kind = "TimerFired"}

Log == INSTANCE ExecutionLog WITH status <- Status, inbox <- pending, log <- Executed

(* The backend implements the log its users rely on: a checkpoint moves    *)
(* events from the pending table to the history in one step, each event    *)
(* once, and a closed execution is neither extended nor reopened, whatever *)
(* workers hold tasks of it (ExecutionLog).                                *)
LogSpec == Log!Spec

(* An active execution's visible events are executed, again and again,    *)
(* until it closes, although tasks are dropped and locks expire.           *)
EventsHandled ==
    \A x \in Executions : []<>(IsActive(x) => Visible(x) = {})

(* The activities of an active execution are run to a result, again and    *)
(* again, until it closes, although workers drop them and locks expire.    *)
ActivitiesHandled ==
    \A x \in Executions : []<>(IsActive(x) => \A a \in activities : a.exec # x)
=============================================================================
