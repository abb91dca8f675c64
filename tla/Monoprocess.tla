---------------------------- MODULE Monoprocess ----------------------------
(* The monoprocess backend (backend/monoprocess/monoprocess.go): it wraps  *)
(* another backend of the same process and wakes pollers with a channel of *)
(* capacity one per kind of task.  A call commits in the wrapped backend   *)
(* first and notifies afterwards; a poller checks first and waits          *)
(* afterwards.  The wrapped backend is kept to what decides whether a task *)
(* can be fetched: visible events, locks and the time of timers.  Pollers  *)
(* give a poll up after 30s (internal/worker/worker.go, poll).             *)
EXTENDS Naturals, FiniteSets

CONSTANTS
    Instances,  \* workflow instances
    Pollers,    \* [workflow |-> set of pollers, activity |-> another]
    Queue,      \* the queue of an instance's tasks
    Queues,     \* the queues a poller asks for
    MaxEvents,  \* bound: events of clients, all instances
    MaxFaults   \* bound: dropped tasks and restarts

Kinds == {"workflow", "activity"}
AllPollers == UNION {Pollers[k] : k \in Kinds}
KindOf(p) == CHOOSE k \in Kinds : p \in Pollers[k]

ASSUME MonoprocessAssumption ==
    /\ DOMAIN Pollers = Kinds /\ Pollers["workflow"] \cap Pollers["activity"] = {}
    /\ DOMAIN Queue = Instances /\ DOMAIN Queues = AllPollers
    /\ MaxEvents \in Nat /\ MaxFaults \in Nat

VARIABLES
    task,     \* task[k][i]: what the wrapped backend has of kind k for i
    lock,     \* lock[k][i]: the lock of that task
    timer,    \* timer[i]: the future event of i, if it is pending
    signal,   \* signal[k]: does the channel hold a signal?
    owing,    \* owing[k]: calls that have committed and not yet notified
    alarms,   \* instances a time.AfterFunc will notify for
    poller,   \* where a poller is
    forgotten,\* instances with a timer set before a restart
    untold,   \* tasks that became available without a call, as <<kind, i>>
    events, faults

vars == <<task, lock, timer, signal, owing, alarms, poller, forgotten, untold, events, faults>>
backend == <<task, lock, timer>>

Init ==
    /\ task = [k \in Kinds |-> [i \in Instances |-> FALSE]]
    /\ lock = [k \in Kinds |-> [i \in Instances |-> "free"]]
    /\ timer = [i \in Instances |-> "none"]
    /\ signal = [k \in Kinds |-> FALSE]
    /\ owing = [k \in Kinds |-> 0]
    /\ alarms = {}
    /\ poller = [p \in AllPollers |-> "out"]
    /\ forgotten = {}
    /\ untold = {}
    /\ events = 0 /\ faults = 0

Ready(k) == {i \in Instances : task[k][i] /\ lock[k][i] = "free"}
-----------------------------------------------------------------------------
(* Pollers: GetWorkflowTask and GetActivityTask.                           *)

Goes(p, to) == poller' = [poller EXCEPT ![p] = to]

Poll(p) ==
    /\ poller[p] = "out"
    /\ Goes(p, "check")
    /\ UNCHANGED <<backend, signal, owing, alarms, forgotten, untold, events, faults>>

Fetchable(p) == {i \in Ready(KindOf(p)) : Queue[i] \in Queues[p]}

Fetch(p) ==
    LET k == KindOf(p) IN
    /\ poller[p] = "check"
    /\ \E i \in Fetchable(p) :
        /\ lock' = [lock EXCEPT ![k][i] = "held"]
        /\ task' = [task EXCEPT ![k][i] = FALSE]
        /\ untold' = untold \ {<<k, i>>}
    /\ Goes(p, "out")
    /\ UNCHANGED <<timer, signal, owing, alarms, forgotten, events, faults>>

\* The wrapped backend found nothing: wait for a signal.
Nothing(p) ==
    /\ poller[p] = "check" /\ Fetchable(p) = {}
    /\ Goes(p, "wait")
    /\ UNCHANGED <<backend, signal, owing, alarms, forgotten, untold, events, faults>>

\* The signal may be taken when the poll's time is already up ("late").
Woken(p) ==
    /\ poller[p] = "wait" /\ signal[KindOf(p)]
    /\ signal' = [signal EXCEPT ![KindOf(p)] = FALSE]
    /\ Goes(p, "check") \/ Goes(p, "late")
    /\ UNCHANGED <<backend, owing, alarms, forgotten, untold, events, faults>>

\* Mutant of GiveUp: polls have no timeout.
GiveUpNever(p) ==
    /\ poller[p] = "late"
    /\ Goes(p, "out")
    /\ UNCHANGED <<backend, signal, owing, alarms, forgotten, untold, events, faults>>

\* ctx.Done(), in the select or in the wrapped backend.
GiveUp(p) ==
    /\ poller[p] \in {"wait", "late"}
    /\ Goes(p, "out")
    /\ UNCHANGED <<backend, signal, owing, alarms, forgotten, untold, events, faults>>
-----------------------------------------------------------------------------
(* Calls commit, then notify.                                              *)

\* Visible events for the workflow tasks of S; whoever sends them will tell.
Sends(S) ==
    /\ task' = [task EXCEPT !["workflow"] = [i \in Instances |-> @[i] \/ i \in S]]
    /\ untold' = untold \ ({"workflow"} \X S)

\* Bound on the events from outside, and on what tasks add.
Counts == events < MaxEvents /\ events' = events + 1

\* CreateWorkflowInstance, SignalWorkflow, CancelWorkflowInstance
ClientCall(i) ==
    /\ Counts
    /\ Sends({i})
    /\ owing' = [owing EXCEPT !["workflow"] = @ + 1]
    /\ UNCHANGED <<lock, timer, signal, alarms, poller, forgotten, faults>>

\* What a task's commands may add; of an instance at most one activity and one
\* timer at a time.
Plain == UNCHANGED <<task, untold, timer, alarms, forgotten, events>>

Message(i) ==
    /\ Counts
    /\ \E j \in Instances \ {i} : Sends({j})
    /\ UNCHANGED <<timer, alarms, forgotten>>

SetTimer(i) ==
    /\ Counts
    /\ timer[i] = "none" /\ i \notin alarms
    /\ timer' = [timer EXCEPT ![i] = "pending"]
    /\ alarms' = alarms \cup {i}
    /\ UNCHANGED <<task, untold, forgotten>>

CancelTimer(i) ==
    /\ timer[i] = "pending"
    /\ timer' = [timer EXCEPT ![i] = "none"]
    /\ forgotten' = forgotten \ {i}
    /\ UNCHANGED <<task, untold, alarms, events>>

Activity(i) ==
    /\ Counts
    /\ ~task["activity"][i] /\ lock["activity"][i] = "free"
    /\ task' = [task EXCEPT !["activity"][i] = TRUE]
    /\ UNCHANGED <<untold, timer, alarms, forgotten>>

CompleteWorkflowTask(i) ==
    /\ lock["workflow"][i] = "held"
    /\ lock' = [lock EXCEPT !["workflow"][i] = "free"]
    /\ \/ /\ Plain \/ Message(i) \/ SetTimer(i) \/ CancelTimer(i)
          /\ owing' = [owing EXCEPT !["workflow"] = @ + 1]
       \/ /\ Activity(i)
          /\ owing' = [k \in Kinds |-> owing[k] + 1]
    /\ UNCHANGED <<signal, poller, faults>>

CompleteActivityTask(i) ==
    /\ lock["activity"][i] = "held"
    /\ lock' = [lock EXCEPT !["activity"][i] = "free"]
    /\ Sends({i})
    /\ owing' = [owing EXCEPT !["workflow"] = @ + 1]
    /\ UNCHANGED <<timer, signal, alarms, poller, forgotten, events, faults>>

\* Mutant of Notify: a channel without buffer; a poller that is on its way from
\* its check to the select misses the signal.
NotifyUnbuffered(k) ==
    /\ owing[k] > 0
    /\ owing' = [owing EXCEPT ![k] = @ - 1]
    /\ UNCHANGED poller \/ \E p \in Pollers[k] : poller[p] = "wait" /\ Goes(p, "check")
    /\ UNCHANGED <<backend, signal, alarms, forgotten, untold, events, faults>>

\* notifyWorkflowWorker, notifyActivityWorker: one signal is enough.
Notify(k) ==
    /\ owing[k] > 0
    /\ owing' = [owing EXCEPT ![k] = @ - 1]
    /\ signal' = [signal EXCEPT ![k] = TRUE]
    /\ UNCHANGED <<backend, alarms, poller, forgotten, untold, events, faults>>

\* The time.AfterFunc of a timer runs when the future event is visible, or
\* when the timer has been canceled.
AlarmRings(i) ==
    /\ i \in alarms /\ timer[i] = "none"
    /\ alarms' = alarms \ {i}
    /\ signal' = [signal EXCEPT !["workflow"] = TRUE]
    /\ UNCHANGED <<backend, owing, poller, forgotten, untold, events, faults>>
-----------------------------------------------------------------------------
(* Time, failures and restarts.                                            *)

\* A task becomes available and nobody is told.
Silently(k, i) == untold' = untold \cup {<<k, i>>}

TimerDue(i) ==
    /\ timer[i] = "pending"
    /\ timer' = [timer EXCEPT ![i] = "none"]
    /\ task' = [task EXCEPT !["workflow"][i] = TRUE]
    /\ IF i \in forgotten THEN Silently("workflow", i) ELSE UNCHANGED untold
    /\ forgotten' = forgotten \ {i}
    /\ UNCHANGED <<lock, signal, owing, alarms, poller, events, faults>>

\* The handler returns an error; its task is available again when the lock
\* expires.
Drop(k, i) ==
    /\ faults < MaxFaults /\ faults' = faults + 1
    /\ lock[k][i] = "held"
    /\ lock' = [lock EXCEPT ![k][i] = "stale"]
    /\ task' = [task EXCEPT ![k][i] = TRUE]
    /\ UNCHANGED <<timer, signal, owing, alarms, poller, forgotten, untold, events>>

LockExpires(k, i) ==
    /\ lock[k][i] = "stale"
    /\ lock' = [lock EXCEPT ![k][i] = "free"]
    /\ Silently(k, i)
    /\ UNCHANGED <<task, timer, signal, owing, alarms, poller, forgotten, events, faults>>

\* The process ends and starts again: only the wrapped backend's state stays.
Restart ==
    /\ faults < MaxFaults /\ faults' = faults + 1
    /\ lock' = [k \in Kinds |-> [i \in Instances |->
                  IF lock[k][i] = "held" THEN "stale" ELSE lock[k][i]]]
    /\ task' = [k \in Kinds |-> [i \in Instances |->
                  task[k][i] \/ lock[k][i] = "held"]]
    /\ signal' = [k \in Kinds |-> FALSE]
    /\ owing' = [k \in Kinds |-> 0]
    /\ alarms' = {}
    /\ poller' = [p \in AllPollers |-> "out"]
    /\ untold' = {}
    /\ forgotten' = {i \in Instances : timer[i] = "pending"}
    /\ UNCHANGED <<timer, events>>
-----------------------------------------------------------------------------
PollerStep(p) == Poll(p) \/ Fetch(p) \/ Nothing(p) \/ Woken(p) \/ GiveUp(p)

Handle(k, i) ==
    IF k = "workflow" THEN CompleteWorkflowTask(i) ELSE CompleteActivityTask(i)

Next ==
    \/ \E p \in AllPollers : PollerStep(p)
    \/ \E i \in Instances : ClientCall(i) \/ AlarmRings(i) \/ TimerDue(i)
    \/ \E k \in Kinds : \/ Notify(k)
                        \/ \E i \in Instances : Handle(k, i) \/ Drop(k, i) \/ LockExpires(k, i)
    \/ Restart

Spec == Init /\ [][Next]_vars

\* Goroutines are scheduled, handlers return, polls time out and time passes.
Fairness ==
    /\ \A p \in AllPollers : WF_vars(PollerStep(p))
    /\ \A k \in Kinds : WF_vars(Notify(k))
    /\ \A k \in Kinds, i \in Instances : WF_vars(Handle(k, i)) /\ WF_vars(LockExpires(k, i))
    /\ \A i \in Instances : WF_vars(TimerDue(i)) /\ WF_vars(AlarmRings(i))

LiveSpec == Spec /\ Fairness
-----------------------------------------------------------------------------
(* Properties.                                                             *)

\* The available tasks somebody told, or has to tell, of.
Told(k) == {i \in Ready(k) : <<k, i>> \notin untold}

(***************************************************************************)
(* No wake-up is lost: as long as a task that became available by a call,  *)
(* or by a timer the process knows of, is there for the taking, a signal   *)
(* is in the channel, or about to be sent, or a poller that wants it has   *)
(* yet to check (GetWorkflowTask's loop against notifyWorkflowWorker).     *)
(***************************************************************************)
NoLostWakeup ==
    \A k \in Kinds : \A i \in Told(k) :
        \/ signal[k] \/ owing[k] > 0
        \/ k = "workflow" /\ \E j \in alarms : timer[j] = "none"
        \/ \E p \in Pollers[k] : Queue[i] \in Queues[p] /\ poller[p] # "wait"

(***************************************************************************)
(* Every available task is fetched, the ones included that became          *)
(* available without a call: expired locks, and timers that were set       *)
(* before a restart (the timeout of poll).                                 *)
(***************************************************************************)
TasksFetched ==
    \A k \in Kinds, i \in Instances : i \in Ready(k) ~> i \notin Ready(k)
=============================================================================
