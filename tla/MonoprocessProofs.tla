------------------------- MODULE MonoprocessProofs -------------------------
(* No wake-up of the monoprocess backend is lost, for every number of      *)
(* instances, pollers, events and faults, as long as pollers of one kind   *)
(* ask for the queues of all instances.                                    *)
EXTENDS Monoprocess, TLAPS

\* Pollers are interchangeable: there are some, and each takes every task.
OneQueue ==
    /\ \A k \in Kinds : Pollers[k] # {}
    /\ \A p \in AllPollers, i \in Instances : Queue[i] \in Queues[p]

TypeOK ==
    /\ task \in [Kinds -> [Instances -> BOOLEAN]]
    /\ lock \in [Kinds -> [Instances -> {"free", "held", "stale"}]]
    /\ timer \in [Instances -> {"none", "pending"}]
    /\ signal \in [Kinds -> BOOLEAN]
    /\ owing \in [Kinds -> Nat]
    /\ poller \in [AllPollers -> {"out", "check", "wait", "late"}]

\* The process will be called back for every timer it has not forgotten.
TimersAlarmed ==
    \A i \in Instances : timer[i] = "pending" /\ i \notin forgotten => i \in alarms

\* An activity that is being run is not there a second time.
HeldOnce == \A i \in Instances : lock["activity"][i] = "held" => ~task["activity"][i]

\* What NoLostWakeup asks for, whichever task is there.
Covered(k) ==
    \/ signal[k] \/ owing[k] > 0
    \/ k = "workflow" /\ \E j \in alarms : timer[j] = "none"
    \/ \E p \in Pollers[k] : poller[p] # "wait"

WakeupPending == \A k \in Kinds : Told(k) # {} => Covered(k)

IInv == TypeOK /\ TimersAlarmed /\ HeldOnce /\ WakeupPending

\* Every poller has the kind of the set it is in.
LEMMA PollerKinds ==
    /\ AllPollers = Pollers["workflow"] \cup Pollers["activity"]
    /\ \A k \in Kinds : \A p \in Pollers[k] : KindOf(p) = k
    /\ \A p \in AllPollers : KindOf(p) \in Kinds /\ p \in Pollers[KindOf(p)]
<1>1. AllPollers = Pollers["workflow"] \cup Pollers["activity"]
  BY DEF AllPollers, Kinds
<1>2. ASSUME NEW k \in Kinds, NEW p \in Pollers[k]
      PROVE  KindOf(p) = k
  <2>1. \A l \in Kinds : p \in Pollers[l] <=> l = k
    BY <1>2, MonoprocessAssumption DEF Kinds
  <2> QED
    BY <2>1 DEF KindOf
<1>3. ASSUME NEW p \in AllPollers
      PROVE  KindOf(p) \in Kinds /\ p \in Pollers[KindOf(p)]
  <2>1. PICK k \in Kinds : p \in Pollers[k]
    BY <1>1 DEF Kinds
  <2> QED
    BY <1>2, <2>1
<1> QED
  BY <1>1, <1>2, <1>3

\* With one queue the invariant is the property.
LEMMA WakeupsForAll ==
    ASSUME OneQueue, WakeupPending
    PROVE  NoLostWakeup
<1> SUFFICES ASSUME NEW k \in Kinds, NEW i \in Told(k)
             PROVE  \/ signal[k] \/ owing[k] > 0
                    \/ k = "workflow" /\ \E j \in alarms : timer[j] = "none"
                    \/ \E p \in Pollers[k] : Queue[i] \in Queues[p] /\ poller[p] # "wait"
  BY DEF NoLostWakeup
<1>1. i \in Instances
  BY DEF Told, Ready
<1>2. \A p \in Pollers[k] : Queue[i] \in Queues[p]
  BY <1>1, PollerKinds DEF OneQueue, Kinds
<1>3. Covered(k)
  BY DEF WakeupPending
<1> QED
  BY <1>2, <1>3 DEF Covered

LEMMA InitIInv == ASSUME OneQueue PROVE Init => IInv
<1> SUFFICES ASSUME Init PROVE IInv
  OBVIOUS
<1>1. TypeOK
  BY DEF Init, TypeOK
<1>2. TimersAlarmed /\ HeldOnce
  BY DEF Init, TimersAlarmed, HeldOnce, Kinds
<1>3. \A k \in Kinds : Told(k) = {}
  BY DEF Init, Told, Ready
<1> QED
  BY <1>1, <1>2, <1>3 DEF IInv, WakeupPending

\* One entry of a table of tables changes.
LEMMA NestedType ==
    ASSUME NEW S, NEW f \in [Kinds -> [Instances -> S]],
           NEW k \in Kinds, NEW i \in Instances, NEW v \in S
    PROVE  [f EXCEPT ![k][i] = v] \in [Kinds -> [Instances -> S]]
<1>1. [f[k] EXCEPT ![i] = v] \in [Instances -> S]
  OBVIOUS
<1> QED
  BY <1>1

LEMMA SendsType ==
    ASSUME TypeOK, NEW S, Sends(S)
    PROVE  task' \in [Kinds -> [Instances -> BOOLEAN]]
<1>1. [i \in Instances |-> task["workflow"][i] \/ i \in S] \in [Instances -> BOOLEAN]
  BY DEF TypeOK, Kinds
<1>2. task' = [task EXCEPT !["workflow"] = [i \in Instances |-> task["workflow"][i] \/ i \in S]]
  BY DEF Sends
<1> QED
  BY <1>1, <1>2 DEF TypeOK

LEMMA TypeStep == ASSUME TypeOK, [Next]_vars PROVE TypeOK'
<1>1. ASSUME NEW p \in AllPollers, PollerStep(p) PROVE TypeOK'
  <2>1. KindOf(p) \in Kinds
    BY PollerKinds
  <2>2. CASE Fetch(p)
    <3>1. PICK i \in Instances : /\ lock' = [lock EXCEPT ![KindOf(p)][i] = "held"]
                                 /\ task' = [task EXCEPT ![KindOf(p)][i] = FALSE]
      BY <2>2 DEF Fetch, Fetchable, Ready
    <3>2. /\ lock' \in [Kinds -> [Instances -> {"free", "held", "stale"}]]
          /\ task' \in [Kinds -> [Instances -> BOOLEAN]]
      BY <2>1, <3>1, NestedType DEF TypeOK
    <3> QED
      BY <2>2, <3>2 DEF TypeOK, Fetch, Goes
  <2>3. CASE Poll(p) \/ Nothing(p) \/ Woken(p) \/ GiveUp(p)
    BY <2>1, <2>3 DEF TypeOK, Poll, Nothing, Woken, GiveUp, Goes, backend
  <2> QED
    BY <1>1, <2>2, <2>3 DEF PollerStep
<1>2. ASSUME NEW i \in Instances, ClientCall(i) \/ AlarmRings(i) \/ TimerDue(i) PROVE TypeOK'
  <2>1. CASE ClientCall(i)
    BY <2>1, SendsType DEF TypeOK, ClientCall, Kinds
  <2>2. CASE AlarmRings(i)
    BY <2>2 DEF TypeOK, AlarmRings, backend, Kinds
  <2>3. CASE TimerDue(i)
    BY <2>3, NestedType DEF TypeOK, TimerDue, Kinds
  <2> QED
    BY <1>2, <2>1, <2>2, <2>3
<1>3. ASSUME NEW k \in Kinds, Notify(k) PROVE TypeOK'
  BY <1>3 DEF TypeOK, Notify, backend
<1>4. ASSUME NEW i \in Instances, CompleteWorkflowTask(i) PROVE TypeOK'
  <2>1. lock' \in [Kinds -> [Instances -> {"free", "held", "stale"}]]
    BY <1>4, NestedType DEF TypeOK, CompleteWorkflowTask, Kinds
  <2>2. owing' \in [Kinds -> Nat]
    BY <1>4 DEF TypeOK, CompleteWorkflowTask, Kinds
  <2>3. timer' \in [Instances -> {"none", "pending"}]
    BY <1>4 DEF TypeOK, CompleteWorkflowTask, Plain, Message, SetTimer, CancelTimer, Activity
  <2>4. CASE Message(i)
    BY <1>4, <2>1, <2>2, <2>3, <2>4, SendsType DEF TypeOK, CompleteWorkflowTask, Message
  <2>5. CASE Activity(i)
    BY <1>4, <2>1, <2>2, <2>3, <2>5, NestedType DEF TypeOK, CompleteWorkflowTask, Activity, Kinds
  <2>6. CASE Plain \/ SetTimer(i) \/ CancelTimer(i)
    BY <1>4, <2>1, <2>2, <2>3, <2>6 DEF TypeOK, CompleteWorkflowTask, Plain, SetTimer, CancelTimer
  <2> QED
    BY <1>4, <2>4, <2>5, <2>6 DEF CompleteWorkflowTask
<1>5. ASSUME NEW i \in Instances, CompleteActivityTask(i) PROVE TypeOK'
  <2>1. lock' \in [Kinds -> [Instances -> {"free", "held", "stale"}]]
    BY <1>5, NestedType DEF TypeOK, CompleteActivityTask, Kinds
  <2>2. task' \in [Kinds -> [Instances -> BOOLEAN]]
    BY <1>5, SendsType DEF CompleteActivityTask
  <2> QED
    BY <1>5, <2>1, <2>2 DEF TypeOK, CompleteActivityTask, Kinds
<1>6. ASSUME NEW k \in Kinds, NEW i \in Instances, Drop(k, i) \/ LockExpires(k, i) PROVE TypeOK'
  <2>1. CASE Drop(k, i)
    BY <2>1, NestedType DEF TypeOK, Drop
  <2>2. CASE LockExpires(k, i)
    BY <2>2, NestedType DEF TypeOK, LockExpires
  <2> QED
    BY <1>6, <2>1, <2>2
<1>7. CASE Restart
  BY <1>7 DEF TypeOK, Restart
<1>8. CASE UNCHANGED vars
  BY <1>8 DEF TypeOK, vars
<1> QED
  BY <1>1, <1>2, <1>3, <1>4, <1>5, <1>6, <1>7, <1>8 DEF Next, Handle, Kinds

\* Timers are set with an alarm, which goes off when they are gone.
LEMMA TimersStep ==
    ASSUME TypeOK, TimersAlarmed, [Next]_vars
    PROVE  TimersAlarmed'
<1>1. ASSUME NEW p \in AllPollers, PollerStep(p) PROVE TimersAlarmed'
  BY <1>1 DEF TimersAlarmed, PollerStep, Poll, Fetch, Nothing, Woken, GiveUp, backend
<1>2. ASSUME NEW i \in Instances, ClientCall(i) \/ AlarmRings(i) \/ TimerDue(i)
      PROVE  TimersAlarmed'
  BY <1>2 DEF TypeOK, TimersAlarmed, ClientCall, AlarmRings, TimerDue, backend
<1>3. ASSUME NEW i \in Instances, CompleteWorkflowTask(i) PROVE TimersAlarmed'
  BY <1>3 DEF TypeOK, TimersAlarmed, CompleteWorkflowTask, Plain, Message, SetTimer, CancelTimer, Activity
<1>4. CASE \/ \E k \in Kinds : Notify(k)
           \/ \E i \in Instances : CompleteActivityTask(i)
           \/ \E k \in Kinds, i \in Instances : Drop(k, i) \/ LockExpires(k, i)
           \/ UNCHANGED vars
  BY <1>4 DEF TimersAlarmed, Notify, CompleteActivityTask, Drop, LockExpires, backend, vars
<1>5. CASE Restart
  BY <1>5 DEF TimersAlarmed, Restart
<1> QED
  BY <1>1, <1>2, <1>3, <1>4, <1>5 DEF Next, Handle

LEMMA HeldStep == ASSUME TypeOK, HeldOnce, [Next]_vars PROVE HeldOnce'
<1>1. ASSUME NEW p \in AllPollers, PollerStep(p) PROVE HeldOnce'
  <2>1. KindOf(p) \in Kinds
    BY PollerKinds
  <2>2. CASE Fetch(p)
    BY <2>1, <2>2 DEF TypeOK, HeldOnce, Fetch, Kinds
  <2>3. CASE Poll(p) \/ Nothing(p) \/ Woken(p) \/ GiveUp(p)
    BY <2>3 DEF HeldOnce, Poll, Nothing, Woken, GiveUp, backend
  <2> QED
    BY <1>1, <2>2, <2>3 DEF PollerStep
<1>2. ASSUME NEW i \in Instances, ClientCall(i) \/ AlarmRings(i) \/ TimerDue(i) PROVE HeldOnce'
  BY <1>2 DEF TypeOK, HeldOnce, ClientCall, AlarmRings, TimerDue, Sends, backend, Kinds
<1>3. ASSUME NEW i \in Instances, CompleteWorkflowTask(i) PROVE HeldOnce'
  BY <1>3 DEF TypeOK, HeldOnce, CompleteWorkflowTask, Plain, Message, SetTimer, CancelTimer,
              Activity, Sends, Kinds
<1>4. ASSUME NEW i \in Instances, CompleteActivityTask(i) PROVE HeldOnce'
  BY <1>4 DEF TypeOK, HeldOnce, CompleteActivityTask, Sends, Kinds
<1>5. ASSUME NEW k \in Kinds, NEW i \in Instances, Drop(k, i) \/ LockExpires(k, i)
      PROVE  HeldOnce'
  BY <1>5 DEF TypeOK, HeldOnce, Drop, LockExpires, Kinds
<1>6. CASE Restart
  BY <1>6 DEF TypeOK, HeldOnce, Restart, Kinds
<1>7. CASE (\E k \in Kinds : Notify(k)) \/ UNCHANGED vars
  BY <1>7 DEF HeldOnce, Notify, backend, vars
<1> QED
  BY <1>1, <1>2, <1>3, <1>4, <1>5, <1>6, <1>7 DEF Next, Handle

\* A step that makes no task of kind k available and takes no cover away, or
\* one that covers them.
Keeps(k) == (Told(k)' \subseteq Told(k) /\ (Covered(k) => Covered(k)')) \/ Covered(k)'

\* A poller waits only when it finds nothing.
LEMMA PollersKeep ==
    ASSUME OneQueue, TypeOK, NEW p \in AllPollers, PollerStep(p), NEW k \in Kinds, WakeupPending
    PROVE  Told(k)' # {} => Covered(k)'
<1>1. KindOf(p) \in Kinds /\ p \in Pollers[KindOf(p)]
  BY PollerKinds
<1>2. \A l \in Kinds : \A q \in Pollers[l] : KindOf(q) = l /\ q \in AllPollers
  BY PollerKinds DEF Kinds
<1>3. CASE poller'[p] # "wait" /\ k = KindOf(p)
  BY <1>1, <1>3 DEF Covered
<1>4. CASE Nothing(p) /\ k = KindOf(p)
  <2>1. Ready(k) = {}
    BY <1>4 DEF Nothing, Fetchable, OneQueue, Ready
  <2> QED
    BY <1>4, <2>1 DEF Nothing, backend, Told, Ready
<1>5. CASE k # KindOf(p)
  <2>1. Told(k)' \subseteq Told(k)
    <3>1. CASE Fetch(p)
      BY <1>1, <1>5, <3>1 DEF Fetch, TypeOK, Told, Ready
    <3>2. CASE Poll(p) \/ Nothing(p) \/ Woken(p) \/ GiveUp(p)
      BY <3>2 DEF Poll, Nothing, Woken, GiveUp, backend, Told, Ready
    <3> QED
      BY <3>1, <3>2 DEF PollerStep
  <2>2. \A q \in Pollers[k] : poller'[q] = poller[q]
    BY <1>1, <1>2, <1>5 DEF PollerStep, Poll, Fetch, Nothing, Woken, GiveUp, Goes, TypeOK
  <2>3. signal'[k] = signal[k] /\ owing' = owing /\ alarms' = alarms /\ timer' = timer
    BY <1>1, <1>5 DEF PollerStep, Poll, Fetch, Nothing, Woken, GiveUp, backend, TypeOK
  <2> QED
    BY <2>1, <2>2, <2>3 DEF WakeupPending, Covered
<1>6. ~Nothing(p) => poller'[p] # "wait"
  BY DEF PollerStep, Poll, Fetch, Woken, GiveUp, Goes, TypeOK
<1> QED
  BY <1>3, <1>4, <1>5, <1>6

\* Whoever makes a task available has to tell, or has told, of it.
LEMMA CallsKeep ==
    ASSUME TypeOK, TimersAlarmed, HeldOnce, NEW i \in Instances, NEW k \in Kinds,
           \/ ClientCall(i) \/ AlarmRings(i) \/ TimerDue(i)
           \/ CompleteWorkflowTask(i) \/ CompleteActivityTask(i)
    PROVE  Keeps(k)
<1>1. CASE ClientCall(i)
  <2>1. CASE k = "workflow"
    BY <1>1, <2>1 DEF ClientCall, TypeOK, Keeps, Covered
  <2>2. CASE k = "activity"
    BY <1>1, <2>2 DEF ClientCall, Sends, TypeOK, Keeps, Covered, Told, Ready, Kinds
  <2> QED
    BY <2>1, <2>2 DEF Kinds
<1>2. CASE AlarmRings(i)
  <2>1. CASE k = "workflow"
    BY <1>2, <2>1 DEF AlarmRings, TypeOK, Keeps, Covered
  <2>2. CASE k = "activity"
    BY <1>2, <2>2 DEF AlarmRings, TypeOK, Keeps, Covered, Told, Ready, backend, Kinds
  <2> QED
    BY <2>1, <2>2 DEF Kinds
<1>3. CASE TimerDue(i)
  <2>1. CASE k = "workflow" /\ i \in alarms
    BY <1>3, <2>1 DEF TimerDue, TypeOK, Keeps, Covered
  <2>2. CASE k = "workflow" /\ i \notin alarms
    <3>1. i \in forgotten
      BY <1>3, <2>2 DEF TimerDue, TimersAlarmed
    <3>2. Told(k)' \subseteq Told(k)
      BY <1>3, <2>2, <3>1 DEF TimerDue, Silently, Told, Ready, TypeOK, Kinds
    <3>3. Covered(k) => Covered(k)'
      BY <1>3 DEF TimerDue, Covered, TypeOK
    <3> QED
      BY <3>2, <3>3 DEF Keeps
  <2>3. CASE k = "activity"
    <3>1. task'[k] = task[k] /\ lock' = lock
      BY <1>3, <2>3 DEF TimerDue, TypeOK, Kinds
    <3>2. untold \subseteq untold'
      BY <1>3 DEF TimerDue, Silently
    <3> QED
      BY <1>3, <2>3, <3>1, <3>2 DEF TimerDue, Keeps, Covered, Told, Ready
  <2> QED
    BY <2>1, <2>2, <2>3 DEF Kinds
<1>4. CASE CompleteWorkflowTask(i)
  <2>1. CASE k = "workflow"
    BY <1>4, <2>1 DEF CompleteWorkflowTask, TypeOK, Keeps, Covered
  <2>2. CASE k = "activity" /\ Activity(i) /\ owing' = [l \in Kinds |-> owing[l] + 1]
    BY <2>2 DEF TypeOK, Keeps, Covered
  <2>3. CASE k = "activity" /\ (Plain \/ Message(i) \/ SetTimer(i) \/ CancelTimer(i))
                            /\ owing' = [owing EXCEPT !["workflow"] = @ + 1]
    <3>1. task'[k] = task[k] /\ lock'[k] = lock[k]
      BY <1>4, <2>3 DEF CompleteWorkflowTask, Plain, Message, SetTimer, CancelTimer, Sends, TypeOK, Kinds
    <3>2. \A j \in Instances : <<k, j>> \in untold => <<k, j>> \in untold'
      BY <2>3 DEF Plain, Message, SetTimer, CancelTimer, Sends
    <3>3. Told(k)' \subseteq Told(k)
      BY <3>1, <3>2 DEF Told, Ready
    <3> QED
      BY <1>4, <2>3, <3>3 DEF CompleteWorkflowTask, Keeps, Covered, TypeOK, Kinds
  <2> QED
    BY <1>4, <2>1, <2>2, <2>3 DEF CompleteWorkflowTask, Kinds
<1>5. CASE CompleteActivityTask(i)
  <2>1. CASE k = "workflow"
    BY <1>5, <2>1 DEF CompleteActivityTask, TypeOK, Keeps, Covered
  <2>2. CASE k = "activity"
    <3>1. task'[k] = task[k] /\ ~task[k][i]
      BY <1>5, <2>2 DEF CompleteActivityTask, Sends, HeldOnce, TypeOK, Kinds
    <3>2. \A j \in Instances \ {i} : lock'[k][j] = lock[k][j]
      BY <1>5, <2>2 DEF CompleteActivityTask, TypeOK, Kinds
    <3>3. \A j \in Instances : <<k, j>> \in untold => <<k, j>> \in untold'
      BY <1>5, <2>2 DEF CompleteActivityTask, Sends
    <3>4. Told(k)' \subseteq Told(k)
      BY <3>1, <3>2, <3>3 DEF Told, Ready
    <3> QED
      BY <1>5, <2>2, <3>4 DEF CompleteActivityTask, Keeps, Covered, TypeOK, Kinds
  <2> QED
    BY <2>1, <2>2 DEF Kinds
<1> QED
  BY <1>1, <1>2, <1>3, <1>4, <1>5

\* Failed tasks, expired locks and restarts, and the notification itself.
LEMMA FaultsKeep ==
    ASSUME OneQueue, TypeOK, NEW k \in Kinds,
           \/ \E l \in Kinds : Notify(l)
           \/ \E l \in Kinds, i \in Instances : Drop(l, i) \/ LockExpires(l, i)
           \/ Restart \/ UNCHANGED vars
    PROVE  Keeps(k)
<1>1. ASSUME NEW l \in Kinds, Notify(l) PROVE Keeps(k)
  <2>1. CASE k = l
    BY <1>1, <2>1 DEF Notify, TypeOK, Keeps, Covered
  <2>2. CASE k # l
    BY <1>1, <2>2 DEF Notify, TypeOK, Keeps, Covered, Told, Ready, backend
  <2> QED
    BY <2>1, <2>2
<1>2. ASSUME NEW l \in Kinds, NEW i \in Instances, Drop(l, i) PROVE Keeps(k)
  <2>1. lock'[l][i] # "free"
    BY <1>2 DEF Drop, TypeOK
  <2>2. \A j \in Instances : k # l \/ j # i => lock'[k][j] = lock[k][j] /\ task'[k][j] = task[k][j]
    BY <1>2 DEF Drop, TypeOK
  <2>3. Told(k)' \subseteq Told(k)
    BY <1>2, <2>1, <2>2 DEF Drop, Told, Ready
  <2> QED
    BY <1>2, <2>3 DEF Drop, Keeps, Covered
<1>3. ASSUME NEW l \in Kinds, NEW i \in Instances, LockExpires(l, i) PROVE Keeps(k)
  <2>1. <<l, i>> \in untold' /\ untold \subseteq untold'
    BY <1>3 DEF LockExpires, Silently
  <2>2. \A j \in Instances : k # l \/ j # i => lock'[k][j] = lock[k][j]
    BY <1>3 DEF LockExpires, TypeOK
  <2>3. Told(k)' \subseteq Told(k)
    BY <1>3, <2>1, <2>2 DEF LockExpires, Told, Ready
  <2> QED
    BY <1>3, <2>3 DEF LockExpires, Keeps, Covered
<1>4. CASE Restart
  <2>1. PICK p \in Pollers[k] : TRUE
    BY DEF OneQueue
  <2>2. p \in AllPollers
    BY PollerKinds DEF Kinds
  <2> QED
    BY <1>4, <2>1, <2>2 DEF Restart, Keeps, Covered
<1>5. CASE UNCHANGED vars
  BY <1>5 DEF vars, Keeps, Covered, Told, Ready
<1> QED
  BY <1>1, <1>2, <1>3, <1>4, <1>5

LEMMA StepIInv == ASSUME OneQueue, IInv, [Next]_vars PROVE IInv'
<1>1. TypeOK' /\ TimersAlarmed' /\ HeldOnce'
  BY TypeStep, TimersStep, HeldStep DEF IInv
<1>2. ASSUME NEW k \in Kinds PROVE Told(k)' # {} => Covered(k)'
  <2>1. CASE \E p \in AllPollers : PollerStep(p)
    BY <2>1, PollersKeep DEF IInv
  <2>2. CASE ~\E p \in AllPollers : PollerStep(p)
    <3>1. Keeps(k)
      BY <2>2, CallsKeep, FaultsKeep DEF IInv, Next, Handle, Kinds
    <3> QED
      BY <3>1 DEF IInv, WakeupPending, Keeps
  <2> QED
    BY <2>1, <2>2
<1> QED
  BY <1>1, <1>2 DEF IInv, WakeupPending

(* A call commits and then notifies, a poller checks and then waits, and   *)
(* one signal may stand for many (notifyWorkflowWorker against             *)
(* GetWorkflowTask): as long as a task is there that somebody told of, a   *)
(* poller is on its way or will be woken.                                  *)
THEOREM WakeupsKept == ASSUME OneQueue PROVE Spec => []NoLostWakeup
<1>1. Init => IInv
  BY InitIInv
<1>2. IInv /\ [Next]_vars => IInv'
  BY StepIInv
<1>3. IInv => NoLostWakeup
  BY WakeupsForAll DEF IInv
<1> QED
  BY <1>1, <1>2, <1>3, PTL DEF Spec
=============================================================================
