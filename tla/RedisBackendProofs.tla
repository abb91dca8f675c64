------------------------- MODULE RedisBackendProofs -------------------------
(* Type correctness of the Redis backend, the fence of its histories and   *)
(* the agreement of its task queue with the pending events, for every      *)
(* number of workers, instances, executions and steps.                     *)
EXTENDS RedisBackend, SequenceTheorems, TLAPS

\* Executions belong to an instance id.
LEMMA ExecIds == \A x \in Exec : Id(x) \in Ids
BY RedisAssumption DEF Exec, Id

LEMMA EvType ==
    ASSUME NEW kind \in EventKinds, NEW n \in 0 .. MaxSteps
    PROVE  Ev(kind, n) \in Event
BY DEF Ev, Event

LEMMA FreeType == Free \in WorkerState
BY DEF Free, WorkerState

LEMMA NewInstanceType ==
    ASSUME NEW parent \in Exec \cup {NoExec}, NEW n \in 0 .. MaxSteps
    PROVE  NewInstance(parent, n) \in Instance
BY DEF NewInstance, Instance

\* One more event for some executions.
LEMMA AppendType ==
    ASSUME TypeOK, NEW x \in Exec, NEW ev \in Event
    PROVE  [pending EXCEPT ![x] = Append(@, ev)] \in [Exec -> Seq(Event)]
BY DEF TypeOK

\* What is added to the queue.
StreamEntry == [exec : Exec, entry : Nat, held : BOOLEAN, idle : BOOLEAN]

LEMMA AddTasksType ==
    ASSUME TypeOK, NEW X \in SUBSET Exec, NEW s \in SUBSET StreamEntry, NEW q \in SUBSET Exec,
           AddTasks(X, s, q)
    PROVE  /\ stream' \subseteq StreamEntry
           /\ queued' \subseteq Exec
           /\ entries' \in [Exec -> Nat]
<1>1. \A x \in Exec : entries[x] + 1 \in Nat
  BY DEF TypeOK
<1>2. \A x \in X \ q : [exec |-> x, entry |-> entries[x] + 1, held |-> FALSE, idle |-> FALSE]
                         \in StreamEntry
  BY <1>1 DEF StreamEntry
<1>3. stream' \subseteq StreamEntry
  BY <1>2 DEF AddTasks
<1>4. queued' \subseteq Exec /\ entries' \in [Exec -> Nat]
  BY <1>1 DEF AddTasks, TypeOK
<1> QED
  BY <1>3, <1>4

LEMMA EnqueueType ==
    ASSUME TypeOK, NEW x \in Exec, Enqueue(x)
    PROVE  /\ stream' \subseteq StreamEntry
           /\ queued' \subseteq Exec
           /\ entries' \in [Exec -> Nat]
BY AddTasksType DEF Enqueue, TypeOK, StreamEntry

\* A worker that is not free has a task.
Tasked == \A w \in Workers : worker[w].at # "free" => worker[w].task \in Exec \X Nat

LEMMA InitTypes == Init => TypeOK /\ Tasked
<1> SUFFICES ASSUME Init PROVE TypeOK /\ Tasked
  OBVIOUS
<1>1. MaxSteps \in Nat /\ 0 \in 0 .. MaxSteps
  BY RedisAssumption
<1> QED
  BY <1>1, FreeType DEF Init, TypeOK, Tasked, Free

\* The steps of clients.
LEMMA ClientTypes ==
    ASSUME TypeOK, Tasked, NEW x \in Exec,
           \/ CreateWorkflowInstance(x) \/ SignalReads(x) \/ CancelReads(x)
           \/ RemoveWorkflowInstance(x) \/ Expires(x)
    PROVE  TypeOK' /\ Tasked'
<1>0. MaxSteps \in Nat /\ Id(x) \in Ids
  BY RedisAssumption, ExecIds
<1>1. CASE CreateWorkflowInstance(x)
  <2>1. NewInstance(NoExec, 0) \in Instance /\ Ev("start", 0) \in Event
    BY <1>0, NewInstanceType, EvType DEF EventKinds
  <2>2. inst' \in [Exec -> Instance \cup {NoInst}] /\ active' \in [Ids -> Exec \cup {NoExec}]
    BY <1>0, <1>1, <2>1 DEF CreateWorkflowInstance, TypeOK
  <2>3. pending' \in [Exec -> Seq(Event)]
    BY <1>1, <2>1, AppendType DEF CreateWorkflowInstance
  <2>4. stream' \subseteq StreamEntry /\ queued' \subseteq Exec /\ entries' \in [Exec -> Nat]
    BY <1>1, EnqueueType DEF CreateWorkflowInstance
  <2> QED
    BY <1>1, <2>2, <2>3, <2>4 DEF CreateWorkflowInstance, TypeOK, Tasked, StreamEntry
<1>2. CASE SignalReads(x) \/ CancelReads(x)
  <2>1. steps' = steps + 1 /\ steps < MaxSteps
    BY <1>2 DEF SignalReads, CancelReads
  <2>2. client' \in Exec \X Event
    BY <1>0, <1>2, <2>1, EvType DEF SignalReads, CancelReads, TypeOK, EventKinds
  <2>3. steps' \in 0 .. MaxSteps
    BY <1>0, <2>1 DEF TypeOK
  <2>4. UNCHANGED <<instances, tasks, futures, activities, worker, holds>>
    BY <1>2 DEF SignalReads, CancelReads
  <2> QED
    BY <2>2, <2>3, <2>4 DEF TypeOK, Tasked, instances, tasks
<1>3. CASE RemoveWorkflowInstance(x) \/ Expires(x)
  <2>1. inst' \in [Exec -> Instance \cup {NoInst}]
    BY <1>3 DEF RemoveWorkflowInstance, Expires, TypeOK
  <2>2. pending' \in [Exec -> Seq(Event)]
    <3>1. pending' = [pending EXCEPT ![x] = <<>>] /\ <<>> \in Seq(Event)
      BY <1>3 DEF RemoveWorkflowInstance, Expires
    <3> QED
      BY <3>1 DEF TypeOK
  <2>3. history' \in [Exec -> Seq([seq : Nat, event : Event])]
    <3>1. <<>> \in Seq([seq : Nat, event : Event])
      OBVIOUS
    <3>2. history' = [history EXCEPT ![x] = <<>>]
      BY <1>3 DEF RemoveWorkflowInstance, Expires
    <3> QED
      BY <3>1, <3>2 DEF TypeOK
  <2>4. active' \in [Ids -> Exec \cup {NoExec}] /\ gone' \subseteq Exec
    BY <1>0, <1>3 DEF RemoveWorkflowInstance, Expires, TypeOK
  <2>5. UNCHANGED <<tasks, futures, activities, worker, holds, client, steps>>
    BY <1>3 DEF RemoveWorkflowInstance, Expires
  <2>6. trimmed' \in [Exec -> Nat]
    <3>1. trimmed' = [trimmed EXCEPT ![x] = @ + Len(pending[x])] /\ Len(pending[x]) \in Nat
      BY <1>3 DEF RemoveWorkflowInstance, Expires, TypeOK
    <3> QED
      BY <3>1 DEF TypeOK
  <2> QED
    BY <2>1, <2>2, <2>3, <2>4, <2>5, <2>6 DEF TypeOK, Tasked, tasks
<1> QED
  BY <1>1, <1>2, <1>3

\* A script that writes one event and queues its execution.
LEMMA WriteType ==
    ASSUME TypeOK, NEW x \in Exec, NEW ev \in Event, Enqueue(x),
           pending' = [pending EXCEPT ![x] = Append(@, ev)]
    PROVE  /\ pending' \in [Exec -> Seq(Event)]
           /\ stream' \subseteq StreamEntry
           /\ queued' \subseteq Exec
           /\ entries' \in [Exec -> Nat]
BY AppendType, EnqueueType

LEMMA ClientWritesType == TypeOK /\ Tasked /\ ClientWrites => TypeOK' /\ Tasked'
<1> SUFFICES ASSUME TypeOK, Tasked, ClientWrites PROVE TypeOK' /\ Tasked'
  OBVIOUS
<1>1. client[1] \in Exec /\ client[2] \in Event
  BY DEF ClientWrites, TypeOK
<1>2. /\ pending' \in [Exec -> Seq(Event)]
      /\ stream' \subseteq StreamEntry
      /\ queued' \subseteq Exec
      /\ entries' \in [Exec -> Nat]
  BY <1>1, WriteType DEF ClientWrites
<1>3. client' = NoTask /\ UNCHANGED <<inst, active, trimmed, history, gone, futures,
                                      activities, worker, holds, steps>>
  BY DEF ClientWrites
<1> QED
  BY <1>2, <1>3 DEF TypeOK, Tasked, StreamEntry

LEMMA FutureType ==
    ASSUME TypeOK, Tasked, NEW f \in futures, ScheduleFutureEvent(f)
    PROVE  TypeOK' /\ Tasked'
<1>0. MaxSteps \in Nat
  BY RedisAssumption
<1>1. f[1] \in Exec /\ f[2] \in 0 .. MaxSteps
  BY <1>0 DEF TypeOK
<1>2. Ev("timer", f[2]) \in Event
  BY <1>1, EvType DEF EventKinds
<1>3. /\ pending' \in [Exec -> Seq(Event)]
      /\ stream' \subseteq StreamEntry
      /\ queued' \subseteq Exec
      /\ entries' \in [Exec -> Nat]
  BY <1>1, <1>2, WriteType DEF ScheduleFutureEvent
<1> QED
  BY <1>3 DEF ScheduleFutureEvent, TypeOK, Tasked, StreamEntry

\* The steps that claim or extend an entry of the stream.
LEMMA ClaimTypes ==
    ASSUME TypeOK, Tasked, NEW w \in Workers, NEW e \in stream,
           Dequeue(w, e) \/ ExtendWorkflowTask(w)
    PROVE  TypeOK' /\ Tasked'
<1>1. CASE Dequeue(w, e)
  <2>1. e.exec \in Exec /\ e.entry \in Nat
    BY DEF TypeOK
  <2>2. [e EXCEPT !.held = TRUE, !.idle = FALSE] \in StreamEntry
    BY DEF TypeOK, StreamEntry
  <2>3. stream' \subseteq StreamEntry
    BY <1>1, <2>2 DEF Dequeue, TypeOK, StreamEntry
  <2>4. worker' \in [Workers -> WorkerState]
    <3>1. worker' = [worker EXCEPT ![w] = [@ EXCEPT !.at = "dequeued",
                                                    !.task = <<e.exec, e.entry>>]]
      BY <1>1 DEF Dequeue, TypeOK
    <3>2. [worker[w] EXCEPT !.at = "dequeued", !.task = <<e.exec, e.entry>>] \in WorkerState
      <4>1. worker[w] \in WorkerState /\ <<e.exec, e.entry>> \in (Exec \X Nat) \cup {NoTask}
        BY <2>1 DEF TypeOK
      <4> QED
        BY <4>1 DEF WorkerState
    <3> QED
      BY <3>1, <3>2 DEF TypeOK
  <2>5. Tasked'
    BY <1>1, <2>1 DEF Dequeue, TypeOK, Tasked
  <2> QED
    BY <1>1, <2>3, <2>4, <2>5 DEF Dequeue, TypeOK, StreamEntry, instances
<1>2. CASE ExtendWorkflowTask(w)
  <2>1. PICK d \in stream : stream' = (stream \ {d}) \cup {[d EXCEPT !.idle = FALSE]}
    BY <1>2 DEF ExtendWorkflowTask
  <2>2. [d EXCEPT !.idle = FALSE] \in StreamEntry
    BY DEF TypeOK, StreamEntry
  <2>3. stream' \subseteq StreamEntry
    BY <2>1, <2>2 DEF TypeOK, StreamEntry
  <2> QED
    BY <1>2, <2>3 DEF ExtendWorkflowTask, TypeOK, Tasked, StreamEntry, instances
<1> QED
  BY <1>1, <1>2

\* The steps of a worker that write nothing.
LEMMA ReadTypes ==
    ASSUME TypeOK, Tasked, NEW w \in Workers,
           ReadInstance(w) \/ ReadPending(w) \/ Fail(w)
    PROVE  TypeOK' /\ Tasked'
<1>1. worker[w].at # "free" /\ worker[w].task \in Exec \X Nat
  BY DEF ReadInstance, ReadPending, Fail, Tasked
<1>2. worker[w] \in WorkerState /\ worker[w].task[1] \in Exec
  BY <1>1 DEF TypeOK
<1>3. CASE ReadInstance(w)
  <2> DEFINE x == worker[w].task[1]
  <2>1. inst[x] # NoInst =>
          [worker[w] EXCEPT !.at = "known", !.state = inst[x].state, !.last = inst[x].last]
            \in WorkerState
    BY <1>2 DEF TypeOK, Instance, WorkerState
  <2>2. worker' \in [Workers -> WorkerState]
    BY <1>3, <2>1, FreeType DEF ReadInstance, TypeOK
  <2>3. Tasked'
    BY <1>1, <1>2, <1>3 DEF ReadInstance, TypeOK, Tasked, Free, WorkerState
  <2> QED
    BY <1>3, <2>2, <2>3 DEF ReadInstance, TypeOK, instances, tasks
<1>4. CASE ReadPending(w)
  <2> DEFINE x == worker[w].task[1]
  <2>1. [worker[w] EXCEPT !.at = "executing", !.events = pending[x],
                          !.upto = trimmed[x] + Len(pending[x])] \in WorkerState
    <3>1. pending[x] \in Seq(Event) /\ trimmed[x] + Len(pending[x]) \in Nat
      BY <1>2 DEF TypeOK
    <3> HIDE DEF x
    <3> QED
      BY <1>2, <3>1 DEF WorkerState
  <2>2. worker' \in [Workers -> WorkerState]
    BY <1>4, <2>1, FreeType DEF ReadPending, TypeOK
  <2>3. Tasked'
    BY <1>1, <1>2, <1>4 DEF ReadPending, TypeOK, Tasked, Free, WorkerState
  <2> QED
    BY <1>4, <2>2, <2>3 DEF ReadPending, TypeOK, instances, tasks
<1>5. CASE Fail(w)
  <2>1. worker' \in [Workers -> WorkerState] /\ Tasked'
    BY <1>5, FreeType DEF Fail, TypeOK, Tasked, Free
  <2> QED
    BY <1>5, <2>1 DEF Fail, TypeOK, instances, tasks
<1> QED
  BY <1>3, <1>4, <1>5

\* The steps of activity tasks.
ActivityEntry == [exec : Exec, n : 1 .. MaxSteps, held : BOOLEAN, idle : BOOLEAN]

LEMMA ActivityClaimTypes ==
    ASSUME TypeOK, Tasked, NEW w \in Workers, NEW a \in activities, DequeueActivity(w, a)
    PROVE  TypeOK' /\ Tasked'
<1>1. /\ [a EXCEPT !.held = TRUE, !.idle = FALSE] \in ActivityEntry
      /\ a.exec \in Exec /\ a.n \in 1 .. MaxSteps
  BY DEF TypeOK, ActivityEntry
<1>2. activities' \subseteq ActivityEntry
  BY <1>1 DEF DequeueActivity, TypeOK, ActivityEntry
<1>3. holds' \in [Workers -> (Exec \X (1 .. MaxSteps) \X {"executing", "known"}) \cup {NoTask}]
  BY <1>1 DEF DequeueActivity, TypeOK
<1> QED
  BY <1>2, <1>3 DEF DequeueActivity, TypeOK, Tasked, ActivityEntry,
                    instances, tasks

LEMMA ActivityTypes ==
    ASSUME TypeOK, Tasked, NEW w \in Workers,
           ExtendActivityTask(w) \/ ReadActivityInstance(w) \/ CompleteActivityTask(w)
    PROVE  TypeOK' /\ Tasked'
<1>0. MaxSteps \in Nat
  BY RedisAssumption
<1>1. CASE ExtendActivityTask(w)
  <2>1. PICK a \in activities : activities' = (activities \ {a}) \cup {[a EXCEPT !.idle = FALSE]}
    BY <1>1 DEF ExtendActivityTask
  <2>2. [a EXCEPT !.idle = FALSE] \in ActivityEntry
    BY DEF TypeOK, ActivityEntry
  <2>3. activities' \subseteq ActivityEntry
    BY <2>1, <2>2 DEF TypeOK, ActivityEntry
  <2> QED
    BY <1>1, <2>3 DEF ExtendActivityTask, TypeOK, Tasked, ActivityEntry, instances, tasks
<1>2. CASE ReadActivityInstance(w)
  <2>1. holds[w][1] \in Exec /\ holds[w][2] \in 1 .. MaxSteps
    BY <1>2 DEF ReadActivityInstance, TypeOK
  <2>2. holds' \in [Workers -> (Exec \X (1 .. MaxSteps) \X {"executing", "known"})
                                \cup {NoTask}]
    BY <1>2, <2>1 DEF ReadActivityInstance, TypeOK
  <2> QED
    BY <1>2, <2>2 DEF ReadActivityInstance, TypeOK, Tasked, instances, tasks
<1>3. CASE CompleteActivityTask(w)
  <2>1. holds[w][1] \in Exec /\ holds[w][2] \in 0 .. MaxSteps
    BY <1>0, <1>3 DEF CompleteActivityTask, TypeOK
  <2>2. Ev("result", holds[w][2]) \in Event
    BY <2>1, EvType DEF EventKinds
  <2>3. /\ pending' \in [Exec -> Seq(Event)]
        /\ stream' \subseteq StreamEntry
        /\ queued' \subseteq Exec
        /\ entries' \in [Exec -> Nat]
    <3>1. CASE StillQueued(w)
      BY <1>3, <2>1, <2>2, <3>1, WriteType DEF CompleteActivityTask
    <3>2. CASE ~StillQueued(w)
      BY <1>3, <3>2 DEF CompleteActivityTask, TypeOK, StreamEntry, tasks
    <3> QED
      BY <3>1, <3>2
  <2>4. activities' \subseteq activities
    BY <1>3 DEF CompleteActivityTask
  <2>5. holds' \in [Workers -> (Exec \X (1 .. MaxSteps) \X {"executing", "known"})
                                \cup {NoTask}]
    BY <1>3 DEF CompleteActivityTask, TypeOK
  <2>6. UNCHANGED <<inst, active, trimmed, history, gone, futures, worker, client, steps>>
    BY <1>3 DEF CompleteActivityTask
  <2> QED
    BY <2>3, <2>4, <2>5, <2>6 DEF TypeOK, Tasked, StreamEntry
<1> QED
  BY <1>1, <1>2, <1>3

\* The pending events that a completion leaves, and those it makes history.
LEMMA ReadType ==
    ASSUME TypeOK, NEW w \in Workers, worker[w].task[1] \in Exec
    PROVE  Read(w) \in Nat
<1>1. worker[w].upto \in Nat /\ trimmed[worker[w].task[1]] \in Nat
  BY DEF TypeOK, WorkerState
<1> QED
  BY <1>1 DEF Read

LEMMA TrimType ==
    ASSUME TypeOK, NEW w \in Workers, worker[w].task[1] \in Exec
    PROVE  AfterTrim(w) \in Seq(Event)
<1> DEFINE s == pending[worker[w].task[1]]
<1>1. s \in Seq(Event) /\ Len(s) \in Int
  BY DEF TypeOK
<1>2. Read(w) + 1 \in Int /\ Read(w) + 1 >= 1
  BY ReadType
<1> HIDE DEF s
<1>3. \A i \in Read(w) + 1 .. Len(s) : s[i] \in Event
  BY <1>1, <1>2
<1>4. SubSeq(s, Read(w) + 1, Len(s)) \in Seq(Event)
  BY <1>1, <1>2, <1>3, SubSeqProperties
<1> QED
  BY <1>4 DEF AfterTrim, s

LEMMA ExecutedType ==
    ASSUME NEW w \in Workers, worker[w] \in WorkerState
    PROVE  /\ Executed(w) \in Seq([seq : Nat, event : Event])
           /\ Len(Executed(w)) = Len(worker[w].events)
           /\ \A i \in DOMAIN worker[w].events : Executed(w)[i].seq = worker[w].last + i
<1>1. worker[w].events \in Seq(Event) /\ worker[w].last \in Nat
  BY DEF WorkerState
<1> DEFINE l == Len(worker[w].events)
<1>2. l \in Nat /\ DOMAIN worker[w].events = 1 .. l
  BY <1>1
<1>3. \A i \in 1 .. l : [seq |-> worker[w].last + i, event |-> worker[w].events[i]]
                          \in [seq : Nat, event : Event]
  BY <1>1
<1>4. Executed(w) \in [1 .. l -> [seq : Nat, event : Event]]
  BY <1>2, <1>3 DEF Executed
<1> QED
  BY <1>2, <1>4 DEF Executed

\* What a completion works on.
LEMMA CompleteReads ==
    ASSUME TypeOK, Tasked, NEW w \in Workers, NEW outcome, NEW y, NEW t,
           CompleteWorkflowTask(w, outcome, y, t)
    PROVE  LET x == worker[w].task[1] IN
           /\ x \in Exec /\ Id(x) \in Ids
           /\ worker[w] \in WorkerState /\ inst[x] \in Instance
<1>1. worker[w].task \in Exec \X Nat
  BY DEF CompleteWorkflowTask, Tasked
<1>2. inst[worker[w].task[1]] # NoInst
  BY DEF CompleteWorkflowTask
<1> QED
  BY <1>1, <1>2, ExecIds DEF TypeOK

\* The execution that a completion starts is another one, and not used before.
LEMMA StartsOther ==
    ASSUME NEW w \in Workers, NEW outcome, NEW y, NEW t,
           CompleteWorkflowTask(w, outcome, y, t), y # NoExec
    PROVE  y # worker[w].task[1] /\ inst[y] = NoInst /\ y \notin gone
<1> DEFINE x == worker[w].task[1]
<1>1. y \in Starts(x, outcome) /\ inst[x] # NoInst
  BY DEF CompleteWorkflowTask
<1>2. outcome \in {"continue", "sub"}
  BY <1>1 DEF Starts
<1>3. Fresh(y)
  BY <1>1, <1>2 DEF Starts
<1> QED
  BY <1>1, <1>3 DEF Fresh

\* The instances after a completion: the one of the task and the one it starts.
LEMMA CompleteInst ==
    ASSUME TypeOK, Tasked, NEW w \in Workers, NEW outcome, NEW y \in Exec \cup {NoExec},
           NEW t, CompleteWorkflowTask(w, outcome, y, t)
    PROVE  LET x == worker[w].task[1] IN
           /\ inst' \in [Exec -> Instance \cup {NoInst}]
           /\ inst'[x] \in Instance
           /\ inst'[x].last = IF outcome = "discard" THEN inst[x].last
                             ELSE worker[w].last + Len(worker[w].events)
           /\ \A z \in Exec \ {x} :
                \/ inst'[z] = inst[z]
                \/ /\ z = y /\ inst[z] = NoInst /\ z \notin gone
                   /\ inst'[z] \in Instance /\ inst'[z].last = 0
<1> DEFINE x       == worker[w].task[1]
           closed  == outcome \in {"finish", "continue", "discard"}
           n       == steps + 1
           cleared == IF closed THEN [active EXCEPT ![Id(x)] = NoExec] ELSE active
           clash   == y # NoExec /\ cleared[Id(y)] # NoExec
           makes   == y # NoExec /\ ~clash
           ended   == [inst[x] EXCEPT !.state = "Finished"]
           moved   == [inst[x] EXCEPT !.state = StateAfter(outcome),
                                      !.last = worker[w].last + Len(worker[w].events)]
           new     == IF outcome = "sub" THEN NewInstance(x, n)
                      ELSE NewInstance(inst[x].parent, inst[x].n)
<1>1. x \in Exec /\ worker[w] \in WorkerState /\ inst[x] \in Instance
  BY CompleteReads
<1>2. ended \in Instance /\ ended.last = inst[x].last
  BY <1>1 DEF Instance
<1>3. moved \in Instance /\ moved.last = worker[w].last + Len(worker[w].events)
  <2>1. worker[w].last + Len(worker[w].events) \in Nat
    BY <1>1 DEF WorkerState
  <2>2. StateAfter(outcome) \in {"Active", "ContinuedAsNew", "Finished"}
    BY DEF StateAfter
  <2> QED
    BY <1>1, <2>1, <2>2 DEF Instance
<1>4. new \in Instance /\ new.last = 0
  <2>1. CASE outcome = "sub"
    <3>1. n \in 0 .. MaxSteps
      <4>1. steps < MaxSteps
        BY <2>1 DEF CompleteWorkflowTask
      <4> QED
        BY <4>1, RedisAssumption DEF TypeOK
    <3> HIDE DEF x, n
    <3>2. NewInstance(x, n) \in Instance /\ NewInstance(x, n).last = 0
      BY <1>1, <3>1, NewInstanceType DEF NewInstance
    <3> QED
      BY <2>1, <3>2
  <2>2. CASE outcome # "sub"
    <3>1. inst[x].parent \in Exec \cup {NoExec} /\ inst[x].n \in 0 .. MaxSteps
      BY <1>1 DEF Instance
    <3> HIDE DEF x
    <3>2. /\ NewInstance(inst[x].parent, inst[x].n) \in Instance
          /\ NewInstance(inst[x].parent, inst[x].n).last = 0
      BY <3>1, NewInstanceType DEF NewInstance
    <3> QED
      BY <2>2, <3>2
  <2> QED
    BY <2>1, <2>2
<1>5. makes => y # x /\ inst[y] = NoInst /\ y \notin gone
  BY StartsOther
<1>6. inst' = [z \in Exec |->
                 CASE z = x /\ outcome = "discard" -> ended
                   [] z = x /\ outcome # "discard" -> moved
                   [] makes /\ z = y -> new
                   [] OTHER -> inst[z]]
  BY DEF CompleteWorkflowTask
<1> HIDE DEF x, makes, ended, moved, new
<1>7. inst'[x] = IF outcome = "discard" THEN ended ELSE moved
  <2>1. x \in Exec /\ ~(makes /\ x = y)
    BY <1>1, <1>5
  <2>2. CASE outcome = "discard"
    BY <1>6, <2>1, <2>2
  <2>3. CASE outcome # "discard"
    BY <1>6, <2>1, <2>3
  <2> QED
    BY <2>2, <2>3
<1>8. \A z \in Exec \ {x} : inst'[z] = IF makes /\ z = y THEN new ELSE inst[z]
  BY <1>6
<1>9. \A z \in Exec : inst'[z] \in Instance \cup {NoInst}
  BY <1>2, <1>3, <1>4, <1>7, <1>8 DEF TypeOK
<1>10. inst' \in [Exec -> Instance \cup {NoInst}]
  BY <1>6, <1>9
<1>11. \A z \in Exec \ {x} :
         \/ inst'[z] = inst[z]
         \/ /\ z = y /\ inst[z] = NoInst /\ z \notin gone
            /\ inst'[z] \in Instance /\ inst'[z].last = 0
  BY <1>4, <1>5, <1>8
<1> QED
  BY <1>2, <1>3, <1>7, <1>10, <1>11 DEF x

LEMMA CompletedState ==
    ASSUME TypeOK, Tasked, NEW w \in Workers, NEW y \in Exec \cup {NoExec}, NEW t,
           CompleteWorkflowTask(w, "discard", y, t)
    PROVE  inst'[worker[w].task[1]].state = "Finished"
<1> DEFINE x == worker[w].task[1]
<1>1. x \in Exec /\ inst[x] \in Instance
  BY CompleteReads
<1>2. y = NoExec
  BY DEF CompleteWorkflowTask, Starts
<1>3. inst'[x] = [inst[x] EXCEPT !.state = "Finished"]
  BY <1>1, <1>2 DEF CompleteWorkflowTask
<1> QED
  BY <1>1, <1>3 DEF Instance

LEMMA CompleteTypes ==
    ASSUME TypeOK, Tasked, NEW w \in Workers, NEW outcome, NEW y \in Exec \cup {NoExec},
           NEW t, CompleteWorkflowTask(w, outcome, y, t)
    PROVE  TypeOK' /\ Tasked'
<1> DEFINE x       == worker[w].task[1]
           closed  == outcome \in {"finish", "continue", "discard"}
           n       == steps + 1
           to      == Told(x, outcome)
           cleared == IF closed THEN [active EXCEPT ![Id(x)] = NoExec] ELSE active
           clash   == y # NoExec /\ cleared[Id(y)] # NoExec
           makes   == y # NoExec /\ ~clash
           events  == AfterTrim(w)
                      \o (IF clash THEN <<Ev("conflict", IF outcome = "sub" THEN n ELSE 0)>>
                          ELSE <<>>)
           others  == {z \in Exec : (makes /\ z = y) \/ z = to}
           entry   == {e \in stream : IsEntry(e, worker[w].task)}
           left    == IF entry = {} THEN queued ELSE queued \ {x}
<1>1. /\ x \in Exec /\ Id(x) \in Ids
      /\ worker[w] \in WorkerState /\ inst[x] \in Instance
  BY CompleteReads
<1>2. MaxSteps \in Nat /\ steps \in 0 .. MaxSteps
  BY RedisAssumption DEF TypeOK
<1>3. outcome \in {"activity", "timer", "sub"} => n \in 1 .. MaxSteps
  <2>1. outcome \in {"activity", "timer", "sub"} => steps < MaxSteps
    BY DEF CompleteWorkflowTask
  <2> QED
    BY <1>2, <2>1
<1>4. steps' \in 0 .. MaxSteps
  <2>1. steps' = IF outcome \in {"activity", "timer", "sub"} THEN n ELSE steps
    BY DEF CompleteWorkflowTask
  <2> HIDE DEF n
  <2> QED
    BY <1>2, <1>3, <2>1
<1>5. history' \in [Exec -> Seq([seq : Nat, event : Event])]
  <2>1. history[x] \o Executed(w) \in Seq([seq : Nat, event : Event])
    <3>1. history[x] \in Seq([seq : Nat, event : Event])
      BY <1>1 DEF TypeOK
    <3>2. Executed(w) \in Seq([seq : Nat, event : Event])
      BY <1>1, ExecutedType
    <3> HIDE DEF x
    <3> QED
      BY <3>1, <3>2
  <2>2. history' = IF outcome = "discard" THEN history
                   ELSE [history EXCEPT ![x] = @ \o Executed(w)]
    BY DEF CompleteWorkflowTask
  <2> QED
    BY <2>1, <2>2 DEF TypeOK
<1>6. inst' \in [Exec -> Instance \cup {NoInst}]
  BY CompleteInst
<1>7. active' \in [Ids -> Exec \cup {NoExec}]
  <2>1. cleared \in [Ids -> Exec \cup {NoExec}]
    BY DEF TypeOK
  <2>2. active' = IF makes THEN [cleared EXCEPT ![Id(y)] = y] ELSE cleared
    BY DEF CompleteWorkflowTask
  <2> HIDE DEF cleared, makes
  <2> QED
    BY <2>1, <2>2
<1>8. events \in Seq(Event)
  <2>1. AfterTrim(w) \in Seq(Event)
    BY <1>1, TrimType
  <2>2. Ev("conflict", IF outcome = "sub" THEN n ELSE 0) \in Event
    <3>1. (IF outcome = "sub" THEN n ELSE 0) \in 0 .. MaxSteps
      BY <1>2, <1>3
    <3> QED
      BY <3>1, EvType DEF EventKinds
  <2> QED
    BY <2>1, <2>2
<1>9. pending' \in [Exec -> Seq(Event)]
  <2>1. Ev("start", 0) \in Event /\ Ev("child", inst[x].n) \in Event
    BY <1>1, <1>2, EvType DEF EventKinds, Instance
  <2>2. pending' = [z \in Exec |->
                     IF z = x THEN events
                     ELSE IF makes /\ z = y THEN Append(pending[z], Ev("start", 0))
                     ELSE IF z = to THEN Append(pending[z], Ev("child", inst[x].n))
                     ELSE pending[z]]
    BY DEF CompleteWorkflowTask
  <2>3. \A z \in Exec : /\ Append(pending[z], Ev("start", 0)) \in Seq(Event)
                         /\ Append(pending[z], Ev("child", inst[x].n)) \in Seq(Event)
                         /\ pending[z] \in Seq(Event)
    BY <2>1 DEF TypeOK
  <2> HIDE DEF x, events, makes, to
  <2> QED
    BY <1>8, <2>2, <2>3
<1>10. futures' \subseteq Exec \X (1 .. MaxSteps)
  <2>1. futures' = (futures \ {<<x, t>>}) \cup (IF outcome = "timer" THEN {<<x, n>>} ELSE {})
    BY DEF CompleteWorkflowTask
  <2>2. outcome = "timer" => <<x, n>> \in Exec \X (1 .. MaxSteps)
    BY <1>1, <1>3
  <2> HIDE DEF x, n
  <2> QED
    BY <2>1, <2>2 DEF TypeOK
<1>11. activities' \subseteq ActivityEntry
  <2>1. outcome = "activity" =>
          [exec |-> x, n |-> n, held |-> FALSE, idle |-> FALSE] \in ActivityEntry
    BY <1>1, <1>3 DEF ActivityEntry
  <2>2. activities' = activities \cup
          (IF outcome = "activity"
           THEN {[exec |-> x, n |-> n, held |-> FALSE, idle |-> FALSE]} ELSE {})
    BY DEF CompleteWorkflowTask
  <2> HIDE DEF x, n
  <2> QED
    BY <2>1, <2>2 DEF TypeOK, ActivityEntry
<1>12. stream' \subseteq StreamEntry /\ queued' \subseteq Exec /\ entries' \in [Exec -> Nat]
  <2>1. AddTasks(others \cup Requeued(x, events), stream \ entry, left)
    BY DEF CompleteWorkflowTask
  <2>2. others \cup Requeued(x, events) \in SUBSET Exec
    BY <1>1 DEF Requeued
  <2>3. stream \ entry \in SUBSET StreamEntry /\ left \in SUBSET Exec
    BY DEF TypeOK, StreamEntry
  <2> HIDE DEF x, events, others, entry, left
  <2> QED
    BY <2>1, <2>2, <2>3, AddTasksType
<1>13. trimmed' \in [Exec -> Nat]
  <2>1. trimmed' = [trimmed EXCEPT ![x] = @ + Read(w)]
    BY DEF CompleteWorkflowTask
  <2>2. x \in Exec /\ Read(w) \in Nat
    BY <1>1, ReadType
  <2> HIDE DEF x
  <2> QED
    BY <2>1, <2>2 DEF TypeOK
<1>14. worker' = [worker EXCEPT ![w] = Free] /\ UNCHANGED <<holds, client, gone>>
  BY DEF CompleteWorkflowTask
<1>15. worker' \in [Workers -> WorkerState] /\ Tasked'
  BY <1>14, FreeType DEF TypeOK, Tasked, Free
<1> HIDE DEF x, n
<1> QED
  BY <1>4, <1>5, <1>6, <1>7, <1>9, <1>10, <1>11, <1>12, <1>13,
     <1>14, <1>15 DEF TypeOK, StreamEntry, ActivityEntry

LEMMA TypeStep == TypeOK /\ Tasked /\ [Next]_vars => TypeOK' /\ Tasked'
<1> SUFFICES ASSUME TypeOK, Tasked, [Next]_vars PROVE TypeOK' /\ Tasked'
  OBVIOUS
<1>1. ASSUME NEW x \in Exec,
             \/ CreateWorkflowInstance(x) \/ SignalReads(x) \/ CancelReads(x)
             \/ RemoveWorkflowInstance(x) \/ Expires(x)
      PROVE  TypeOK' /\ Tasked'
  BY <1>1, ClientTypes
<1>2. CASE ClientWrites
  BY <1>2, ClientWritesType
<1>3. ASSUME NEW f \in futures, ScheduleFutureEvent(f) PROVE TypeOK' /\ Tasked'
  BY <1>3, FutureType
<1>4. ASSUME NEW e \in stream, LockExpires(e) PROVE TypeOK' /\ Tasked'
  <2>1. stream' \subseteq StreamEntry
    BY <1>4 DEF LockExpires, TypeOK, StreamEntry
  <2> QED
    BY <1>4, <2>1 DEF LockExpires, TypeOK, Tasked, StreamEntry, instances
<1>5. ASSUME NEW e \in stream, NEW w \in Workers, Dequeue(w, e) PROVE TypeOK' /\ Tasked'
  BY <1>5, ClaimTypes
<1>6. ASSUME NEW w \in Workers, ReadInstance(w) \/ ReadPending(w) \/ Fail(w)
      PROVE  TypeOK' /\ Tasked'
  BY <1>6, ReadTypes
<1>7. ASSUME NEW w \in Workers, ExtendWorkflowTask(w) PROVE TypeOK' /\ Tasked'
  <2>1. PICK e \in stream : TRUE
    BY <1>7 DEF ExtendWorkflowTask
  <2> QED
    BY <1>7, <2>1, ClaimTypes
<1>8. ASSUME NEW w \in Workers, NEW outcome \in Commands \cup {"discard"},
             NEW y \in Exec \cup {NoExec}, NEW t \in {0} \cup {f[2] : f \in futures},
             CompleteWorkflowTask(w, outcome, y, t)
      PROVE  TypeOK' /\ Tasked'
  BY <1>8, CompleteTypes
<1>9. ASSUME NEW w \in Workers,
             ReadActivityInstance(w) \/ CompleteActivityTask(w) \/ ExtendActivityTask(w)
      PROVE  TypeOK' /\ Tasked'
  BY <1>9, ActivityTypes
<1>10. ASSUME NEW w \in Workers, NEW a \in activities, DequeueActivity(w, a)
       PROVE  TypeOK' /\ Tasked'
  BY <1>10, ActivityClaimTypes
<1>11. ASSUME NEW a \in activities, ActivityLockExpires(a) PROVE TypeOK' /\ Tasked'
  <2>1. activities' \subseteq ActivityEntry
    BY <1>11 DEF ActivityLockExpires, TypeOK, ActivityEntry
  <2> QED
    BY <1>11, <2>1 DEF ActivityLockExpires, TypeOK, Tasked, ActivityEntry, instances, tasks
<1>12. CASE UNCHANGED vars
  BY <1>12 DEF vars, TypeOK, Tasked
<1> QED
  BY <1>1, <1>2, <1>3, <1>4, <1>5, <1>6, <1>7, <1>8, <1>9, <1>10, <1>11, <1>12 DEF Next

(***************************************************************************)
(* Every operation keeps the keys, the queues and the workers well typed   *)
(* (backend/redis and its scripts).                                        *)
(***************************************************************************)
THEOREM TypeCorrect == Spec => []TypeOK
<1>1. TypeOK /\ Tasked /\ [Next]_vars => TypeOK' /\ Tasked'
  BY TypeStep
<1> QED
  BY InitTypes, <1>1, PTL DEF Spec
-----------------------------------------------------------------------------
(* The fence of the histories.                                             *)

\* An execution without an instance has no history.
Blank == \A x \in Exec : inst[x] = NoInst => history[x] = <<>>

\* What a worker has read of the instance is not newer than the instance, and
\* an instance that is gone does not come back.
Behind ==
    \A w \in Workers : worker[w].at \in {"known", "executing"} =>
      LET x == worker[w].task[1] IN
      IF inst[x] = NoInst THEN x \in gone ELSE worker[w].last <= inst[x].last

FenceInv == HistoryFenced /\ Blank /\ Behind

LEMMA FenceInit == Init => FenceInv
BY DEF Init, FenceInv, HistoryFenced, Blank, Behind, Free

\* Steps that leave instances and histories alone and let no worker read.
LEMMA FenceKept ==
    ASSUME FenceInv, UNCHANGED <<inst, history, gone>>,
           \A w \in Workers : \/ worker'[w] = worker[w]
                              \/ worker'[w].at \notin {"known", "executing"}
    PROVE  FenceInv'
BY DEF FenceInv, HistoryFenced, Blank, Behind

LEMMA FenceCreate ==
    ASSUME TypeOK, FenceInv, NEW x \in Exec, CreateWorkflowInstance(x)
    PROVE  FenceInv'
<1> DEFINE new == NewInstance(NoExec, 0)
<1>1. /\ inst' = [inst EXCEPT ![x] = new]
      /\ UNCHANGED <<history, worker, gone>>
      /\ inst[x] = NoInst /\ x \notin gone
  BY DEF CreateWorkflowInstance, Fresh
<1>2. new \in Instance /\ new.last = 0
  BY RedisAssumption, NewInstanceType DEF NewInstance
<1>3. new # NoInst /\ history[x] = <<>>
  BY <1>1, <1>2, NoInstAssumption DEF FenceInv, Blank
<1> HIDE DEF new
<1>4. HistoryFenced'
  BY <1>1, <1>2, <1>3 DEF TypeOK, FenceInv, HistoryFenced
<1>5. Blank'
  BY <1>1, <1>3 DEF TypeOK, FenceInv, Blank
<1>6. Behind'
  BY <1>1, <1>3 DEF TypeOK, FenceInv, Behind
<1> QED
  BY <1>4, <1>5, <1>6 DEF FenceInv

LEMMA FenceRemove ==
    ASSUME TypeOK, FenceInv, NEW x \in Exec, RemoveWorkflowInstance(x) \/ Expires(x)
    PROVE  FenceInv'
<1>1. /\ inst' = [inst EXCEPT ![x] = NoInst]
      /\ history' = [history EXCEPT ![x] = <<>>]
      /\ gone' = gone \cup {x} /\ UNCHANGED worker
  BY DEF RemoveWorkflowInstance, Expires
<1>2. HistoryFenced' /\ Blank'
  BY <1>1 DEF TypeOK, FenceInv, HistoryFenced, Blank
<1>3. Behind'
  BY <1>1 DEF TypeOK, FenceInv, Behind
<1> QED
  BY <1>2, <1>3 DEF FenceInv

LEMMA FenceRead ==
    ASSUME TypeOK, Tasked, FenceInv, NEW w \in Workers, ReadInstance(w) \/ ReadPending(w)
    PROVE  FenceInv'
<1>1. UNCHANGED <<inst, history, gone>>
  BY DEF ReadInstance, ReadPending, instances
<1>2. ASSUME NEW v \in Workers, worker'[v].at \in {"known", "executing"}
      PROVE  LET x == worker'[v].task[1] IN
             IF inst[x] = NoInst THEN x \in gone ELSE worker'[v].last <= inst[x].last
  <2>1. CASE worker'[v] = worker[v]
    BY <1>2, <2>1 DEF FenceInv, Behind
  <2>2. CASE v = w /\ ReadInstance(w)
    <3> DEFINE x == worker[w].task[1]
    <3>1. inst[x] # NoInst
      BY <1>2, <2>2 DEF ReadInstance, TypeOK, Free
    <3>2. worker'[w].task = worker[w].task /\ worker'[w].last = inst[x].last
      BY <2>2, <3>1 DEF ReadInstance, TypeOK, WorkerState
    <3>3. x \in Exec
      BY <2>2 DEF ReadInstance, Tasked
    <3>4. inst[x].last \in Nat
      BY <3>1, <3>3 DEF TypeOK, Instance
    <3> QED
      BY <2>2, <3>1, <3>2, <3>4
  <2>3. CASE v = w /\ ReadPending(w)
    <3>1. /\ worker'[w].task = worker[w].task /\ worker'[w].last = worker[w].last
          /\ worker[w].at = "known"
      BY <1>2, <2>3 DEF ReadPending, TypeOK, WorkerState, Free
    <3> QED
      BY <2>3, <3>1 DEF FenceInv, Behind
  <2> QED
    BY <2>1, <2>2, <2>3 DEF ReadInstance, ReadPending, TypeOK
<1> QED
  BY <1>1, <1>2 DEF FenceInv, HistoryFenced, Blank, Behind

\* A completion that extends a history was of the last task.
LEMMA FencedIsLast ==
    ASSUME TypeOK, Tasked, FenceInv, NEW w \in Workers, NEW outcome, NEW y, NEW t,
           CompleteWorkflowTask(w, outcome, y, t), outcome # "discard"
    PROVE  worker[w].last = inst[worker[w].task[1]].last
<1> DEFINE x   == worker[w].task[1]
           old == Len(history[x])
<1>1. /\ x \in Exec /\ worker[w] \in WorkerState /\ worker[w].at = "executing"
      /\ inst[x] # NoInst
  BY CompleteReads DEF CompleteWorkflowTask
<1>2. history[x] \in Seq([seq : Nat, event : Event]) /\ old \in Nat
  <2>1. history[x] \in Seq([seq : Nat, event : Event])
    BY <1>1 DEF TypeOK
  <2> QED
    BY <2>1
<1>3. inst[x].last = old /\ \A i \in DOMAIN history[x] : history[x][i].seq = i
  BY <1>1 DEF FenceInv, HistoryFenced
<1>4. worker[w].last \in Nat /\ worker[w].last <= old
  BY <1>1, <1>3 DEF FenceInv, Behind, WorkerState
<1>5. history[x] # <<>> => worker[w].last + 1 > Last(history[x]).seq
  BY DEF CompleteWorkflowTask, Fenced
<1>6. worker[w].last = inst[x].last
  <2> HIDE DEF x
  <2>1. CASE history[x] = <<>>
    BY <1>2, <1>3, <1>4, <2>1
  <2>2. CASE history[x] # <<>>
    <3>1. old \in DOMAIN history[x] /\ Last(history[x]).seq = history[x][old].seq
      BY <1>2, <2>2 DEF Last
    <3> HIDE DEF old
    <3> QED
      BY <1>2, <1>3, <1>4, <1>5, <2>2, <3>1
  <2> QED
    BY <2>1, <2>2
<1> QED
  BY <1>6 DEF x

LEMMA FenceComplete ==
    ASSUME TypeOK, Tasked, FenceInv, NEW w \in Workers, NEW outcome,
           NEW y \in Exec \cup {NoExec}, NEW t, CompleteWorkflowTask(w, outcome, y, t)
    PROVE  FenceInv'
<1> DEFINE x     == worker[w].task[1]
           old   == Len(history[x])
           added == Len(worker[w].events)
<1>1. /\ x \in Exec /\ worker[w] \in WorkerState /\ worker[w].at = "executing"
      /\ inst[x] \in Instance /\ inst[x] # NoInst
      /\ worker' = [worker EXCEPT ![w] = Free] /\ gone' = gone
  BY CompleteReads DEF CompleteWorkflowTask
<1>2. /\ inst'[x] \in Instance
      /\ inst'[x].last = IF outcome = "discard" THEN inst[x].last ELSE worker[w].last + added
      /\ \A z \in Exec \ {x} :
           \/ inst'[z] = inst[z]
           \/ /\ z = y /\ inst[z] = NoInst /\ z \notin gone
              /\ inst'[z] \in Instance /\ inst'[z].last = 0
  BY CompleteInst
<1>3. history' = IF outcome = "discard" THEN history
                 ELSE [history EXCEPT ![x] = @ \o Executed(w)]
  BY DEF CompleteWorkflowTask
<1>4. /\ history[x] \in Seq([seq : Nat, event : Event]) /\ old \in Nat
      /\ inst[x].last = old
      /\ \A i \in 1 .. old : history[x][i].seq = i
  <2>1. history[x] \in Seq([seq : Nat, event : Event])
    BY <1>1 DEF TypeOK
  <2>2. inst[x].last = old /\ \A i \in DOMAIN history[x] : history[x][i].seq = i
    BY <1>1 DEF FenceInv, HistoryFenced
  <2> HIDE DEF x
  <2> QED
    BY <2>1, <2>2
<1>5. /\ Executed(w) \in Seq([seq : Nat, event : Event]) /\ Len(Executed(w)) = added
      /\ added \in Nat
      /\ \A i \in 1 .. added : Executed(w)[i].seq = worker[w].last + i
  <2>1. worker[w].events \in Seq(Event)
    BY <1>1 DEF WorkerState
  <2>2. added \in Nat /\ DOMAIN worker[w].events = 1 .. added
    BY <2>1
  <2>3. /\ Executed(w) \in Seq([seq : Nat, event : Event]) /\ Len(Executed(w)) = added
        /\ \A i \in DOMAIN worker[w].events : Executed(w)[i].seq = worker[w].last + i
    BY <1>1, ExecutedType
  <2> QED
    BY <2>2, <2>3
<1>6. outcome # "discard" => worker[w].last = old
  BY <1>4, FencedIsLast
<1>7. inst'[x].last >= old
  BY <1>2, <1>4, <1>5, <1>6
<1> HIDE DEF x, old, added
<1>8. /\ inst'[x].last = Len(history'[x])
      /\ \A i \in DOMAIN history'[x] : history'[x][i].seq = i
  <2>1. CASE outcome = "discard"
    BY <1>1, <1>2, <1>3, <1>4, <2>1 DEF old
  <2>2. CASE outcome # "discard"
    <3>1. history'[x] = history[x] \o Executed(w)
      BY <1>1, <1>3, <2>2 DEF TypeOK
    <3>2. Len(history'[x]) = old + added /\ DOMAIN history'[x] = 1 .. old + added
      <4> DEFINE R == [seq : Nat, event : Event]
      <4>1. history[x] \in Seq(R) /\ Executed(w) \in Seq(R)
        BY <1>4, <1>5
      <4> HIDE DEF R
      <4>2. /\ history[x] \o Executed(w) \in Seq(R)
            /\ Len(history[x] \o Executed(w)) = Len(history[x]) + Len(Executed(w))
        BY <4>1
      <4> QED
        BY <1>5, <3>1, <4>2 DEF old
    <3>3. ASSUME NEW i \in 1 .. old + added PROVE history'[x][i].seq = i
      <4>1. CASE i <= old
        <5>1. history'[x][i] = history[x][i] /\ i \in 1 .. old
          BY <1>4, <1>5, <3>1, <4>1 DEF old
        <5> QED
          BY <1>4, <5>1
      <4>2. CASE i > old
        <5>1. history'[x][i] = Executed(w)[i - old] /\ i - old \in 1 .. added
          BY <1>4, <1>5, <3>1, <4>2 DEF old
        <5>2. Executed(w)[i - old].seq = old + (i - old)
          BY <1>5, <1>6, <2>2, <5>1
        <5> QED
          BY <1>4, <5>1, <5>2
      <4> QED
        BY <1>4, <4>1, <4>2
    <3> QED
      BY <1>2, <1>6, <2>2, <3>2, <3>3
  <2> QED
    BY <2>1, <2>2
<1>9. \A z \in Exec \ {x} : history'[z] = history[z]
  BY <1>3 DEF TypeOK
<1>10. ASSUME NEW z \in Exec \ {x}, inst'[z] # inst[z]
       PROVE  /\ inst[z] = NoInst /\ z \notin gone /\ inst'[z].last = 0
              /\ inst'[z] # NoInst /\ history[z] = <<>>
  BY <1>2, <1>10, NoInstAssumption DEF FenceInv, Blank
<1>11. HistoryFenced'
  <2>1. ASSUME NEW z \in Exec \ {x}, inst'[z] # NoInst
        PROVE  /\ inst'[z].last = Len(history'[z])
               /\ \A i \in DOMAIN history'[z] : history'[z][i].seq = i
    <3>1. CASE inst'[z] = inst[z]
      BY <1>9, <2>1, <3>1 DEF FenceInv, HistoryFenced
    <3>2. CASE inst'[z] # inst[z]
      BY <1>9, <1>10, <3>2
    <3> QED
      BY <3>1, <3>2
  <2> QED
    BY <1>8, <2>1 DEF HistoryFenced
<1>12. Blank'
  BY <1>2, <1>9, <1>10, NoInstAssumption DEF FenceInv, Blank
<1>13. Behind'
  <2> SUFFICES ASSUME NEW v \in Workers, worker'[v].at \in {"known", "executing"}
               PROVE  LET z == worker'[v].task[1] IN
                      IF inst'[z] = NoInst THEN z \in gone' ELSE worker'[v].last <= inst'[z].last
    BY DEF Behind
  <2> DEFINE z == worker[v].task[1]
  <2>1. worker'[v] = worker[v]
    BY <1>1 DEF TypeOK, Free
  <2>2. worker[v] \in WorkerState /\ worker[v].last \in Nat /\ z \in Exec
    BY <2>1 DEF TypeOK, Tasked, WorkerState
  <2>3. IF inst[z] = NoInst THEN z \in gone ELSE worker[v].last <= inst[z].last
    BY <2>1 DEF FenceInv, Behind
  <2> HIDE DEF z
  <2>4. CASE z = x
    <3>1. inst'[x] # NoInst /\ inst'[x].last \in Nat
      BY <1>2, NoInstAssumption DEF Instance
    <3>2. worker[v].last <= old
      BY <1>1, <1>4, <2>3, <2>4
    <3> QED
      BY <1>4, <1>7, <2>1, <2>2, <2>4, <3>1, <3>2 DEF z
  <2>5. CASE z # x /\ inst'[z] = inst[z]
    BY <1>1, <2>1, <2>3, <2>5 DEF z
  <2>6. CASE z # x /\ inst'[z] # inst[z]
    BY <1>10, <2>2, <2>3, <2>6
  <2> QED
    BY <2>4, <2>5, <2>6
<1> QED
  BY <1>11, <1>12, <1>13 DEF FenceInv

LEMMA FenceStep == TypeOK /\ Tasked /\ FenceInv /\ [Next]_vars => FenceInv'
<1> SUFFICES ASSUME TypeOK, Tasked, FenceInv, [Next]_vars PROVE FenceInv'
  OBVIOUS
<1>1. ASSUME NEW x \in Exec,
             \/ CreateWorkflowInstance(x) \/ SignalReads(x) \/ CancelReads(x)
             \/ RemoveWorkflowInstance(x) \/ Expires(x)
      PROVE  FenceInv'
  <2>1. CASE SignalReads(x) \/ CancelReads(x)
    BY <2>1, FenceKept DEF SignalReads, CancelReads, instances
  <2> QED
    BY <1>1, <2>1, FenceCreate, FenceRemove
<1>2. CASE ClientWrites
  BY <1>2, FenceKept DEF ClientWrites
<1>3. ASSUME NEW f \in futures, ScheduleFutureEvent(f) PROVE FenceInv'
  BY <1>3, FenceKept DEF ScheduleFutureEvent
<1>4. ASSUME NEW e \in stream, LockExpires(e) PROVE FenceInv'
  BY <1>4, FenceKept DEF LockExpires, instances
<1>5. ASSUME NEW e \in stream, NEW w \in Workers, Dequeue(w, e) PROVE FenceInv'
  <2>1. \A v \in Workers : worker'[v] = worker[v] \/ worker'[v].at = "dequeued"
    BY <1>5 DEF Dequeue, TypeOK, WorkerState
  <2> QED
    BY <1>5, <2>1, FenceKept DEF Dequeue, instances
<1>6. ASSUME NEW w \in Workers, ReadInstance(w) \/ ReadPending(w) PROVE FenceInv'
  BY <1>6, FenceRead
<1>7. ASSUME NEW w \in Workers, Fail(w) PROVE FenceInv'
  <2>1. \A v \in Workers : worker'[v] = worker[v] \/ worker'[v].at = "free"
    BY <1>7 DEF Fail, TypeOK, Free
  <2> QED
    BY <1>7, <2>1, FenceKept DEF Fail, instances
<1>8. ASSUME NEW w \in Workers, ExtendWorkflowTask(w) PROVE FenceInv'
  BY <1>8, FenceKept DEF ExtendWorkflowTask, instances
<1>9. ASSUME NEW w \in Workers, NEW outcome \in Commands \cup {"discard"},
             NEW y \in Exec \cup {NoExec}, NEW t \in {0} \cup {f[2] : f \in futures},
             CompleteWorkflowTask(w, outcome, y, t)
      PROVE  FenceInv'
  BY <1>9, FenceComplete
<1>10. ASSUME NEW w \in Workers,
              ReadActivityInstance(w) \/ CompleteActivityTask(w) \/ ExtendActivityTask(w)
       PROVE  FenceInv'
  BY <1>10, FenceKept
  DEF ReadActivityInstance, CompleteActivityTask, ExtendActivityTask, instances
<1>11. ASSUME NEW a \in activities,
              ActivityLockExpires(a) \/ \E w \in Workers : DequeueActivity(w, a)
       PROVE  FenceInv'
  BY <1>11, FenceKept DEF ActivityLockExpires, DequeueActivity, instances
<1>12. CASE UNCHANGED vars
  BY <1>12, FenceKept DEF vars
<1> QED
  BY <1>1, <1>2, <1>3, <1>4, <1>5, <1>6, <1>7, <1>8, <1>9, <1>10, <1>11, <1>12 DEF Next

(***************************************************************************)
(* Every history is numbered without gap or repetition up to the sequence  *)
(* id that the instance records, however many workers execute and complete *)
(* the same task (complete_workflow_task.lua): no lock is needed for it.   *)
(***************************************************************************)
THEOREM HistoriesFenced == Spec => []HistoryFenced
<1>1. Init => TypeOK /\ Tasked /\ FenceInv
  BY InitTypes, FenceInit
<1>2. TypeOK /\ Tasked /\ FenceInv /\ [Next]_vars => (TypeOK /\ Tasked /\ FenceInv)'
  BY TypeStep, FenceStep
<1>3. FenceInv => HistoryFenced
  BY DEF FenceInv
<1> QED
  BY <1>1, <1>2, <1>3, PTL DEF Spec
-----------------------------------------------------------------------------
(* The queue and the pending events.                                       *)

\* A set of entries is the queue of a set of executions.
QueueOf(s, q) ==
    /\ q = {e.exec : e \in s}
    /\ \A e, d \in s : e.exec = d.exec => e = d

LEMMA AddTasksMatch ==
    ASSUME NEW X, NEW s, NEW q, QueueOf(s, q), AddTasks(X, s, q)
    PROVE  QueueOf(stream', queued') /\ q \subseteq queued' /\ X \subseteq queued'
<1> DEFINE new(x) == [exec |-> x, entry |-> entries[x] + 1, held |-> FALSE, idle |-> FALSE]
<1>1. queued' = q \cup X /\ stream' = s \cup {new(x) : x \in X \ q}
  BY DEF AddTasks
<1>2. \A x : new(x).exec = x
  OBVIOUS
<1> HIDE DEF new
<1>3. queued' = {e.exec : e \in stream'}
  BY <1>1, <1>2 DEF QueueOf
<1>4. ASSUME NEW e \in stream', NEW d \in stream', e.exec = d.exec PROVE e = d
  <2>1. \A a \in s : a.exec \in q
    BY DEF QueueOf
  <2>2. CASE e \in s
    <3>1. d \in s
      BY <1>1, <1>2, <1>4, <2>1, <2>2
    <3> QED
      BY <1>4, <2>2, <3>1 DEF QueueOf
  <2>3. CASE e \notin s
    <3>1. PICK x \in X \ q : e = new(x)
      BY <1>1, <2>3
    <3>2. d \notin s
      BY <1>2, <1>4, <2>1, <3>1
    <3>3. PICK z \in X \ q : d = new(z)
      BY <1>1, <3>2
    <3> QED
      BY <1>2, <1>4, <3>1, <3>3
  <2> QED
    BY <2>2, <2>3
<1> QED
  BY <1>1, <1>3, <1>4 DEF QueueOf

LEMMA MatchIsQueue ==
    TasksMatchPending <=> /\ \A x \in Exec : pending[x] # <<>> => x \in queued
                          /\ QueueOf(stream, queued)
BY DEF TasksMatchPending, QueueOf

\* A script that writes one event and queues its execution.
LEMMA MatchWrite ==
    ASSUME TypeOK, TasksMatchPending, NEW x \in Exec, NEW ev,
           pending' = [pending EXCEPT ![x] = Append(@, ev)], Enqueue(x)
    PROVE  TasksMatchPending'
<1>1. QueueOf(stream', queued') /\ queued \subseteq queued' /\ x \in queued'
  <2>1. QueueOf(stream, queued) /\ AddTasks({x}, stream, queued)
    BY MatchIsQueue DEF Enqueue
  <2> QED
    BY <2>1, AddTasksMatch
<1>2. \A z \in Exec : pending'[z] # <<>> => z \in queued'
  BY <1>1 DEF TypeOK, TasksMatchPending
<1> QED
  BY <1>1, <1>2 DEF TasksMatchPending, QueueOf

\* An entry changes hands.
LEMMA MatchClaim ==
    ASSUME TasksMatchPending, NEW e \in stream, NEW d, d.exec = e.exec,
           stream' = (stream \ {e}) \cup {d}, UNCHANGED <<queued, pending>>
    PROVE  TasksMatchPending'
<1>1. {a.exec : a \in stream'} = {a.exec : a \in stream}
  OBVIOUS
<1>2. ASSUME NEW a \in stream', NEW b \in stream', a.exec = b.exec PROVE a = b
  BY <1>2 DEF TasksMatchPending
<1> QED
  BY <1>1, <1>2 DEF TasksMatchPending

\* Events go away and no task does.
LEMMA MatchKept ==
    ASSUME TasksMatchPending, UNCHANGED <<stream, queued>>,
           \A x \in Exec : pending'[x] = pending[x] \/ pending'[x] = <<>>
    PROVE  TasksMatchPending'
BY DEF TasksMatchPending

LEMMA MatchComplete ==
    ASSUME TypeOK, Tasked, TasksMatchPending, NEW w \in Workers, NEW outcome,
           NEW y \in Exec \cup {NoExec}, NEW t, CompleteWorkflowTask(w, outcome, y, t)
    PROVE  TasksMatchPending'
<1> DEFINE x       == worker[w].task[1]
           closed  == outcome \in {"finish", "continue", "discard"}
           n       == steps + 1
           to      == Told(x, outcome)
           cleared == IF closed THEN [active EXCEPT ![Id(x)] = NoExec] ELSE active
           clash   == y # NoExec /\ cleared[Id(y)] # NoExec
           makes   == y # NoExec /\ ~clash
           events  == AfterTrim(w)
                      \o (IF clash THEN <<Ev("conflict", IF outcome = "sub" THEN n ELSE 0)>>
                          ELSE <<>>)
           others  == {z \in Exec : (makes /\ z = y) \/ z = to}
           entry   == {e \in stream : IsEntry(e, worker[w].task)}
           left    == IF entry = {} THEN queued ELSE queued \ {x}
<1>1. AddTasks(others \cup Requeued(x, events), stream \ entry, left)
  BY DEF CompleteWorkflowTask
<1>2. pending' = [z \in Exec |->
                   IF z = x THEN events
                   ELSE IF makes /\ z = y THEN Append(pending[z], Ev("start", 0))
                   ELSE IF z = to THEN Append(pending[z], Ev("child", inst[x].n))
                   ELSE pending[z]]
  BY DEF CompleteWorkflowTask
<1>3. QueueOf(stream \ entry, left)
  <2>1. \A e \in entry : e.exec = x
    BY DEF IsEntry
  <2>2. \A e \in stream \ entry : entry # {} => e.exec # x
    BY <2>1 DEF TasksMatchPending
  <2> HIDE DEF entry, x
  <2>3. left = {e.exec : e \in stream \ entry}
    BY <2>1, <2>2 DEF TasksMatchPending
  <2> HIDE DEF left
  <2> QED
    BY <2>3 DEF TasksMatchPending, QueueOf
<1>4. \A z \in Exec : pending[z] # <<>> /\ z # x => z \in left
  BY DEF TasksMatchPending
<1> HIDE DEF x, events, makes, to, entry, left
<1>5. /\ QueueOf(stream', queued') /\ left \subseteq queued'
      /\ others \cup Requeued(x, events) \subseteq queued'
  BY <1>1, <1>3, AddTasksMatch
<1>6. ASSUME NEW z \in Exec, pending'[z] # <<>> PROVE z \in queued'
  <2>1. CASE z = x
    BY <1>2, <1>5, <1>6, <2>1 DEF Requeued
  <2>2. CASE z # x /\ ((makes /\ z = y) \/ z = to)
    BY <1>5, <2>2
  <2>3. CASE z # x /\ ~(makes /\ z = y) /\ z # to
    BY <1>2, <1>4, <1>5, <1>6, <2>3
  <2> QED
    BY <2>1, <2>2, <2>3
<1> QED
  BY <1>5, <1>6 DEF TasksMatchPending, QueueOf

LEMMA MatchStep == TypeOK /\ Tasked /\ TasksMatchPending /\ [Next]_vars => TasksMatchPending'
<1> SUFFICES ASSUME TypeOK, Tasked, TasksMatchPending, [Next]_vars
             PROVE  TasksMatchPending'
  OBVIOUS
<1>1. ASSUME NEW x \in Exec, CreateWorkflowInstance(x) PROVE TasksMatchPending'
  BY <1>1, MatchWrite DEF CreateWorkflowInstance
<1>2. ASSUME NEW x \in Exec, SignalReads(x) \/ CancelReads(x) PROVE TasksMatchPending'
  BY <1>2, MatchKept DEF SignalReads, CancelReads, instances, tasks
<1>3. ASSUME NEW x \in Exec, RemoveWorkflowInstance(x) \/ Expires(x)
      PROVE  TasksMatchPending'
  BY <1>3, MatchKept DEF RemoveWorkflowInstance, Expires, tasks, TypeOK
<1>4. CASE ClientWrites
  <2>1. client[1] \in Exec
    BY <1>4 DEF ClientWrites, TypeOK
  <2> QED
    BY <1>4, <2>1, MatchWrite DEF ClientWrites
<1>5. ASSUME NEW f \in futures, ScheduleFutureEvent(f) PROVE TasksMatchPending'
  <2>1. f[1] \in Exec
    BY DEF TypeOK
  <2> QED
    BY <1>5, <2>1, MatchWrite DEF ScheduleFutureEvent
<1>6. ASSUME NEW e \in stream, LockExpires(e) PROVE TasksMatchPending'
  <2>1. [e EXCEPT !.idle = TRUE].exec = e.exec
    BY DEF TypeOK
  <2> QED
    BY <1>6, <2>1, MatchClaim DEF LockExpires, instances
<1>7. ASSUME NEW e \in stream, NEW w \in Workers, Dequeue(w, e) PROVE TasksMatchPending'
  <2>1. [e EXCEPT !.held = TRUE, !.idle = FALSE].exec = e.exec
    BY DEF TypeOK
  <2> QED
    BY <1>7, <2>1, MatchClaim DEF Dequeue, instances
<1>8. ASSUME NEW w \in Workers, ExtendWorkflowTask(w) PROVE TasksMatchPending'
  <2>1. PICK e \in stream : stream' = (stream \ {e}) \cup {[e EXCEPT !.idle = FALSE]}
    BY <1>8 DEF ExtendWorkflowTask
  <2>2. [e EXCEPT !.idle = FALSE].exec = e.exec
    BY DEF TypeOK
  <2> QED
    BY <1>8, <2>1, <2>2, MatchClaim DEF ExtendWorkflowTask, instances
<1>9. ASSUME NEW w \in Workers, ReadInstance(w) \/ ReadPending(w) \/ Fail(w)
      PROVE  TasksMatchPending'
  BY <1>9, MatchKept DEF ReadInstance, ReadPending, Fail, instances, tasks
<1>10. ASSUME NEW w \in Workers, NEW outcome \in Commands \cup {"discard"},
              NEW y \in Exec \cup {NoExec}, NEW t \in {0} \cup {f[2] : f \in futures},
              CompleteWorkflowTask(w, outcome, y, t)
       PROVE  TasksMatchPending'
  BY <1>10, MatchComplete
<1>11. ASSUME NEW w \in Workers, CompleteActivityTask(w) PROVE TasksMatchPending'
  <2>1. CASE StillQueued(w)
    <3>1. holds[w][1] \in Exec
      BY <1>11 DEF CompleteActivityTask, TypeOK
    <3> QED
      BY <1>11, <2>1, <3>1, MatchWrite DEF CompleteActivityTask
  <2>2. CASE ~StillQueued(w)
    BY <1>11, <2>2, MatchKept DEF CompleteActivityTask, tasks
  <2> QED
    BY <2>1, <2>2
<1>12. ASSUME NEW w \in Workers, ReadActivityInstance(w) \/ ExtendActivityTask(w)
       PROVE  TasksMatchPending'
  BY <1>12, MatchKept DEF ReadActivityInstance, ExtendActivityTask, instances, tasks
<1>13. ASSUME NEW a \in activities,
              ActivityLockExpires(a) \/ \E w \in Workers : DequeueActivity(w, a)
       PROVE  TasksMatchPending'
  BY <1>13, MatchKept DEF ActivityLockExpires, DequeueActivity, instances, tasks
<1>14. CASE UNCHANGED vars
  BY <1>14, MatchKept DEF vars
<1> QED
  BY <1>1, <1>2, <1>3, <1>4, <1>5, <1>6, <1>7, <1>8, <1>9, <1>10, <1>11, <1>12, <1>13,
     <1>14 DEF Next

(***************************************************************************)
(* The set and the stream of the queue agree, with one entry for each      *)
(* queued execution, and whoever has pending events is queued (queue/*.lua *)
(* and the scripts that write events): no event waits without a task.      *)
(***************************************************************************)
THEOREM EventsHaveTasks == Spec => []TasksMatchPending
<1>1. Init => TypeOK /\ Tasked /\ TasksMatchPending
  <2>1. Init => TasksMatchPending
    BY DEF Init, TasksMatchPending
  <2> QED
    BY <2>1, InitTypes
<1>2. TypeOK /\ Tasked /\ TasksMatchPending /\ [Next]_vars
        => (TypeOK /\ Tasked /\ TasksMatchPending)'
  BY TypeStep, MatchStep
<1> QED
  BY <1>1, <1>2, PTL DEF Spec
=============================================================================
