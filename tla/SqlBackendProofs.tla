-------------------------- MODULE SqlBackendProofs --------------------------
(* Type correctness of the SQL backend, the numbering of the histories it *)
(* keeps, and that it implements the execution log, for every number of    *)
(* handlers, workers, instances and events.                                *)
EXTENDS SqlBackend, FiniteSetTheorems, TLAPS

(* Facts about the queries and about what the executor hands over.         *)

\* Execution ids are a finite set of positive numbers.
LEMMA ExecutionsType == Executions \subseteq Nat /\ IsFiniteSet(Executions) /\ 0 \notin Executions
BY ConstantsAssumption, FS_Interval DEF Executions

\* Ev builds events.
LEMMA EvType ==
    ASSUME NEW id \in Nat, NEW kind \in EventKinds, NEW of \in Nat
    PROVE  Ev(id, kind, of) \in Event
BY DEF Ev, Event

\* What the queries on the history return.
LEMMA HistoryType ==
    ASSUME TypeOK, NEW x \in Executions
    PROVE  /\ LastSequenceID(x) \in Nat
           /\ Recorded(x) \subseteq Event
           /\ Emitted(x) \subseteq Event
<1>1. hist[x] \in Seq(Batch)
  BY DEF TypeOK
<1>2. \A i \in DOMAIN hist[x] : hist[x][i] \in Batch
  BY <1>1
<1>3. hist[x] # <<>> => Len(hist[x]) \in DOMAIN hist[x]
  BY <1>1
<1>4. LastSequenceID(x) \in Nat
  BY <1>2, <1>3 DEF LastSequenceID, Batch
<1>5. Recorded(x) \subseteq Event /\ Emitted(x) \subseteq Event
  BY <1>2 DEF Recorded, Emitted, Batch, FiniteSubsets
<1> QED
  BY <1>4, <1>5

\* A command names a target instance and a schedule id.
LEMMA CommandType ==
    ASSUME TypeOK, NEW x \in Executions, NEW E, NEW cmd \in CommandsOf(x, E)
    PROVE  cmd.kind \in CommandKinds /\ cmd.of \in Nat /\ cmd.target \in Instances
<1>1. inst[x].inst \in Instances
  BY DEF TypeOK, Row
<1>2. OpenTimers(x) \subseteq Nat /\ OpenSubWorkflows(x, E) \subseteq Nat
  BY HistoryType DEF OpenTimers, OpenSubWorkflows, Open, Event
<1>3. Commands \subseteq CommandKinds /\ "none" \in CommandKinds
  BY ConstantsAssumption DEF CommandKinds
<1>4. cmd \in [kind : CommandKinds, of : Nat, target : Instances]
  BY <1>1, <1>2, <1>3 DEF CommandsOf
<1> QED
  BY <1>4

\* A command emits finitely many history events.
LEMMA EmitsType ==
    ASSUME TypeOK, NEW x \in Executions, NEW E, NEW cmd \in CommandsOf(x, E)
    PROVE  Emits(cmd) \in FiniteSubsets
<1>1. cmd.of \in Nat /\ nextID \in Nat
  BY CommandType DEF TypeOK
<1>2. Emits(cmd) \subseteq Event
  BY <1>1 DEF Emits, Ev, Event, EventKinds
<1>3. \A k, e, of : IsFiniteSet(IF cmd.kind = k THEN {Ev(nextID, e, of)} ELSE {})
  BY FS_EmptySet, FS_Singleton
<1>4. IsFiniteSet(Emits(cmd))
  BY <1>3, FS_Union DEF Emits
<1> QED
  BY <1>2, <1>4 DEF FiniteSubsets

\* createInstance inserts a well-formed row ...
LEMMA NewRowType ==
    ASSUME NEW i \in Instances, NEW parent \in Executions \cup {0}, NEW of \in Nat
    PROVE  NewRow(i, parent, of) \in Row
BY DEF NewRow, Row, States, RowStates

\* ... also for the execution that a checkpoint starts.
LEMMA StartsType ==
    ASSUME TypeOK, NEW x \in Executions, NEW E, NEW cmd \in CommandsOf(x, E), NEW st
    PROVE  Starts(x, st, cmd) \subseteq Row /\ IsFiniteSet(Starts(x, st, cmd))
<1>0. inst[x] \in Row /\ nextID \in Nat /\ cmd.target \in Instances
  BY CommandType DEF TypeOK
<1>a. NewRow(inst[x].inst, inst[x].parent, inst[x].of) \in Row
  BY <1>0, NewRowType DEF Row
<1>b. NewRow(cmd.target, x, nextID) \in Row
  BY <1>0, NewRowType
<1>1. Starts(x, st, cmd) \subseteq Row
  BY <1>a, <1>b DEF Starts
<1>2. IsFiniteSet(Starts(x, st, cmd))
  BY FS_EmptySet, FS_Singleton DEF Starts
<1> QED
  BY <1>1, <1>2

\* A checkpoint sends finitely many events to each execution.
LEMMA MessagesType ==
    ASSUME TypeOK, NEW x \in Executions, NEW E, NEW cmd \in CommandsOf(x, E),
           NEW st, NEW n \in Executions \cup {0}, NEW y
    PROVE  SentTo(y, Messages(x, st, cmd, n)) \in FiniteSubsets
<1> DEFINE e1 == Ev(nextID + 1, "TimerFired", nextID)
           e2 == Ev(nextID + 1, "WorkflowExecutionCanceled", 0)
           e3 == Ev(nextID + 1, "WorkflowExecutionStarted", 0)
           e4 == Ev(nextID + 1, "SubWorkflowFailed", inst[x].of)
           e5 == Ev(nextID + 1, "SubWorkflowFailed", nextID)
           e6 == Ev(nextID + 2, "SubWorkflowCompleted", inst[x].of)
           events == {e1} \cup {e2} \cup {e3} \cup {e4} \cup {e5} \cup {e6}
<1>1. nextID \in Nat /\ inst[x].of \in Nat
  BY DEF TypeOK, Row
<1>2. events \subseteq Event
  BY <1>1 DEF Ev, Event, EventKinds
<1>3. IsFiniteSet(events)
  <2> HIDE DEF e1, e2, e3, e4, e5, e6
  <2> QED
    BY FS_Singleton, FS_Union
<1>4. \A r \in Starts(x, st, cmd) : Ev(nextID + 1, "SubWorkflowFailed", r.of) \in {e4, e5}
  BY DEF Starts, NewRow
<1>5. ASSUME NEW m \in Messages(x, st, cmd, n) PROVE m.ev \in events
  <2>1. \A to, ev : \A k \in Msg(to, ev) : k.ev = ev
    BY DEF Msg
  <2>2. \/ \E to : m \in Msg(to, e1) \/ m \in Msg(to, e2) \/ m \in Msg(to, e3) \/ m \in Msg(to, e6)
        \/ \E to : \E r \in Starts(x, st, cmd) :
               m \in Msg(to, Ev(nextID + 1, "SubWorkflowFailed", r.of))
    BY DEF Messages
  <2> HIDE DEF e1, e2, e3, e4, e5, e6
  <2> QED
    BY <1>4, <2>1, <2>2
<1> HIDE DEF events
<1>6. SentTo(y, Messages(x, st, cmd, n)) \subseteq events
  BY <1>5 DEF SentTo
<1> QED
  BY <1>2, <1>3, <1>6, FS_Subset DEF FiniteSubsets

\* Pending sets stay finite when an event is added ...
LEMMA AddEvent ==
    ASSUME NEW S \in FiniteSubsets, NEW e \in Event
    PROVE  S \cup {e} \in FiniteSubsets
BY FS_AddElement DEF FiniteSubsets

\* ... when events are deleted ...
LEMMA SubsetOfEvents ==
    ASSUME NEW S \in FiniteSubsets, NEW T, T \subseteq S
    PROVE  T \in FiniteSubsets
BY FS_Subset DEF FiniteSubsets

\* ... and when a checkpoint's events are inserted.
LEMMA UnionOfEvents ==
    ASSUME NEW S \in FiniteSubsets, NEW T \in FiniteSubsets
    PROVE  S \cup T \in FiniteSubsets
BY FS_Union DEF FiniteSubsets

\* The executor executes events of its task.
LEMMA ExecutedType ==
    ASSUME NEW t \in WorkflowTask, NEW E \in ExecutedSets(t)
    PROVE  E \in FiniteSubsets /\ E \subseteq t.new
<1>1. t.new \in FiniteSubsets
  BY DEF WorkflowTask
<1>2. E \subseteq t.new
  BY DEF ExecutedSets
<1> QED
  BY <1>1, <1>2, SubsetOfEvents

\* The sequence ids a checkpoint assigns are numbers.
LEMMA NewBatchType ==
    ASSUME TypeOK, NEW t \in WorkflowTask, NEW E \in ExecutedSets(t), NEW st,
           NEW cmd \in CommandsOf(t.exec, E)
    PROVE  NewBatch(t, E, st, cmd) \in Batch
<1>1. t.exec \in Executions /\ t.last \in Nat
  BY DEF WorkflowTask
<1>2. E \in FiniteSubsets /\ Emits(cmd) \in FiniteSubsets
  BY <1>1, ExecutedType, EmitsType
<1>3. Cardinality(E) \in Nat /\ Cardinality(Emits(cmd)) \in Nat
  BY <1>2, FS_CardinalityType DEF FiniteSubsets
<1> QED
  BY <1>1, <1>2, <1>3 DEF NewBatch, Batch

\* The row as CompleteWorkflowTask's UPDATE leaves it.
LEMMA ClosedRowType ==
    ASSUME NEW r \in Row, NEW s \in States
    PROVE  [r EXCEPT !.lock = "null", !.sticky = TRUE, !.state = s] \in Row
BY DEF Row

\* A checkpoint keeps the types of the tables it writes.
LEMMA CheckpointType ==
    ASSUME TypeOK, NEW t \in WorkflowTask, NEW E \in ExecutedSets(t), NEW st \in RowStates,
           NEW cmd \in CommandsOf(t.exec, E), NEW n \in Executions \cup {0},
           n # 0 => Starts(t.exec, st, cmd) # {},
           Checkpoint(t, E, st, cmd, n)
    PROVE  /\ inst' \in [Executions -> Row]
           /\ pending' \in [Executions -> FiniteSubsets]
           /\ hist' \in [Executions -> Seq(Batch)]
           /\ activities' \subseteq ActivityRow
           /\ nextID' \in Nat
<1> DEFINE x == t.exec
<1>0. x \in Executions
  BY DEF WorkflowTask
<1>1. inst' \in [Executions -> Row]
  <2> DEFINE row   == [inst[x] EXCEPT !.lock = "null", !.sticky = TRUE,
                                      !.state = IF RemovedAtOnce(st) THEN "removed" ELSE st]
             first == CHOOSE r \in Starts(x, st, cmd) : TRUE
  <2>1. Starts(x, st, cmd) \subseteq Row
    BY <1>0, StartsType
  <2>2. n # 0 => first \in Row
    BY <2>1
  <2>3. row \in Row
    <3>1. inst[x] \in Row /\ (IF RemovedAtOnce(st) THEN "removed" ELSE st) \in States
      BY <1>0 DEF TypeOK, States
    <3> QED
      BY <3>1, ClosedRowType
  <2>4. \A y \in Executions : inst[y] \in Row
    BY DEF TypeOK
  <2>5. inst' = [y \in Executions |-> IF y = x THEN row ELSE IF y = n THEN first ELSE inst[y]]
    BY Zenon DEF Checkpoint
  <2> HIDE DEF row, first, x
  <2> QED
    BY <2>2, <2>3, <2>4, <2>5, ExecutionsType
<1>2. pending' \in [Executions -> FiniteSubsets]
  <2> DEFINE kept(y) == {e \in pending[y] : y = x => ~Deleted(E, cmd, e)}
             sent(y) == SentTo(y, Messages(x, st, cmd, n))
  <2>1. pending' = [y \in Executions |-> kept(y) \cup sent(y)]
    BY DEF Checkpoint
  <2>2. ASSUME NEW y \in Executions PROVE kept(y) \cup sent(y) \in FiniteSubsets
    <3>1. pending[y] \in FiniteSubsets /\ kept(y) \subseteq pending[y]
      BY DEF TypeOK
    <3>2. kept(y) \in FiniteSubsets
      BY <3>1, SubsetOfEvents
    <3>3. sent(y) \in FiniteSubsets
      BY <1>0, MessagesType
    <3> QED
      BY <3>2, <3>3, UnionOfEvents
  <2> HIDE DEF kept, sent
  <2> QED
    BY <2>1, <2>2
<1>3. hist' \in [Executions -> Seq(Batch)]
  <2>1. NewBatch(t, E, st, cmd) \in Batch
    BY NewBatchType
  <2>2. Append(hist[x], NewBatch(t, E, st, cmd)) \in Seq(Batch) /\ <<>> \in Seq(Batch)
    BY <1>0, <2>1 DEF TypeOK
  <2> QED
    BY <2>2 DEF Checkpoint, TypeOK
<1>4. activities' \subseteq ActivityRow
  <2>1. Emits(cmd) \subseteq Event
    BY <1>0, EmitsType DEF FiniteSubsets
  <2> QED
    BY <1>0, <2>1 DEF Checkpoint, TypeOK, ActivityRow
<1>5. nextID' \in Nat
  BY DEF Checkpoint, TypeOK
<1> QED
  BY <1>1, <1>2, <1>3, <1>4, <1>5

-----------------------------------------------------------------------------
(* Type correctness.                                                       *)

\* The rows as the other UPDATEs of the instances table leave them.
LEMMA UpdatedRowType ==
    ASSUME TypeOK, NEW x \in Executions, NEW l \in {"null", "held", "expired"},
           NEW w \in Workers \cup {NoWorker}, NEW s \in States
    PROVE  /\ [inst EXCEPT ![x].lock = l] \in [Executions -> Row]
           /\ [inst EXCEPT ![x].sticky = FALSE] \in [Executions -> Row]
           /\ [inst EXCEPT ![x].state = s] \in [Executions -> Row]
           /\ [inst EXCEPT ![x].lock = l, ![x].worker = w] \in [Executions -> Row]
<1>1. inst \in [Executions -> Row] /\ inst[x] \in Row
  BY DEF TypeOK
<1>2. /\ [inst[x] EXCEPT !.lock = l] \in Row
      /\ [inst[x] EXCEPT !.sticky = FALSE] \in Row
      /\ [inst[x] EXCEPT !.state = s] \in Row
      /\ [inst[x] EXCEPT !.lock = l, !.worker = w] \in Row
  BY <1>1 DEF Row
<1>3. \A r \in Row : [inst EXCEPT ![x] = r] \in [Executions -> Row]
  BY <1>1
<1>4. /\ [inst EXCEPT ![x].lock = l] = [inst EXCEPT ![x] = [inst[x] EXCEPT !.lock = l]]
      /\ [inst EXCEPT ![x].sticky = FALSE] = [inst EXCEPT ![x] = [inst[x] EXCEPT !.sticky = FALSE]]
      /\ [inst EXCEPT ![x].state = s] = [inst EXCEPT ![x] = [inst[x] EXCEPT !.state = s]]
  BY <1>1
<1>5. [inst EXCEPT ![x].lock = l, ![x].worker = w]
        = [inst EXCEPT ![x] = [inst[x] EXCEPT !.lock = l, !.worker = w]]
  BY <1>1
<1> QED
  BY <1>2, <1>3, <1>4, <1>5

\* The pending table after the insertion of one event.
LEMMA UpdatedPendingType ==
    ASSUME TypeOK, NEW x \in Executions, NEW kind \in EventKinds, NEW of \in Nat
    PROVE  [pending EXCEPT ![x] = @ \cup {Ev(nextID, kind, of)}] \in [Executions -> FiniteSubsets]
<1>1. Ev(nextID, kind, of) \in Event
  BY EvType DEF TypeOK
<1>2. pending[x] \cup {Ev(nextID, kind, of)} \in FiniteSubsets
  BY <1>1, AddEvent DEF TypeOK
<1> QED
  BY <1>2 DEF TypeOK

\* Client operations keep the types.
LEMMA ClientType == TypeOK /\ ClientNext => TypeOK'
<1> SUFFICES ASSUME TypeOK, ClientNext PROVE TypeOK'
  OBVIOUS
<1>0. {"WorkflowExecutionStarted", "SignalReceived", "WorkflowExecutionCanceled"} \subseteq EventKinds
      /\ {"removed", "purged"} \subseteq States
  BY DEF EventKinds, States
<1>1. ASSUME NEW i \in Instances, CreateWorkflowInstance(i) PROVE TypeOK'
  <2>1. PICK x \in Executions :
          /\ inst' = [inst EXCEPT ![x] = NewRow(i, 0, 0)]
          /\ pending' = [pending EXCEPT ![x] = @ \cup {Ev(nextID, "WorkflowExecutionStarted", 0)}]
    BY <1>1 DEF CreateWorkflowInstance
  <2>2. inst' \in [Executions -> Row]
    BY <2>1, NewRowType DEF TypeOK
  <2>3. pending' \in [Executions -> FiniteSubsets]
    BY <1>0, <2>1, UpdatedPendingType
  <2> QED
    BY <1>1, <2>2, <2>3 DEF CreateWorkflowInstance, TypeOK
<1>2. ASSUME NEW i \in Instances, SignalWorkflow(i) PROVE TypeOK'
  <2>1. PICK x \in Executions :
          pending' = [pending EXCEPT ![x] = @ \cup {Ev(nextID, "SignalReceived", 0)}]
    BY <1>2 DEF SignalWorkflow, ActiveExecutions
  <2>2. pending' \in [Executions -> FiniteSubsets]
    BY <1>0, <2>1, UpdatedPendingType
  <2> QED
    BY <1>2, <2>2 DEF SignalWorkflow, TypeOK
<1>3. ASSUME NEW x \in Executions, CancelWorkflowInstance(x) PROVE TypeOK'
  <2>1. pending' \in [Executions -> FiniteSubsets]
    BY <1>0, <1>3, UpdatedPendingType DEF CancelWorkflowInstance
  <2> QED
    BY <1>3, <2>1 DEF CancelWorkflowInstance, TypeOK
<1>4. ASSUME NEW x \in Executions, RemoveWorkflowInstance(x) PROVE TypeOK'
  <2>1. inst' \in [Executions -> Row]
    BY <1>0, <1>4, UpdatedRowType DEF RemoveWorkflowInstance
  <2>2. hist' \in [Executions -> Seq(Batch)]
    BY <1>4 DEF RemoveWorkflowInstance, TypeOK
  <2> QED
    BY <1>4, <2>1, <2>2 DEF RemoveWorkflowInstance, TypeOK
<1>5. ASSUME NEW S \in SUBSET Executions, RemoveWorkflowInstances(S) PROVE TypeOK'
  <2>1. \A r \in Row : [r EXCEPT !.state = "purged"] \in Row
    BY <1>0 DEF Row
  <2>2. inst' \in [Executions -> Row]
    BY <1>5, <2>1 DEF RemoveWorkflowInstances, TypeOK
  <2> QED
    BY <1>5, <2>2 DEF RemoveWorkflowInstances, TypeOK
<1> QED
  BY <1>1, <1>2, <1>3, <1>4, <1>5 DEF ClientNext

\* The workflow task operations keep the types.
LEMMA WorkflowTaskType ==
    ASSUME TypeOK, NEW h \in Handlers,
           \/ GetWorkflowTask(h) \/ ExtendWorkflowTask(h)
           \/ CompleteWorkflowTask(h) \/ DropWorkflowTask(h)
    PROVE  TypeOK'
<1>0. wtask[h] # NoTask => wtask[h] \in WorkflowTask
  BY DEF TypeOK
<1>w. WorkerOf[h] \in Workers \cup {NoWorker}
  BY ConstantsAssumption
<1>1. CASE GetWorkflowTask(h)
  <2>1. PICK x \in Executions :
          /\ inst' = [inst EXCEPT ![x].lock = "held", ![x].worker = WorkerOf[h]]
          /\ wtask' = [wtask EXCEPT ![h] = [exec |-> x, new |-> Visible(x),
                                             last |-> LastSequenceID(x)]]
    BY <1>1 DEF GetWorkflowTask
  <2>2. inst' \in [Executions -> Row]
    <3>1. \A l \in {"null", "held", "expired"} :
            [inst EXCEPT ![x].lock = l, ![x].worker = WorkerOf[h]] \in [Executions -> Row]
      BY <1>w, UpdatedRowType DEF States
    <3> QED
      BY <2>1, <3>1
  <2>3. Visible(x) \in FiniteSubsets
    BY SubsetOfEvents DEF Visible, TypeOK
  <2>4. [exec |-> x, new |-> Visible(x), last |-> LastSequenceID(x)] \in WorkflowTask
    BY <2>3, HistoryType DEF WorkflowTask
  <2>5. wtask' \in [Handlers -> WorkflowTask \cup {NoTask}]
    BY <2>1, <2>4 DEF TypeOK
  <2> QED
    BY <1>1, <2>2, <2>5 DEF GetWorkflowTask, TypeOK
<1>2. CASE ExtendWorkflowTask(h)
  <2>1. wtask[h].exec \in Executions
    BY <1>0, <1>2 DEF ExtendWorkflowTask, WorkflowTask
  <2>2. inst' \in [Executions -> Row]
    BY <1>2, <1>w, <2>1, UpdatedRowType DEF ExtendWorkflowTask, States
  <2> QED
    BY <1>2, <2>2 DEF ExtendWorkflowTask, TypeOK
<1>3. CASE CompleteWorkflowTask(h)
  <2> DEFINE t == wtask[h]
  <2>1. t \in WorkflowTask
    BY <1>0, <1>3 DEF CompleteWorkflowTask
  <2>2. PICK E \in ExecutedSets(t), st \in RowStates :
          \E cmd \in CommandsOf(t.exec, E), n \in Executions \cup {0} :
            /\ IF \E r \in Starts(t.exec, st, cmd) : ~AlreadyExists(t.exec, st, r.inst)
               THEN n # 0 /\ IsFresh(n) ELSE n = 0
            /\ Checkpoint(t, E, st, cmd, n)
    BY <1>3 DEF CompleteWorkflowTask
  <2>3. PICK cmd \in CommandsOf(t.exec, E), n \in Executions \cup {0} :
          /\ n # 0 => Starts(t.exec, st, cmd) # {}
          /\ Checkpoint(t, E, st, cmd, n)
    BY <2>2
  <2>4. /\ inst' \in [Executions -> Row]
        /\ pending' \in [Executions -> FiniteSubsets]
        /\ hist' \in [Executions -> Seq(Batch)]
        /\ activities' \subseteq ActivityRow
        /\ nextID' \in Nat
    <3> HIDE DEF t
    <3> QED
      BY <2>1, <2>3, CheckpointType
  <2>5. wtask' \in [Handlers -> WorkflowTask \cup {NoTask}] /\ UNCHANGED <<atask, due>>
    BY <1>3 DEF CompleteWorkflowTask, TypeOK
  <2> QED
    BY <2>4, <2>5 DEF TypeOK
<1>4. CASE DropWorkflowTask(h)
  BY <1>4 DEF DropWorkflowTask, TypeOK
<1> QED
  BY <1>1, <1>2, <1>3, <1>4

\* The activity task operations keep the types.
LEMMA ActivityTaskType ==
    ASSUME TypeOK, NEW h \in Handlers,
           \/ GetActivityTask(h) \/ ExtendActivityTask(h)
           \/ CompleteActivityTask(h) \/ DropActivityTask(h)
    PROVE  TypeOK'
<1>w. WorkerOf[h] \in Workers
  BY ConstantsAssumption
<1>1. CASE GetActivityTask(h)
  <2>1. PICK a \in activities :
          /\ activities' = (activities \ {a})
                             \cup {[a EXCEPT !.lock = "held", !.worker = WorkerOf[h]]}
          /\ atask' = [atask EXCEPT ![h] = [ev |-> a.ev, exec |-> a.exec]]
    BY <1>1 DEF GetActivityTask, FirstUnlocked, Unlocked
  <2>2. a \in ActivityRow
    BY DEF TypeOK
  <2>3. [a EXCEPT !.lock = "held", !.worker = WorkerOf[h]] \in ActivityRow
        /\ [ev |-> a.ev, exec |-> a.exec] \in ActivityTask
    BY <1>w, <2>2 DEF ActivityRow, ActivityTask
  <2>4. activities' \subseteq ActivityRow
    BY <2>1, <2>3 DEF TypeOK
  <2>5. atask' \in [Handlers -> ActivityTask \cup {NoTask}]
    BY <2>1, <2>3 DEF TypeOK
  <2> QED
    BY <1>1, <2>4, <2>5 DEF GetActivityTask, TypeOK
<1>2. CASE ExtendActivityTask(h)
  <2>1. PICK a \in activities : activities' = (activities \ {a}) \cup {[a EXCEPT !.lock = "held"]}
    BY <1>2 DEF ExtendActivityTask, OwnActivity
  <2>2. a \in ActivityRow
    BY DEF TypeOK
  <2>3. [a EXCEPT !.lock = "held"] \in ActivityRow
    BY <2>2 DEF ActivityRow
  <2>4. activities' \subseteq ActivityRow
    BY <2>1, <2>3 DEF TypeOK
  <2> QED
    BY <1>2, <2>4 DEF ExtendActivityTask, TypeOK
<1>3. CASE CompleteActivityTask(h)
  <2>1. PICK a \in activities :
          /\ activities' = activities \ {a}
          /\ pending' = [pending EXCEPT ![a.exec] =
                            @ \cup {Ev(nextID, "ActivityCompleted", a.ev.of)}]
    BY <1>3 DEF CompleteActivityTask, OwnActivity
  <2>2. a.exec \in Executions /\ a.ev.of \in Nat
    BY DEF TypeOK, ActivityRow, Event
  <2>3. pending' \in [Executions -> FiniteSubsets]
    BY <2>1, <2>2, UpdatedPendingType DEF EventKinds
  <2>4. activities' \subseteq ActivityRow
    BY <2>1 DEF TypeOK
  <2> QED
    BY <1>3, <2>3, <2>4 DEF CompleteActivityTask, TypeOK
<1>4. CASE DropActivityTask(h)
  BY <1>4 DEF DropActivityTask, TypeOK
<1> QED
  BY <1>1, <1>2, <1>3, <1>4

\* Timeouts and timers keep the types.
LEMMA TimeType == TypeOK /\ TimeNext => TypeOK'
<1> SUFFICES ASSUME TypeOK, TimeNext PROVE TypeOK'
  OBVIOUS
<1>0. Workers \cup {NoWorker} # {} /\ "removed" \in States
  BY DEF States
<1>1. ASSUME NEW x \in Executions, WorkflowLockExpires(x) PROVE TypeOK'
  <2>1. inst' \in [Executions -> Row]
    BY <1>0, <1>1, UpdatedRowType DEF WorkflowLockExpires
  <2> QED
    BY <1>1, <2>1 DEF WorkflowLockExpires, TypeOK
<1>2. ASSUME NEW x \in Executions, StickyExpires(x) PROVE TypeOK'
  <2>1. inst' \in [Executions -> Row]
    BY <1>0, <1>2, UpdatedRowType DEF StickyExpires
  <2> QED
    BY <1>2, <2>1 DEF StickyExpires, TypeOK
<1>3. ASSUME NEW a \in activities, ActivityLockExpires(a) PROVE TypeOK'
  <2>1. a \in ActivityRow
    BY DEF TypeOK
  <2>2. [a EXCEPT !.lock = "expired"] \in ActivityRow
    BY <2>1 DEF ActivityRow
  <2>3. activities' \subseteq ActivityRow
    BY <1>3, <2>2 DEF ActivityLockExpires, TypeOK
  <2> QED
    BY <1>3, <2>3 DEF ActivityLockExpires, TypeOK
<1>4. ASSUME NEW x \in Executions, NEW e \in pending[x], TimerDue(e) PROVE TypeOK'
  <2>1. e.id \in Nat
    BY DEF TypeOK, FiniteSubsets, Event
  <2> QED
    BY <1>4, <2>1 DEF TimerDue, TypeOK
<1> QED
  BY <1>1, <1>2, <1>3, <1>4 DEF TimeNext

\* The empty database is well typed.
LEMMA InitType == Init => TypeOK
<1> SUFFICES ASSUME Init PROVE TypeOK
  OBVIOUS
<1> DEFINE i == CHOOSE i \in Instances : TRUE
<1>1. i \in Instances
  BY ConstantsAssumption
<1>2. NewRow(i, 0, 0) \in Row
  BY <1>1, NewRowType
<1>3. [NewRow(i, 0, 0) EXCEPT !.state = "unused"] \in Row
  BY <1>2 DEF Row, States
<1>4. inst \in [Executions -> Row]
  BY <1>3 DEF Init
<1>5. {} \in FiniteSubsets /\ <<>> \in Seq(Batch)
  BY FS_EmptySet DEF FiniteSubsets
<1> QED
  BY <1>4, <1>5 DEF Init, TypeOK

\* Every step keeps the types.
LEMMA StepType == TypeOK /\ [Next]_vars => TypeOK'
<1> SUFFICES ASSUME TypeOK, [Next]_vars PROVE TypeOK'
  OBVIOUS
<1>1. CASE ClientNext
  BY <1>1, ClientType
<1>2. CASE WorkerNext
  BY <1>2, WorkflowTaskType, ActivityTaskType DEF WorkerNext
<1>3. CASE TimeNext
  BY <1>3, TimeType
<1>4. CASE UNCHANGED vars
  BY <1>4 DEF vars, TypeOK
<1> QED
  BY <1>1, <1>2, <1>3, <1>4 DEF Next

(* Whatever clients, workers and time do, the tables and the tasks in      *)
(* flight keep their types: sequence ids are natural numbers, every task   *)
(* and every event names an execution, pending sets stay finite (all of    *)
(* the backend's operations, for every bound).                             *)
THEOREM TypeCorrect == Spec => []TypeOK
<1>1. Init => TypeOK
  BY InitType
<1>2. TypeOK /\ [Next]_vars => TypeOK'
  BY StepType
<1> QED
  BY <1>1, <1>2, PTL DEF Spec

-----------------------------------------------------------------------------
(* Numbering of the histories.  HistoryContiguous alone is not inductive:  *)
(* a checkpoint continues the history only if its task's last sequence id  *)
(* is still the history's.  StaleTasksFenced says which tasks that is true *)
(* of, and that the others fail to insert their events.                    *)

IInv == TypeOK /\ HistoryContiguous /\ StaleTasksFenced

\* A step that writes no history, adds no task and deletes no event.
LEMMA QuietStep ==
    ASSUME IInv,
           \A h \in Handlers : wtask'[h] \in {wtask[h], NoTask},
           \A x \in Executions :
               /\ hist'[x] = hist[x]
               /\ pending[x] \subseteq pending'[x]
               /\ \/ inst'[x].state = inst[x].state
                  \/ inst[x].state = "unused"
                  \/ inst'[x].state \in {"removed", "purged"},
           due \subseteq due'
    PROVE  HistoryContiguous' /\ StaleTasksFenced'
<1>1. ASSUME NEW x \in Executions
      PROVE  /\ Recorded(x)' = Recorded(x)
             /\ LastSequenceID(x)' = LastSequenceID(x)
             /\ Visible(x) \subseteq Visible(x)'
  BY DEF Recorded, LastSequenceID, Visible
<1>2. HistoryContiguous'
  BY DEF HistoryContiguous, IInv
<1>3. ASSUME NEW h \in Handlers, wtask'[h] # NoTask
      PROVE  /\ wtask'[h] = wtask[h] /\ wtask[h].exec \in Executions
             /\ Current(wtask[h]) \/ Fenced(wtask[h])
  BY <1>3 DEF IInv, StaleTasksFenced, TasksCurrentOrFenced, TypeOK, WorkflowTask
<1>4. ASSUME NEW h \in Handlers, wtask'[h] # NoTask, Fenced(wtask[h])
      PROVE  Fenced(wtask[h])'
  BY <1>1, <1>3, <1>4 DEF Fenced
<1>5. ASSUME NEW h \in Handlers, wtask'[h] # NoTask, Current(wtask[h])
      PROVE  Current(wtask[h])' \/ Fenced(wtask[h])'
  BY <1>1, <1>3, <1>5 DEF Fenced, Current, IsActive
<1>6. TasksCurrentOrFenced'
  BY <1>3, <1>4, <1>5 DEF TasksCurrentOrFenced
<1>7. CurrentTasksOverlap'
  <2> SUFFICES ASSUME NEW h \in Handlers, NEW g \in Handlers,
                      wtask'[h] # NoTask, wtask'[g] # NoTask, wtask'[h].exec = wtask'[g].exec,
                      ~Fenced(wtask[h])', ~Fenced(wtask[g])'
               PROVE  wtask'[h].new \cap wtask'[g].new # {}
    BY DEF CurrentTasksOverlap
  <2>1. ~Fenced(wtask[h]) /\ ~Fenced(wtask[g])
    BY <1>4
  <2> QED
    BY <1>3, <2>1 DEF IInv, StaleTasksFenced, CurrentTasksOverlap
<1> QED
  BY <1>2, <1>6, <1>7 DEF StaleTasksFenced

\* A step that removes execution x with its history.
LEMMA RemovalStep ==
    ASSUME IInv, NEW x \in Executions,
           \A h \in Handlers : wtask'[h] \in {wtask[h], NoTask},
           inst'[x].state = "removed", hist'[x] = <<>>,
           \A y \in Executions \ {x} :
               /\ hist'[y] = hist[y]
               /\ pending[y] \subseteq pending'[y]
               /\ inst'[y].state = inst[y].state \/ inst[y].state = "unused",
           UNCHANGED due
    PROVE  HistoryContiguous' /\ StaleTasksFenced'
<1>1. ASSUME NEW y \in Executions \ {x}
      PROVE  /\ Recorded(y)' = Recorded(y)
             /\ LastSequenceID(y)' = LastSequenceID(y)
             /\ Visible(y) \subseteq Visible(y)'
  BY DEF Recorded, LastSequenceID, Visible
<1>2. HistoryContiguous'
  BY DEF HistoryContiguous, IInv
<1>3. ASSUME NEW h \in Handlers, wtask'[h] # NoTask
      PROVE  /\ wtask'[h] = wtask[h] /\ wtask[h].exec \in Executions
             /\ Current(wtask[h]) \/ Fenced(wtask[h])
  BY <1>3 DEF IInv, StaleTasksFenced, TasksCurrentOrFenced, TypeOK, WorkflowTask
<1>4. ASSUME NEW h \in Handlers, wtask'[h] # NoTask, wtask[h].exec = x
      PROVE  Fenced(wtask[h])'
  BY <1>3, <1>4 DEF Fenced
<1>5. ASSUME NEW h \in Handlers, wtask'[h] # NoTask, wtask[h].exec # x, Fenced(wtask[h])
      PROVE  Fenced(wtask[h])'
  BY <1>1, <1>3, <1>5 DEF Fenced
<1>6. ASSUME NEW h \in Handlers, wtask'[h] # NoTask, wtask[h].exec # x, Current(wtask[h])
      PROVE  Current(wtask[h])'
  BY <1>1, <1>3, <1>6 DEF Current, IsActive
<1>7. TasksCurrentOrFenced'
  BY <1>3, <1>4, <1>5, <1>6 DEF TasksCurrentOrFenced
<1>8. CurrentTasksOverlap'
  <2> SUFFICES ASSUME NEW h \in Handlers, NEW g \in Handlers,
                      wtask'[h] # NoTask, wtask'[g] # NoTask, wtask'[h].exec = wtask'[g].exec,
                      ~Fenced(wtask[h])', ~Fenced(wtask[g])'
               PROVE  wtask'[h].new \cap wtask'[g].new # {}
    BY DEF CurrentTasksOverlap
  <2>1. ~Fenced(wtask[h]) /\ ~Fenced(wtask[g])
    BY <1>4, <1>5
  <2> QED
    BY <1>3, <2>1 DEF IInv, StaleTasksFenced, CurrentTasksOverlap
<1> QED
  BY <1>2, <1>7, <1>8 DEF StaleTasksFenced

\* A checkpoint of a current task: it continues the history, and fences the
\* other current tasks of its execution.
LEMMA CheckpointStep ==
    ASSUME IInv, NEW h \in Handlers, wtask[h] # NoTask, ~Fenced(wtask[h]),
           wtask' = [wtask EXCEPT ![h] = NoTask],
           NEW x \in Executions, x = wtask[h].exec,
           NEW b \in Batch, b.after = wtask[h].last, b.executed = wtask[h].new,
           hist'[x] = Append(hist[x], b),
           \A y \in Executions \ {x} :
               /\ hist'[y] = hist[y]
               /\ pending[y] \subseteq pending'[y]
               /\ inst'[y].state = inst[y].state \/ inst[y].state = "unused",
           UNCHANGED due
    PROVE  HistoryContiguous' /\ StaleTasksFenced'
<1> DEFINE t == wtask[h]
<1>0. hist[x] \in Seq(Batch) /\ t.last = LastSequenceID(x)
  BY DEF IInv, StaleTasksFenced, TasksCurrentOrFenced, Current, TypeOK
<1>1. ASSUME NEW y \in Executions \ {x}
      PROVE  /\ Recorded(y)' = Recorded(y)
             /\ LastSequenceID(y)' = LastSequenceID(y)
             /\ Visible(y) \subseteq Visible(y)'
  BY DEF Recorded, LastSequenceID, Visible
<1>2. /\ DOMAIN hist'[x] = DOMAIN hist[x] \cup {Len(hist[x]) + 1}
      /\ DOMAIN hist[x] = 1 .. Len(hist[x]) /\ Len(hist[x]) \in Nat
      /\ \A i \in DOMAIN hist[x] : hist'[x][i] = hist[x][i]
      /\ hist'[x][Len(hist[x]) + 1] = b
  BY <1>0
<1>3. HistoryContiguous'
  <2>1. ASSUME NEW i \in DOMAIN hist'[x]
        PROVE  hist'[x][i].after = IF i = 1 THEN 0 ELSE hist'[x][i - 1].upto
    <3>1. CASE i \in DOMAIN hist[x]
      <4>1. i # 1 => i - 1 \in DOMAIN hist[x]
        BY <1>2, <3>1
      <4> QED
        BY <1>2, <3>1, <4>1 DEF IInv, HistoryContiguous
    <3>2. CASE i = Len(hist[x]) + 1
      <4>1. CASE hist[x] = <<>>
        BY <1>0, <1>2, <3>2, <4>1 DEF LastSequenceID
      <4>2. CASE hist[x] # <<>>
        <5>1. Len(hist[x]) \in DOMAIN hist[x] /\ i # 1 /\ i - 1 = Len(hist[x])
          BY <1>0, <1>2, <3>2, <4>2
        <5> QED
          BY <1>0, <1>2, <3>2, <4>2, <5>1 DEF LastSequenceID
      <4> QED
        BY <4>1, <4>2
    <3> QED
      BY <1>2, <3>1, <3>2
  <2>2. ASSUME NEW y \in Executions \ {x}, NEW i \in DOMAIN hist'[y]
        PROVE  hist'[y][i].after = IF i = 1 THEN 0 ELSE hist'[y][i - 1].upto
    <3>1. hist'[y] = hist[y]
      OBVIOUS
    <3> QED
      BY <3>1 DEF IInv, HistoryContiguous
  <2>3. ASSUME NEW y \in Executions, NEW i \in DOMAIN hist'[y]
        PROVE  hist'[y][i].after = IF i = 1 THEN 0 ELSE hist'[y][i - 1].upto
    <3>1. CASE y = x
      BY ONLY <2>1, <3>1, i \in DOMAIN hist'[y]
    <3>2. CASE y # x
      BY ONLY <2>2, <3>2, y \in Executions, i \in DOMAIN hist'[y]
    <3> QED
      BY <3>1, <3>2
  <2> QED
    BY <2>3 DEF HistoryContiguous
<1>4. t.new \subseteq Recorded(x)' /\ Recorded(x) \subseteq Recorded(x)'
  <2>1. t.new \subseteq Recorded(x)'
    BY <1>2 DEF Recorded
  <2>2. Recorded(x) \subseteq Recorded(x)'
    BY <1>2 DEF Recorded
  <2> QED
    BY <2>1, <2>2
<1>5. ASSUME NEW g \in Handlers, wtask'[g] # NoTask
      PROVE  /\ g # h /\ wtask'[g] = wtask[g] /\ wtask[g].exec \in Executions
             /\ Current(wtask[g]) \/ Fenced(wtask[g])
  BY <1>5 DEF IInv, StaleTasksFenced, TasksCurrentOrFenced, TypeOK, WorkflowTask
<1>6. ASSUME NEW g \in Handlers, wtask'[g] # NoTask, wtask[g].exec = x
      PROVE  Fenced(wtask[g])'
  <2>1. wtask[g].new \cap Recorded(x)' # {} \/ inst[x].state \in {"removed", "purged"}
    <3>1. CASE Fenced(wtask[g])
      BY <1>4, <1>6, <3>1 DEF Fenced
    <3>2. CASE ~Fenced(wtask[g])
      <4>1. wtask[g].new \cap t.new # {}
        BY <1>5, <1>6, <3>2 DEF IInv, StaleTasksFenced, CurrentTasksOverlap
      <4> QED
        BY <1>4, <4>1
    <3> QED
      BY <3>1, <3>2
  <2>2. inst[x].state \notin {"removed", "purged"}
    BY DEF Fenced
  <2> QED
    BY <1>5, <1>6, <2>1, <2>2 DEF Fenced
<1>7. ASSUME NEW g \in Handlers, wtask'[g] # NoTask, wtask[g].exec # x, Fenced(wtask[g])
      PROVE  Fenced(wtask[g])'
  BY <1>1, <1>5, <1>7 DEF Fenced
<1>8. ASSUME NEW g \in Handlers, wtask'[g] # NoTask, wtask[g].exec # x, Current(wtask[g])
      PROVE  Current(wtask[g])'
  BY <1>1, <1>5, <1>8 DEF Current, IsActive
<1>9. TasksCurrentOrFenced'
  BY <1>5, <1>6, <1>7, <1>8 DEF TasksCurrentOrFenced
<1>10. CurrentTasksOverlap'
  <2> SUFFICES ASSUME NEW g \in Handlers, NEW k \in Handlers,
                      wtask'[g] # NoTask, wtask'[k] # NoTask, wtask'[g].exec = wtask'[k].exec,
                      ~Fenced(wtask[g])', ~Fenced(wtask[k])'
               PROVE  wtask'[g].new \cap wtask'[k].new # {}
    BY DEF CurrentTasksOverlap
  <2>1. ~Fenced(wtask[g]) /\ ~Fenced(wtask[k])
    BY <1>6, <1>7
  <2> QED
    BY <1>5, <2>1 DEF IInv, StaleTasksFenced, CurrentTasksOverlap
<1> QED
  BY <1>3, <1>9, <1>10 DEF StaleTasksFenced

\* What a checkpoint leaves alone in the other executions.
LEMMA CheckpointFrame ==
    ASSUME TypeOK, NEW t \in WorkflowTask, NEW E, NEW st, NEW cmd,
           NEW n \in Executions \cup {0}, n # 0 => inst[n].state = "unused",
           Checkpoint(t, E, st, cmd, n),
           NEW y \in Executions, y # t.exec
    PROVE  /\ hist'[y] = hist[y]
           /\ pending[y] \subseteq pending'[y]
           /\ inst'[y].state = inst[y].state \/ inst[y].state = "unused"
<1>0. y # 0
  BY ExecutionsType
<1>1. hist'[y] = hist[y]
  BY DEF Checkpoint, TypeOK, WorkflowTask
<1>2. pending[y] \subseteq pending'[y]
  <2>1. pending'[y] = {e \in pending[y] : y = t.exec => ~Deleted(E, cmd, e)}
                        \cup SentTo(y, Messages(t.exec, st, cmd, n))
    BY DEF Checkpoint
  <2> QED
    BY <2>1
<1>3. y # n => inst'[y] = inst[y]
  BY DEF Checkpoint
<1> QED
  BY <1>0, <1>1, <1>2, <1>3

\* What a completion has checked, and what it writes: the task is not fenced.
LEMMA CompletionStep ==
    ASSUME UniqueEventIDs, ~EventsMayFail, IInv,
           NEW h \in Handlers, CompleteWorkflowTask(h)
    PROVE  /\ wtask[h] # NoTask /\ wtask[h] \in WorkflowTask /\ ~Fenced(wtask[h])
           /\ UNCHANGED due /\ wtask' = [wtask EXCEPT ![h] = NoTask]
           /\ \E st \in RowStates :
               \E cmd \in CommandsOf(wtask[h].exec, wtask[h].new), n \in Executions \cup {0} :
                 /\ n # 0 => inst[n].state = "unused"
                 /\ Checkpoint(wtask[h], wtask[h].new, st, cmd, n)
<1> DEFINE t == wtask[h]
<1>1. t # NoTask /\ t \in WorkflowTask
  BY DEF CompleteWorkflowTask, IInv, TypeOK
<1>2. ExecutedSets(t) = {t.new}
  BY DEF ExecutedSets
<1>3. PICK st \in RowStates :
        /\ Owns(WorkerOf[h], t.exec)
        /\ Insertable(t.exec, t.new)
        /\ \E cmd \in CommandsOf(t.exec, t.new), n \in Executions \cup {0} :
             /\ IF \E r \in Starts(t.exec, st, cmd) : ~AlreadyExists(t.exec, st, r.inst)
                THEN n # 0 /\ IsFresh(n) ELSE n = 0
             /\ Checkpoint(t, t.new, st, cmd, n)
  BY <1>2 DEF CompleteWorkflowTask
<1>4. ~Fenced(t)
  BY <1>3 DEF Owns, Exists, RowStates, Insertable, Fenced
<1>5. \E cmd \in CommandsOf(t.exec, t.new), n \in Executions \cup {0} :
        /\ n # 0 => inst[n].state = "unused"
        /\ Checkpoint(t, t.new, st, cmd, n)
  BY <1>3 DEF IsFresh
<1>6. UNCHANGED due /\ wtask' = [wtask EXCEPT ![h] = NoTask]
  BY DEF CompleteWorkflowTask
<1> QED
  BY <1>1, <1>4, <1>5, <1>6

\* A completion that succeeds continues the history or removes it.
LEMMA CompletionNumbered ==
    ASSUME UniqueEventIDs, ~EventsMayFail, IInv,
           NEW h \in Handlers, CompleteWorkflowTask(h)
    PROVE  HistoryContiguous' /\ StaleTasksFenced'
<1> DEFINE t == wtask[h]
           x == t.exec
<1>1. /\ t # NoTask /\ t \in WorkflowTask /\ ~Fenced(t)
      /\ UNCHANGED due /\ wtask' = [wtask EXCEPT ![h] = NoTask]
  BY CompletionStep
<1>2. PICK st \in RowStates :
        \E cmd \in CommandsOf(x, t.new), n \in Executions \cup {0} :
          /\ n # 0 => inst[n].state = "unused"
          /\ Checkpoint(t, t.new, st, cmd, n)
  BY CompletionStep
<1>3. PICK cmd \in CommandsOf(x, t.new), n \in Executions \cup {0} :
        /\ n # 0 => inst[n].state = "unused"
        /\ Checkpoint(t, t.new, st, cmd, n)
  BY <1>2
<1>4. x \in Executions /\ TypeOK
  BY <1>1 DEF WorkflowTask, IInv
<1>5. \A y \in Executions \ {x} :
        /\ hist'[y] = hist[y]
        /\ pending[y] \subseteq pending'[y]
        /\ inst'[y].state = inst[y].state \/ inst[y].state = "unused"
  <2> HIDE DEF t
  <2> QED
    BY <1>1, <1>3, <1>4, CheckpointFrame
<1>6. CASE RemovedAtOnce(st)
  <2>1. hist'[x] = <<>>
    BY <1>3, <1>4, <1>6 DEF Checkpoint, TypeOK
  <2>2. inst'[x].state = "removed"
    <3>1. inst'[x] = [inst[x] EXCEPT !.lock = "null", !.sticky = TRUE, !.state = "removed"]
      BY <1>3, <1>4, <1>6 DEF Checkpoint
    <3>2. inst[x] \in Row
      BY <1>4 DEF TypeOK
    <3> QED
      BY <3>1, <3>2 DEF Row
  <2>3. \A g \in Handlers : wtask'[g] \in {wtask[g], NoTask}
    BY <1>1, <1>4 DEF TypeOK
  <2> HIDE DEF x
  <2> QED
    BY <1>1, <1>4, <1>5, <2>1, <2>2, <2>3, RemovalStep
<1>7. CASE ~RemovedAtOnce(st)
  <2> DEFINE b == NewBatch(t, t.new, st, cmd)
  <2>1. hist'[x] = Append(hist[x], b)
    BY <1>3, <1>4, <1>7 DEF Checkpoint, TypeOK
  <2>2. b.after = t.last /\ b.executed = t.new
    BY DEF NewBatch
  <2>3. b \in Batch
    <3>1. t.new \in ExecutedSets(t)
      BY DEF ExecutedSets
    <3> HIDE DEF t
    <3> QED
      BY <1>1, <1>4, <3>1, NewBatchType
  <2>4. x = wtask[h].exec
    OBVIOUS
  <2> HIDE DEF x, b
  <2> QED
    BY <1>1, <1>4, <1>5, <2>1, <2>2, <2>3, <2>4, CheckpointStep
<1> QED
  BY <1>6, <1>7

\* A task that is handed out is current, and overlaps the current ones.
LEMMA GetTaskNumbered ==
    ASSUME IInv, NEW h \in Handlers, GetWorkflowTask(h)
    PROVE  HistoryContiguous' /\ StaleTasksFenced'
<1>1. PICK x \in Executions :
        /\ CanLock(WorkerOf[h], x)
        /\ inst' = [inst EXCEPT ![x].lock = "held", ![x].worker = WorkerOf[h]]
        /\ wtask' = [wtask EXCEPT ![h] = [exec |-> x, new |-> Visible(x),
                                           last |-> LastSequenceID(x)]]
  BY DEF GetWorkflowTask
<1>2. UNCHANGED <<pending, hist, due>>
  BY DEF GetWorkflowTask
<1>3. ASSUME NEW y \in Executions
      PROVE  /\ inst'[y].state = inst[y].state
             /\ Recorded(y)' = Recorded(y)
             /\ LastSequenceID(y)' = LastSequenceID(y)
             /\ Visible(y)' = Visible(y)
  <2>1. inst[y] \in Row /\ inst[x] \in Row
    BY DEF IInv, TypeOK
  <2>2. inst'[y].state = inst[y].state
    BY <1>1, <2>1 DEF IInv, TypeOK, Row
  <2> QED
    BY <1>2, <2>2 DEF Recorded, LastSequenceID, Visible
<1>4. HistoryContiguous'
  BY <1>2 DEF HistoryContiguous, IInv
<1>5. /\ wtask'[h].exec = x /\ wtask'[h].new = Visible(x) /\ wtask'[h].last = LastSequenceID(x)
      /\ Visible(x) # {} /\ IsActive(x)
  BY <1>1 DEF IInv, TypeOK, CanLock
<1>6. Current(wtask[h])'
  BY <1>3, <1>5 DEF Current, IsActive
<1>7. ASSUME NEW g \in Handlers, g # h, wtask'[g] # NoTask
      PROVE  /\ wtask'[g] = wtask[g] /\ wtask[g].exec \in Executions
             /\ Current(wtask[g]) \/ Fenced(wtask[g])
             /\ Current(wtask[g]) => Current(wtask[g])'
             /\ Fenced(wtask[g])' <=> Fenced(wtask[g])
  <2>1. wtask'[g] = wtask[g]
    BY <1>1, <1>7 DEF IInv, TypeOK
  <2>2. wtask[g].exec \in Executions
    BY <1>7, <2>1 DEF IInv, TypeOK, WorkflowTask
  <2>3. Current(wtask[g]) \/ Fenced(wtask[g])
    BY <1>7, <2>1 DEF IInv, StaleTasksFenced, TasksCurrentOrFenced
  <2>4. Current(wtask[g]) => Current(wtask[g])'
    BY <1>3, <2>1, <2>2 DEF Current, IsActive
  <2>5. Fenced(wtask[g])' <=> Fenced(wtask[g])
    BY <1>3, <2>1, <2>2 DEF Fenced
  <2> QED
    BY <2>1, <2>2, <2>3, <2>4, <2>5
<1>8. TasksCurrentOrFenced'
  BY <1>6, <1>7 DEF TasksCurrentOrFenced
<1>9. ASSUME NEW g \in Handlers, g # h, wtask'[g] # NoTask, wtask'[g].exec = x,
             ~Fenced(wtask[g])'
      PROVE  wtask'[g].new \cap wtask'[h].new # {}
  BY <1>5, <1>7, <1>9 DEF Current
<1>10. CurrentTasksOverlap'
  <2> SUFFICES ASSUME NEW g \in Handlers, NEW k \in Handlers,
                      wtask'[g] # NoTask, wtask'[k] # NoTask, wtask'[g].exec = wtask'[k].exec,
                      ~Fenced(wtask[g])', ~Fenced(wtask[k])'
               PROVE  wtask'[g].new \cap wtask'[k].new # {}
    BY DEF CurrentTasksOverlap
  <2>1. CASE g = h /\ k = h
    BY <1>5, <2>1
  <2>2. CASE g = h /\ k # h
    BY <1>5, <1>9, <2>2
  <2>3. CASE g # h /\ k = h
    BY <1>5, <1>9, <2>3
  <2>4. CASE g # h /\ k # h
    BY <1>7, <2>4 DEF IInv, StaleTasksFenced, CurrentTasksOverlap
  <2> QED
    BY <2>1, <2>2, <2>3, <2>4
<1> QED
  BY <1>4, <1>8, <1>10 DEF StaleTasksFenced

\* Client operations write no history, or remove it with its row.
LEMMA ClientNumbered == IInv /\ ClientNext => HistoryContiguous' /\ StaleTasksFenced'
<1> SUFFICES ASSUME IInv, ClientNext PROVE HistoryContiguous' /\ StaleTasksFenced'
  OBVIOUS
<1>0. TypeOK
  BY DEF IInv
<1>1. ASSUME NEW i \in Instances, CreateWorkflowInstance(i)
      PROVE  HistoryContiguous' /\ StaleTasksFenced'
  BY <1>0, <1>1, QuietStep DEF CreateWorkflowInstance, IsFresh, TypeOK
<1>2. ASSUME NEW i \in Instances, SignalWorkflow(i)
      PROVE  HistoryContiguous' /\ StaleTasksFenced'
  BY <1>0, <1>2, QuietStep DEF SignalWorkflow, TypeOK
<1>3. ASSUME NEW x \in Executions, CancelWorkflowInstance(x)
      PROVE  HistoryContiguous' /\ StaleTasksFenced'
  BY <1>0, <1>3, QuietStep DEF CancelWorkflowInstance, TypeOK
<1>4. ASSUME NEW x \in Executions, RemoveWorkflowInstance(x)
      PROVE  HistoryContiguous' /\ StaleTasksFenced'
  <2>1. inst[x] \in Row
    BY <1>0 DEF TypeOK
  <2>2. inst'[x].state = "removed" /\ hist'[x] = <<>>
    BY <1>0, <1>4, <2>1 DEF RemoveWorkflowInstance, TypeOK, Row
  <2> QED
    BY <1>0, <1>4, <2>2, RemovalStep DEF RemoveWorkflowInstance, TypeOK
<1>5. ASSUME NEW S \in SUBSET Executions, RemoveWorkflowInstances(S)
      PROVE  HistoryContiguous' /\ StaleTasksFenced'
  <2>1. \A x \in Executions :
          inst'[x].state = inst[x].state \/ inst'[x].state \in {"removed", "purged"}
    BY <1>0, <1>5 DEF RemoveWorkflowInstances, TypeOK, Row
  <2> QED
    BY <1>0, <1>5, <2>1, QuietStep DEF RemoveWorkflowInstances, TypeOK
<1> QED
  BY <1>1, <1>2, <1>3, <1>4, <1>5 DEF ClientNext

\* Of the worker's operations only GetWorkflowTask and CompleteWorkflowTask
\* touch the tasks or the history.
LEMMA WorkerNumbered ==
    ASSUME UniqueEventIDs, ~EventsMayFail, IInv, WorkerNext
    PROVE  HistoryContiguous' /\ StaleTasksFenced'
<1>0. TypeOK
  BY DEF IInv
<1> SUFFICES ASSUME NEW h \in Handlers,
                    \/ GetWorkflowTask(h) \/ ExtendWorkflowTask(h)
                    \/ CompleteWorkflowTask(h) \/ DropWorkflowTask(h)
                    \/ GetActivityTask(h) \/ ExtendActivityTask(h)
                    \/ CompleteActivityTask(h) \/ DropActivityTask(h)
             PROVE  HistoryContiguous' /\ StaleTasksFenced'
  BY DEF WorkerNext
<1>1. CASE GetWorkflowTask(h)
  BY <1>1, GetTaskNumbered
<1>2. CASE ExtendWorkflowTask(h)
  <2>1. \A x \in Executions : inst'[x].state = inst[x].state
    BY <1>0, <1>2 DEF ExtendWorkflowTask, TypeOK, Row
  <2> QED
    BY <1>0, <1>2, <2>1, QuietStep DEF ExtendWorkflowTask
<1>3. CASE CompleteWorkflowTask(h)
  BY <1>3, CompletionNumbered
<1>4. CASE DropWorkflowTask(h)
  BY <1>0, <1>4, QuietStep DEF DropWorkflowTask, TypeOK
<1>5. CASE GetActivityTask(h)
  BY <1>5, QuietStep DEF GetActivityTask
<1>6. CASE ExtendActivityTask(h)
  BY <1>6, QuietStep DEF ExtendActivityTask
<1>7. CASE CompleteActivityTask(h)
  <2>1. \A x \in Executions : pending[x] \subseteq pending'[x]
    BY <1>0, <1>7 DEF CompleteActivityTask, TypeOK
  <2> QED
    BY <1>7, <2>1, QuietStep DEF CompleteActivityTask
<1>8. CASE DropActivityTask(h)
  BY <1>8, QuietStep DEF DropActivityTask
<1> QED
  BY <1>1, <1>2, <1>3, <1>4, <1>5, <1>6, <1>7, <1>8

\* Expiring locks make tasks stale, but change no event.
LEMMA TimeNumbered == IInv /\ TimeNext => HistoryContiguous' /\ StaleTasksFenced'
<1> SUFFICES ASSUME IInv, TimeNext PROVE HistoryContiguous' /\ StaleTasksFenced'
  OBVIOUS
<1>0. inst \in [Executions -> Row]
  BY DEF IInv, TypeOK
<1>1. \A x \in Executions : inst'[x].state = inst[x].state
  BY <1>0 DEF TimeNext, WorkflowLockExpires, StickyExpires, ActivityLockExpires, TimerDue, Row
<1>2. UNCHANGED <<pending, hist, wtask>> /\ due \subseteq due'
  BY DEF TimeNext, WorkflowLockExpires, StickyExpires, ActivityLockExpires, TimerDue
<1> QED
  BY <1>1, <1>2, QuietStep

\* No task is in flight initially.
LEMMA InitNumbered == Init => IInv
BY InitType DEF Init, IInv, HistoryContiguous, StaleTasksFenced, TasksCurrentOrFenced,
                CurrentTasksOverlap

\* IInv is inductive.
LEMMA StepNumbered ==
    ASSUME UniqueEventIDs, ~EventsMayFail
    PROVE  IInv /\ [Next]_vars => IInv'
<1> SUFFICES ASSUME IInv, [Next]_vars PROVE IInv'
  OBVIOUS
<1>0. TypeOK'
  BY StepType DEF IInv
<1>1. HistoryContiguous' /\ StaleTasksFenced'
  <2>1. CASE ClientNext
    BY <2>1, ClientNumbered
  <2>2. CASE WorkerNext
    BY <2>2, WorkerNumbered
  <2>3. CASE TimeNext
    BY <2>3, TimeNumbered
  <2>4. CASE UNCHANGED vars
    BY <2>4, QuietStep DEF vars
  <2> QED
    BY <2>1, <2>2, <2>3, <2>4 DEF Next
<1> QED
  BY <1>0, <1>1 DEF IInv

\* IInv is an invariant of the specification.
LEMMA IInvHolds ==
    ASSUME UniqueEventIDs, ~EventsMayFail
    PROVE  Spec => []IInv
<1>1. Init => IInv
  BY InitNumbered
<1>2. IInv /\ [Next]_vars => IInv'
  BY StepNumbered
<1> QED
  BY <1>1, <1>2, PTL DEF Spec

(* With the history's primary key on event ids, and workflow events that   *)
(* execute without error, every history is numbered without gap or         *)
(* repetition: any number of workers may hold tasks of the same execution, *)
(* lose their locks, and report back in any order (CompleteWorkflowTask).  *)
THEOREM HistoryNumbered ==
    ASSUME UniqueEventIDs, ~EventsMayFail
    PROVE  Spec => []HistoryContiguous
<1>1. IInv => HistoryContiguous
  BY DEF IInv
<1> QED
  BY <1>1, IInvHolds, PTL

(* Under the same assumptions a task in flight is current or fenced off,   *)
(* whatever happened since GetWorkflowTask handed it out.                  *)
THEOREM StaleTasksCannotComplete ==
    ASSUME UniqueEventIDs, ~EventsMayFail
    PROVE  Spec => []StaleTasksFenced
<1>1. IInv => StaleTasksFenced
  BY DEF IInv
<1> QED
  BY <1>1, IInvHolds, PTL

\* In a state that satisfies IInv a step keeps closed executions closed.
LEMMA StepKeepsClosed ==
    ASSUME UniqueEventIDs, ~EventsMayFail, IInv, [Next]_vars
    PROVE  [KeepsClosed]_vars
<1> SUFFICES ASSUME NEW x \in Executions, Exists(x), ~IsActive(x), Next
             PROVE  \/ inst'[x].state = inst[x].state /\ hist'[x] = hist[x]
                    \/ inst'[x].state \in {"removed", "purged"}
  BY DEF KeepsClosed
<1>0. TypeOK /\ inst \in [Executions -> Row] /\ inst[x].state # "unused"
  BY DEF IInv, TypeOK, Exists, RowStates
<1>1. CASE ClientNext
  <2>1. ASSUME NEW i \in Instances, CreateWorkflowInstance(i)
        PROVE  inst'[x] = inst[x] /\ hist'[x] = hist[x]
    BY <1>0, <2>1 DEF CreateWorkflowInstance, IsFresh
  <2>2. ASSUME NEW i \in Instances, SignalWorkflow(i)
        PROVE  inst'[x] = inst[x] /\ hist'[x] = hist[x]
    BY <2>2 DEF SignalWorkflow
  <2>3. ASSUME NEW y \in Executions, CancelWorkflowInstance(y)
        PROVE  inst'[x] = inst[x] /\ hist'[x] = hist[x]
    BY <2>3 DEF CancelWorkflowInstance
  <2>4. ASSUME NEW y \in Executions, RemoveWorkflowInstance(y)
        PROVE  \/ inst'[x].state = inst[x].state /\ hist'[x] = hist[x]
               \/ inst'[x].state = "removed"
    BY <1>0, <2>4 DEF RemoveWorkflowInstance, TypeOK, Row
  <2>5. ASSUME NEW S \in SUBSET Executions, RemoveWorkflowInstances(S)
        PROVE  \/ inst'[x].state = inst[x].state /\ hist'[x] = hist[x]
               \/ inst'[x].state = "purged"
    BY <1>0, <2>5 DEF RemoveWorkflowInstances, Row
  <2> QED
    BY <1>1, <2>1, <2>2, <2>3, <2>4, <2>5 DEF ClientNext
<1>2. ASSUME NEW h \in Handlers, CompleteWorkflowTask(h)
      PROVE  inst'[x].state = inst[x].state /\ hist'[x] = hist[x]
  <2> DEFINE t == wtask[h]
  <2>1. /\ t # NoTask /\ t \in WorkflowTask /\ ~Fenced(t)
        /\ \E st \in RowStates : \E cmd \in CommandsOf(t.exec, t.new), n \in Executions \cup {0} :
             /\ n # 0 => inst[n].state = "unused"
             /\ Checkpoint(t, t.new, st, cmd, n)
    BY <1>2, CompletionStep
  <2>2. IsActive(t.exec)
    BY <2>1 DEF IInv, StaleTasksFenced, TasksCurrentOrFenced, Current
  <2>3. x # t.exec
    BY <2>2
  <2> HIDE DEF t
  <2> QED
    BY <1>0, <2>1, <2>3, CheckpointFrame
<1>3. ASSUME NEW h \in Handlers, GetWorkflowTask(h) \/ ExtendWorkflowTask(h)
      PROVE  inst'[x].state = inst[x].state /\ hist'[x] = hist[x]
  <2>1. CASE GetWorkflowTask(h)
    <3>1. PICK y \in Executions :
            inst' = [inst EXCEPT ![y].lock = "held", ![y].worker = WorkerOf[h]]
      BY <2>1 DEF GetWorkflowTask
    <3>2. inst'[x].state = inst[x].state
      BY <1>0, <3>1 DEF Row
    <3> QED
      BY <2>1, <3>2 DEF GetWorkflowTask
  <2>2. CASE ExtendWorkflowTask(h)
    BY <1>0, <2>2 DEF ExtendWorkflowTask, Row
  <2> QED
    BY <1>3, <2>1, <2>2
<1>4. ASSUME NEW h \in Handlers,
             \/ DropWorkflowTask(h) \/ GetActivityTask(h) \/ ExtendActivityTask(h)
             \/ CompleteActivityTask(h) \/ DropActivityTask(h)
      PROVE  inst'[x].state = inst[x].state /\ hist'[x] = hist[x]
  BY <1>4 DEF DropWorkflowTask, GetActivityTask, ExtendActivityTask, CompleteActivityTask,
              DropActivityTask
<1>5. CASE TimeNext
  BY <1>0, <1>5 DEF TimeNext, WorkflowLockExpires, StickyExpires, ActivityLockExpires, TimerDue, Row
<1> QED
  BY <1>1, <1>2, <1>3, <1>4, <1>5 DEF Next, WorkerNext

(* Under the same assumptions a finished or continued execution is never   *)
(* reopened and its history never extended: the completion of a task that  *)
(* was handed out before the execution closed fails.                       *)
THEOREM ClosedStaysClosed ==
    ASSUME UniqueEventIDs, ~EventsMayFail
    PROVE  Spec => ClosedHistoryFrozen
<1>1. IInv /\ [Next]_vars => [KeepsClosed]_vars
  BY StepKeepsClosed
<1> QED
  BY <1>1, IInvHolds, PTL DEF Spec, ClosedHistoryFrozen
-----------------------------------------------------------------------------
(* The SQL backend implements the execution log, for every number of       *)
(* handlers, workers, instances and events.                                *)

(* A checkpoint takes the events it executed out of the pending table and  *)
(* puts others in, among them none that it took out: events get ids that   *)
(* have not been used.                                                     *)
FreshIDs == \A x \in Executions : \A e \in pending[x] : e.id < nextID

LInv == IInv /\ FreshIDs

\* What CompleteWorkflowTask has chosen: an execution is created only if the
\* task starts one.
LEMMA CompletionChoices ==
    ASSUME UniqueEventIDs, ~EventsMayFail, IInv,
           NEW h \in Handlers, CompleteWorkflowTask(h)
    PROVE  \E st \in RowStates :
             \E cmd \in CommandsOf(wtask[h].exec, wtask[h].new), n \in Executions \cup {0} :
               /\ n # 0 => /\ inst[n].state = "unused"
                           /\ Starts(wtask[h].exec, st, cmd) # {}
               /\ Checkpoint(wtask[h], wtask[h].new, st, cmd, n)
<1> DEFINE t == wtask[h]
<1>1. ExecutedSets(t) = {t.new}
  BY DEF ExecutedSets
<1>2. PICK st \in RowStates :
        \E cmd \in CommandsOf(t.exec, t.new), n \in Executions \cup {0} :
           /\ IF \E r \in Starts(t.exec, st, cmd) : ~AlreadyExists(t.exec, st, r.inst)
              THEN n # 0 /\ IsFresh(n) ELSE n = 0
           /\ Checkpoint(t, t.new, st, cmd, n)
  BY <1>1 DEF CompleteWorkflowTask
<1> QED
  BY <1>2 DEF IsFresh

\* The ids of the events that a checkpoint sends; a checkpoint that takes no
\* new ids sends none.
LEMMA MessageIDs ==
    ASSUME TypeOK, NEW x \in Executions, NEW E, NEW cmd \in CommandsOf(x, E),
           NEW st \in RowStates, NEW n \in Executions \cup {0},
           n # 0 => Starts(x, st, cmd) # {},
           NEW y, NEW e \in SentTo(y, Messages(x, st, cmd, n))
    PROVE  /\ e.id \in {nextID + 1, nextID + 2}
           /\ ~(cmd.kind = "none" /\ st = "Active")
<1> DEFINE A == Msg(IF cmd.kind = "timer" THEN {x} ELSE {}, Ev(nextID + 1, "TimerFired", nextID))
           B == Msg(IF cmd.kind = "cancelSubWorkflow" THEN FirstChild(x, cmd.of) ELSE {},
                    Ev(nextID + 1, "WorkflowExecutionCanceled", 0))
           C == Msg({n} \cap Executions, Ev(nextID + 1, "WorkflowExecutionStarted", 0))
           D(r) == Msg(IF n = 0 THEN {x} ELSE {}, Ev(nextID + 1, "SubWorkflowFailed", r.of))
           F == Msg(IF st = "Finished" THEN {inst[x].parent} \cap Executions ELSE {},
                    Ev(nextID + 2, "SubWorkflowCompleted", inst[x].of))
<1>1. Messages(x, st, cmd, n) = UNION {A, B, C, UNION {D(r) : r \in Starts(x, st, cmd)}, F}
  BY DEF Messages
<1>2. PICK m \in Messages(x, st, cmd, n) : m.ev = e
  BY DEF SentTo
<1>3. /\ \A m1 \in A \cup B \cup C : m1.ev.id = nextID + 1
      /\ \A r \in Starts(x, st, cmd) : \A m1 \in D(r) : m1.ev.id = nextID + 1
      /\ \A m1 \in F : m1.ev.id = nextID + 2
  BY DEF Msg, Ev
<1>4. cmd.kind = "none" /\ st = "Active" =>
        A = {} /\ B = {} /\ C = {} /\ Starts(x, st, cmd) = {} /\ F = {}
  <2> SUFFICES ASSUME cmd.kind = "none", st = "Active"
               PROVE  A = {} /\ B = {} /\ C = {} /\ Starts(x, st, cmd) = {} /\ F = {}
    OBVIOUS
  <2>1. Starts(x, st, cmd) = {}
    BY DEF Starts
  <2>2. n = 0 /\ 0 \notin Executions
    BY <2>1, ExecutionsType
  <2>3. A = {} /\ B = {} /\ C = {} /\ F = {}
    BY <2>2 DEF Msg
  <2> QED
    BY <2>1, <2>3
<1> HIDE DEF A, B, C, D, F
<1>5. \/ m \in A \cup B \cup C \cup F
      \/ \E r \in Starts(x, st, cmd) : m \in D(r)
  BY <1>1, <1>2
<1> QED
  BY <1>2, <1>3, <1>4, <1>5

\* Every event gets an id that has not been used.
LEMMA FreshStep ==
    ASSUME UniqueEventIDs, ~EventsMayFail, LInv, [Next]_vars
    PROVE  FreshIDs'
<1>0. /\ nextID \in Nat /\ pending \in [Executions -> FiniteSubsets]
      /\ \A x \in Executions : \A e \in pending[x] : e.id < nextID /\ e \in Event
  BY DEF LInv, IInv, TypeOK, FreshIDs, FiniteSubsets
<1> SUFFICES ASSUME NEW x \in Executions, NEW e \in pending'[x] PROVE e.id < nextID'
  BY DEF FreshIDs
<1>1. CASE UNCHANGED <<pending, nextID>>
  BY <1>0, <1>1
<1>2. ASSUME nextID' = nextID + 1, NEW y \in Executions, NEW k \in EventKinds, NEW of,
             pending' = [pending EXCEPT ![y] = @ \cup {Ev(nextID, k, of)}]
      PROVE  e.id < nextID'
  <2>1. e \in pending[x] \/ e = Ev(nextID, k, of)
    BY <1>0, <1>2
  <2>2. Ev(nextID, k, of).id = nextID
    BY DEF Ev
  <2>3. e \in pending[x] => e.id < nextID /\ e.id \in Nat
    BY <1>0 DEF Event
  <2> QED
    BY <1>0, <1>2, <2>1, <2>2, <2>3
<1>3. CASE ClientNext
  <2>1. ASSUME NEW i \in Instances, CreateWorkflowInstance(i) PROVE e.id < nextID'
    BY <1>2, <2>1 DEF CreateWorkflowInstance, EventKinds
  <2>2. ASSUME NEW i \in Instances, SignalWorkflow(i) PROVE e.id < nextID'
    BY <1>2, <2>2 DEF SignalWorkflow, EventKinds, ActiveExecutions
  <2>3. ASSUME NEW y \in Executions, CancelWorkflowInstance(y) PROVE e.id < nextID'
    BY <1>2, <2>3 DEF CancelWorkflowInstance, EventKinds
  <2>4. ASSUME NEW y \in Executions, RemoveWorkflowInstance(y) PROVE e.id < nextID'
    BY <1>1, <2>4 DEF RemoveWorkflowInstance
  <2>5. ASSUME NEW S \in SUBSET Executions, RemoveWorkflowInstances(S) PROVE e.id < nextID'
    BY <1>1, <2>5 DEF RemoveWorkflowInstances
  <2> QED
    BY <1>3, <2>1, <2>2, <2>3, <2>4, <2>5 DEF ClientNext
<1>4. ASSUME NEW h \in Handlers, CompleteWorkflowTask(h) PROVE e.id < nextID'
  <2> DEFINE t == wtask[h]
  <2>1. PICK st \in RowStates, cmd \in CommandsOf(t.exec, t.new), n \in Executions \cup {0} :
           /\ n # 0 => Starts(t.exec, st, cmd) # {}
           /\ Checkpoint(t, t.new, st, cmd, n)
    BY <1>4, CompletionChoices DEF LInv
  <2>2. TypeOK /\ t.exec \in Executions
    BY <1>4, CompletionStep DEF LInv, IInv, WorkflowTask
  <2>3. e \in pending[x] \/ e \in SentTo(x, Messages(t.exec, st, cmd, n))
    BY <2>1 DEF Checkpoint
  <2>4. nextID' = IF cmd.kind = "none" /\ st = "Active" THEN nextID ELSE nextID + 3
    BY <2>1 DEF Checkpoint
  <2>5. CASE e \in pending[x]
    BY <1>0, <2>4, <2>5 DEF Event
  <2>6. CASE e \in SentTo(x, Messages(t.exec, st, cmd, n))
    <3>1. e.id \in {nextID + 1, nextID + 2} /\ ~(cmd.kind = "none" /\ st = "Active")
      BY <2>1, <2>2, <2>6, MessageIDs
    <3> QED
      BY <1>0, <2>4, <3>1
  <2> QED
    BY <2>3, <2>5, <2>6
<1>5. ASSUME NEW h \in Handlers, CompleteActivityTask(h) PROVE e.id < nextID'
  <2>1. PICK a \in activities :
          pending' = [pending EXCEPT ![a.exec] =
                         @ \cup {Ev(nextID, "ActivityCompleted", a.ev.of)}]
    BY <1>5 DEF CompleteActivityTask, OwnActivity
  <2>2. a.exec \in Executions
    BY DEF LInv, IInv, TypeOK, ActivityRow
  <2> QED
    BY <1>2, <1>5, <2>1, <2>2 DEF CompleteActivityTask, EventKinds
<1>6. ASSUME NEW h \in Handlers,
             \/ GetWorkflowTask(h) \/ ExtendWorkflowTask(h) \/ DropWorkflowTask(h)
             \/ GetActivityTask(h) \/ ExtendActivityTask(h) \/ DropActivityTask(h)
      PROVE  e.id < nextID'
  BY <1>1, <1>6 DEF GetWorkflowTask, ExtendWorkflowTask, DropWorkflowTask, GetActivityTask,
                    ExtendActivityTask, DropActivityTask
<1>7. CASE TimeNext
  BY <1>1, <1>7 DEF TimeNext, WorkflowLockExpires, StickyExpires, ActivityLockExpires, TimerDue
<1> QED
  BY <1>1, <1>3, <1>4, <1>5, <1>6, <1>7 DEF Next, WorkerNext, vars

LEMMA LInvHolds ==
    ASSUME UniqueEventIDs, ~EventsMayFail
    PROVE  Spec => []LInv
<1>1. Init => LInv
  BY InitNumbered DEF LInv, FreshIDs, Init
<1>2. LInv /\ [Next]_vars => LInv'
  BY FreshStep, StepNumbered DEF LInv
<1> QED
  BY <1>1, <1>2, PTL DEF Spec
-----------------------------------------------------------------------------
(* Every step of the backend is a step of the log, or leaves it alone.     *)

\* What the log sees of a state.
LEMMA Seen ==
    /\ Status = [x \in Executions |-> Status[x]]
    /\ Executed = [x \in Executions |-> Executed[x]]
    /\ \A x \in Executions :
         /\ Status[x] = (CASE inst[x].state = "unused" -> "new"
                           [] inst[x].state = "Active" -> "open"
                           [] inst[x].state \in {"ContinuedAsNew", "Finished"} -> "closed"
                           [] OTHER -> "gone")
         /\ Executed[x] = [i \in DOMAIN hist[x] |-> hist[x][i].executed]
         /\ Log!Logged(x) = Recorded(x)
<1>1. ASSUME NEW x \in Executions PROVE Log!Logged(x) = Recorded(x)
  <2>1. DOMAIN Executed[x] = DOMAIN hist[x]
        /\ \A i \in DOMAIN hist[x] : Executed[x][i] = hist[x][i].executed
    BY DEF Executed
  <2> QED
    BY <2>1 DEF Log!Logged, Recorded
<1> QED
  BY <1>1 DEF Status, Executed

\* ... and of the next one.
LEMMA SeenNext ==
    /\ Status' = [x \in Executions |-> Status'[x]]
    /\ Executed' = [x \in Executions |-> Executed'[x]]
    /\ \A x \in Executions :
         /\ Status'[x] = (CASE inst'[x].state = "unused" -> "new"
                            [] inst'[x].state = "Active" -> "open"
                            [] inst'[x].state \in {"ContinuedAsNew", "Finished"} -> "closed"
                            [] OTHER -> "gone")
         /\ Executed'[x] = [i \in DOMAIN hist'[x] |-> hist'[x][i].executed]
BY DEF Status, Executed

\* Only pending events are added, and at most one row, of an execution that
\* was unused.
LEMMA ReceiveStep ==
    ASSUME hist' = hist,
           \A x \in Executions : pending[x] \subseteq pending'[x],
           NEW new \in SUBSET Executions, \A x, y \in new : x = y,
           \A x \in new : inst[x].state = "unused" /\ inst'[x].state = "Active",
           \A x \in Executions \ new : inst'[x].state = inst[x].state
    PROVE  Log!Next
<1>1. Executed' = Executed
  BY DEF Executed
<1>2. Status' = [x \in Executions |-> IF x \in new THEN "open" ELSE Status[x]]
  BY DEF Status
<1>3. \/ Status' = Status
      \/ \E x \in Executions : Status[x] = "new" /\ Status' = [Status EXCEPT ![x] = "open"]
  <2>1. CASE new = {}
    BY <1>2, <2>1, Seen
  <2>2. CASE new # {}
    <3>1. PICK x \in Executions : new = {x}
      BY <2>2
    <3>2. Status[x] = "new"
      BY <3>1, Seen
    <3>3. Status' = [Status EXCEPT ![x] = "open"]
      BY <1>2, <3>1, Seen
    <3> QED
      BY <3>2, <3>3
  <2> QED
    BY <2>1, <2>2
<1>4. Log!Receive
  BY <1>1, <1>3 DEF Log!Receive
<1> QED
  BY <1>4 DEF Log!Next

\* Rows of closed executions are deleted.
LEMMA RemoveStep ==
    ASSUME TypeOK, NEW S \in SUBSET Executions,
           \A x \in S : inst[x].state \in {"ContinuedAsNew", "Finished"}
                        /\ inst'[x].state \in {"removed", "purged"},
           \A x \in Executions \ S : inst'[x].state = inst[x].state,
           \A x \in Executions : hist'[x] = hist[x] \/ (x \in S /\ hist'[x] = <<>>),
           pending' = pending
    PROVE  Log!Next
<1>1. \A x \in S : Status[x] = "closed"
  BY Seen
<1>2. Status' = [x \in Executions |-> IF x \in S THEN "gone" ELSE Status[x]]
  BY DEF Status
<1>3. ASSUME NEW x \in Executions
      PROVE  Executed'[x] = Executed[x] \/ (x \in S /\ Executed'[x] = <<>>)
  <2>1. CASE hist'[x] = hist[x]
    <3>1. /\ Executed[x] = [i \in DOMAIN hist[x] |-> hist[x][i].executed]
          /\ Executed'[x] = [i \in DOMAIN hist'[x] |-> hist'[x][i].executed]
      BY Seen, SeenNext
    <3> QED
      BY ONLY <2>1, <3>1
  <2>2. CASE x \in S /\ hist'[x] = <<>>
    <3>1. Executed'[x] = [i \in DOMAIN hist'[x] |-> hist'[x][i].executed]
      BY SeenNext
    <3>2. DOMAIN hist'[x] = {}
      BY <2>2
    <3> QED
      BY <2>2, <3>1, <3>2
  <2> QED
    BY <2>1, <2>2
<1>4. Log!Remove(S)
  BY <1>1, <1>2, <1>3 DEF Log!Remove
<1> QED
  BY <1>4 DEF Log!Next

\* What a checkpoint writes to the row of an execution.
LEMMA CheckpointRows ==
    ASSUME TypeOK, NEW t \in WorkflowTask, NEW E, NEW st \in RowStates, NEW cmd,
           NEW n \in Executions \cup {0},
           n # 0 => Starts(t.exec, st, cmd) # {},
           Checkpoint(t, E, st, cmd, n)
    PROVE  /\ inst'[t.exec].state = IF RemovedAtOnce(st) THEN "removed" ELSE st
           /\ \A y \in Executions \ {t.exec} :
                inst'[y].state = IF y = n THEN "Active" ELSE inst[y].state
<1> DEFINE x == t.exec
<1>1. x \in Executions /\ inst[x] \in Row
  BY DEF TypeOK, WorkflowTask
<1>2. inst'[x].state = IF RemovedAtOnce(st) THEN "removed" ELSE st
  BY <1>1 DEF Checkpoint, Row
<1>3. ASSUME NEW y \in Executions \ {x}, y = n PROVE inst'[y].state = "Active"
  <2>1. inst'[y] \in Starts(x, st, cmd)
    <3>1. Starts(x, st, cmd) # {}
      BY <1>3, ExecutionsType
    <3> QED
      BY <1>3, <3>1 DEF Checkpoint
  <2>2. \A r \in Starts(x, st, cmd) : r.state = "Active"
    BY DEF Starts, NewRow
  <2> QED
    BY <2>1, <2>2
<1>4. ASSUME NEW y \in Executions \ {x}, y # n PROVE inst'[y].state = inst[y].state
  BY <1>4 DEF Checkpoint
<1> QED
  BY <1>2, <1>3, <1>4

\* Appending a checkpoint's batch appends its events.
LEMMA AppendedBatch ==
    ASSUME NEW h \in Seq(Batch), NEW b \in Batch
    PROVE  /\ [i \in DOMAIN Append(h, b) |-> Append(h, b)[i].executed]
                = Append([i \in DOMAIN h |-> h[i].executed], b.executed)
           /\ Len(h) + 1 \in DOMAIN Append(h, b)
           /\ Append(h, b)[Len(h) + 1].executed = b.executed
<1> DEFINE s == [i \in DOMAIN h |-> h[i].executed]
<1>1. /\ Len(h) \in Nat /\ DOMAIN h = 1 .. Len(h)
      /\ \A i \in 1 .. Len(h) : h[i] \in Batch
  OBVIOUS
<1>2. s \in Seq(FiniteSubsets) /\ Len(s) = Len(h) /\ DOMAIN s = DOMAIN h
  BY <1>1 DEF Batch
<1>3. b.executed \in FiniteSubsets
  BY DEF Batch
<1>4. Append(s, b.executed) \in Seq(FiniteSubsets) /\ Len(Append(s, b.executed)) = Len(h) + 1
  BY <1>2, <1>3
<1>5. DOMAIN Append(h, b) = 1 .. Len(h) + 1 /\ DOMAIN Append(s, b.executed) = 1 .. Len(h) + 1
  BY <1>1, <1>4
<1>6. ASSUME NEW i \in 1 .. Len(h) + 1
      PROVE  Append(h, b)[i].executed = Append(s, b.executed)[i]
  <2>1. CASE i = Len(h) + 1
    BY <1>1, <1>2, <1>3, <2>1
  <2>2. CASE i \in 1 .. Len(h)
    BY <1>1, <1>2, <1>3, <2>2
  <2> QED
    BY <1>1, <2>1, <2>2
<1>7. Append(s, b.executed) = [i \in 1 .. Len(h) + 1 |-> Append(s, b.executed)[i]]
  BY <1>4, <1>5
<1>8. Append(h, b)[Len(h) + 1] = b /\ Len(h) + 1 \in 1 .. Len(h) + 1
  BY <1>1
<1> QED
  BY <1>5, <1>6, <1>7, <1>8

\* The checkpoint of a task that is not fenced off is recorded in the log.
LEMMA RecordStep ==
    ASSUME UniqueEventIDs, ~EventsMayFail, LInv,
           NEW h \in Handlers, CompleteWorkflowTask(h)
    PROVE  Log!Next
<1> DEFINE t == wtask[h]
           x == t.exec
           E == t.new
<1>1. /\ t # NoTask /\ t \in WorkflowTask /\ ~Fenced(t)
      /\ TypeOK /\ x \in Executions
  BY CompletionStep DEF LInv, IInv, WorkflowTask
<1>2. Current(t)
  BY <1>1 DEF LInv, IInv, StaleTasksFenced, TasksCurrentOrFenced
<1>3. PICK st \in RowStates :
        \E cmd \in CommandsOf(x, E), n \in Executions \cup {0} :
          /\ n # 0 => inst[n].state = "unused" /\ Starts(x, st, cmd) # {}
          /\ Checkpoint(t, E, st, cmd, n)
  BY CompletionChoices DEF LInv
<1>4. PICK cmd \in CommandsOf(x, E), n \in Executions \cup {0} :
          /\ n # 0 => inst[n].state = "unused" /\ Starts(x, st, cmd) # {}
          /\ Checkpoint(t, E, st, cmd, n)
  BY <1>3
<1>5. E \in ExecutedSets(t)
  BY DEF ExecutedSets
<1> HIDE DEF t
<1>6. E \subseteq pending[x] /\ E \cap Recorded(x) = {} /\ Status[x] = "open"
  BY <1>1, <1>2, Seen DEF Current, Visible, Fenced, IsActive
<1>7. /\ inst'[x].state = IF RemovedAtOnce(st) THEN "removed" ELSE st
      /\ \A y \in Executions \ {x} :
           inst'[y].state = IF y = n THEN "Active" ELSE inst[y].state
  BY <1>1, <1>4, CheckpointRows
<1>8. \A y \in Executions \ {x} : hist'[y] = hist[y] /\ pending[y] \subseteq pending'[y]
  BY <1>1, <1>4, CheckpointFrame
<1>9. Log!OthersReceive(x)
  BY <1>8 DEF Log!OthersReceive
<1>10. Log!OthersOpen(x)
  <2> DEFINE new == {n} \cap (Executions \ {x})
  <2>1. new \in SUBSET {y \in Executions \ {x} : Status[y] = "new"}
    BY <1>4, Seen, ExecutionsType
  <2>2. \A y, z \in new : y = z
    OBVIOUS
  <2>3. \A y \in Executions \ {x} : Status'[y] = IF y \in new THEN "open" ELSE Status[y]
    BY <1>7, Seen, SeenNext
  <2> QED
    BY <2>1, <2>2, <2>3 DEF Log!OthersOpen
<1>11. \A y \in Executions \ {x} : Executed'[y] = Executed[y]
  BY <1>8, Seen, SeenNext
<1>12. CASE RemovedAtOnce(st)
  <2>1. hist'[x] = <<>>
    BY <1>1, <1>4, <1>12 DEF Checkpoint, TypeOK
  <2>2. Executed'[x] = <<>>
    BY <1>1, <2>1, SeenNext
  <2>3. Executed' = [Executed EXCEPT ![x] = <<>>]
    BY <1>1, <1>11, <2>2, Seen, SeenNext
  <2>4. Status'[x] = "gone"
    BY <1>1, <1>7, <1>12, SeenNext
  <2>5. Log!RecordAndRemove(x)
    BY <1>6, <1>9, <1>10, <2>3, <2>4 DEF Log!RecordAndRemove
  <2> QED
    BY <1>1, <2>5 DEF Log!Next
<1>13. CASE ~RemovedAtOnce(st)
  <2> DEFINE b == NewBatch(t, E, st, cmd)
  <2>1. hist'[x] = Append(hist[x], b)
    BY <1>1, <1>4, <1>13 DEF Checkpoint, TypeOK
  <2>2. b \in Batch /\ b.executed = E /\ hist[x] \in Seq(Batch)
    <3>1. b \in Batch
      BY <1>1, <1>5, NewBatchType
    <3> QED
      BY <1>1, <3>1 DEF NewBatch, TypeOK
  <2> HIDE DEF b
  <2>3. /\ Executed'[x] = Append(Executed[x], E)
        /\ Len(hist[x]) + 1 \in DOMAIN Executed'[x]
        /\ Executed'[x][Len(hist[x]) + 1] = E
    <3> DEFINE g == hist[x]
    <3>1. Executed[x] = [i \in DOMAIN g |-> g[i].executed]
      BY <1>1, Seen
    <3>2. Executed'[x] = [i \in DOMAIN Append(g, b) |-> Append(g, b)[i].executed]
      BY <1>1, <2>1, SeenNext
    <3>3. g \in Seq(Batch) /\ b \in Batch /\ b.executed = E
      BY <2>2
    <3> HIDE DEF g
    <3>4. /\ [i \in DOMAIN Append(g, b) |-> Append(g, b)[i].executed]
                = Append([i \in DOMAIN g |-> g[i].executed], E)
          /\ Len(g) + 1 \in DOMAIN Append(g, b)
          /\ Append(g, b)[Len(g) + 1].executed = E
      BY <3>3, AppendedBatch
    <3>5. /\ Executed'[x] = Append(Executed[x], E)
          /\ Len(g) + 1 \in DOMAIN Executed'[x]
          /\ Executed'[x][Len(g) + 1] = E
      BY <3>1, <3>2, <3>4
    <3> QED
      BY <3>5 DEF g
  <2>4. Executed' = [Executed EXCEPT ![x] = Append(@, E)]
    BY <1>1, <1>11, <2>3, Seen, SeenNext
  <2>5. Status'[x] \in {"open", "closed"}
    BY <1>1, <1>7, <1>13, SeenNext DEF RowStates
  <2>6. pending'[x] = {e \in pending[x] : ~Deleted(E, cmd, e)}
                        \cup SentTo(x, Messages(x, st, cmd, n))
    BY <1>1, <1>4 DEF Checkpoint
  <2>7. pending'[x] \cap E = {}
    <3>1. ASSUME NEW e \in SentTo(x, Messages(x, st, cmd, n)) PROVE e \notin E
      <4>1. e.id \in {nextID + 1, nextID + 2} /\ nextID \in Nat
        BY <1>1, <1>4, MessageIDs DEF TypeOK
      <4>2. e \in E => e.id < nextID
        BY <1>1, <1>6 DEF LInv, FreshIDs
      <4> QED
        BY <4>1, <4>2
    <3>2. \A e \in E : Deleted(E, cmd, e)
      BY DEF Deleted
    <3> QED
      BY <2>6, <3>1, <3>2
  <2>8. \A e \in pending[x] \ pending'[x] : e \in E \/ e \in Timers
    <3>1. pending[x] \subseteq Event
      BY <1>1 DEF TypeOK, FiniteSubsets
    <3>2. \A e \in pending[x] \ pending'[x] : Deleted(E, cmd, e)
      BY <2>6
    <3> QED
      BY <3>1, <3>2 DEF Deleted, Timers
  <2>9. Log!Record(x, E)
    BY <1>6, <1>9, <1>10, <1>1, <2>4, <2>5, <2>7, <2>8, Seen DEF Log!Record
  <2> QED
    BY <1>1, <2>3, <2>9 DEF Log!Next
<1> QED
  BY <1>12, <1>13

\* Clients create executions, send events to them, and remove closed ones.
LEMMA ClientLogged == ASSUME LInv, ClientNext PROVE Log!Next
<1>0. TypeOK /\ inst \in [Executions -> Row] /\ pending \in [Executions -> FiniteSubsets]
  BY DEF LInv, IInv, TypeOK
<1>1. ASSUME NEW i \in Instances, CreateWorkflowInstance(i) PROVE Log!Next
  <2>1. PICK x \in Executions :
          /\ IsFresh(x)
          /\ inst' = [inst EXCEPT ![x] = NewRow(i, 0, 0)]
          /\ pending' = [pending EXCEPT ![x] =
                            @ \cup {Ev(nextID, "WorkflowExecutionStarted", 0)}]
    BY <1>1 DEF CreateWorkflowInstance
  <2>2. /\ \A y \in {x} : inst[y].state = "unused" /\ inst'[y].state = "Active"
        /\ \A y \in Executions \ {x} : inst'[y].state = inst[y].state
        /\ \A y \in Executions : pending[y] \subseteq pending'[y]
    BY <1>0, <2>1 DEF IsFresh, NewRow
  <2>3. hist' = hist /\ {x} \in SUBSET Executions /\ \A y, z \in {x} : y = z
    BY <1>1 DEF CreateWorkflowInstance
  <2> QED
    BY <2>2, <2>3, ReceiveStep
<1>2. ASSUME UNCHANGED <<inst, hist>>, \A y \in Executions : pending[y] \subseteq pending'[y]
      PROVE  Log!Next
  <2> DEFINE none == {}
  <2>1. /\ none \in SUBSET Executions /\ \A x, y \in none : x = y
        /\ \A x \in none : inst[x].state = "unused" /\ inst'[x].state = "Active"
        /\ \A x \in Executions \ none : inst'[x].state = inst[x].state
    BY <1>2
  <2> HIDE DEF none
  <2> QED
    BY <1>2, <2>1, ReceiveStep
<1>3. ASSUME NEW i \in Instances, SignalWorkflow(i) PROVE Log!Next
  <2>1. UNCHANGED <<inst, hist>> /\ \A y \in Executions : pending[y] \subseteq pending'[y]
    BY <1>0, <1>3 DEF SignalWorkflow
  <2> QED
    BY <1>2, <2>1
<1>4. ASSUME NEW y \in Executions, CancelWorkflowInstance(y) PROVE Log!Next
  <2>1. UNCHANGED <<inst, hist>> /\ \A z \in Executions : pending[z] \subseteq pending'[z]
    BY <1>0, <1>4 DEF CancelWorkflowInstance
  <2> QED
    BY <1>2, <2>1
<1>5. ASSUME NEW y \in Executions, RemoveWorkflowInstance(y) PROVE Log!Next
  <2> DEFINE S == {y}
  <2>1. /\ S \in SUBSET Executions
        /\ \A x \in S : inst[x].state \in {"ContinuedAsNew", "Finished"}
                        /\ inst'[x].state \in {"removed", "purged"}
        /\ \A x \in Executions \ S : inst'[x].state = inst[x].state
        /\ \A x \in Executions : hist'[x] = hist[x] \/ (x \in S /\ hist'[x] = <<>>)
        /\ pending' = pending
    BY <1>0, <1>5 DEF RemoveWorkflowInstance, Exists, IsActive, RowStates, TypeOK, Row
  <2> HIDE DEF S
  <2> QED
    BY <1>0, <2>1, RemoveStep
<1>6. ASSUME NEW S \in SUBSET Executions, RemoveWorkflowInstances(S) PROVE Log!Next
  <2>1. /\ \A x \in S : inst[x].state \in {"ContinuedAsNew", "Finished"}
                        /\ inst'[x].state \in {"removed", "purged"}
        /\ \A x \in Executions \ S : inst'[x].state = inst[x].state
        /\ \A x \in Executions : hist'[x] = hist[x] \/ (x \in S /\ hist'[x] = <<>>)
        /\ pending' = pending
    BY <1>0, <1>6 DEF RemoveWorkflowInstances, Exists, IsActive, RowStates, Row
  <2> QED
    BY <1>0, <2>1, RemoveStep
<1> QED
  BY <1>1, <1>3, <1>4, <1>5, <1>6 DEF ClientNext

\* Locks, timeouts, and tasks in memory are none of the log's business; an
\* activity's result is received.
LEMMA QuietLogged ==
    ASSUME TypeOK, hist' = hist,
           \A x \in Executions : /\ pending[x] \subseteq pending'[x]
                                 /\ inst'[x].state = inst[x].state
    PROVE  Log!Next
<1> DEFINE none == {}
<1>1. /\ none \in SUBSET Executions /\ \A x, y \in none : x = y
      /\ \A x \in none : inst[x].state = "unused" /\ inst'[x].state = "Active"
      /\ \A x \in Executions \ none : inst'[x].state = inst[x].state
  OBVIOUS
<1> HIDE DEF none
<1> QED
  BY <1>1, ReceiveStep

LEMMA StepLogged ==
    ASSUME UniqueEventIDs, ~EventsMayFail, LInv, [Next]_vars
    PROVE  Log!Next
<1>0. TypeOK /\ inst \in [Executions -> Row] /\ pending \in [Executions -> FiniteSubsets]
  BY DEF LInv, IInv, TypeOK
<1>1. ASSUME NEW h \in Handlers, GetWorkflowTask(h) \/ ExtendWorkflowTask(h) PROVE Log!Next
  <2>1. \A x \in Executions : inst'[x].state = inst[x].state
    <3>1. CASE GetWorkflowTask(h)
      <4>1. PICK y \in Executions :
              inst' = [inst EXCEPT ![y].lock = "held", ![y].worker = WorkerOf[h]]
        BY <3>1 DEF GetWorkflowTask
      <4> QED
        BY <1>0, <4>1 DEF Row
    <3>2. CASE ExtendWorkflowTask(h)
      BY <1>0, <3>2 DEF ExtendWorkflowTask, Row
    <3> QED
      BY <1>1, <3>1, <3>2
  <2>2. UNCHANGED <<hist, pending>>
    BY <1>1 DEF GetWorkflowTask, ExtendWorkflowTask
  <2> QED
    BY <1>0, <2>1, <2>2, QuietLogged
<1>2. ASSUME NEW h \in Handlers, CompleteActivityTask(h) PROVE Log!Next
  <2>1. UNCHANGED <<inst, hist>> /\ \A x \in Executions : pending[x] \subseteq pending'[x]
    BY <1>0, <1>2 DEF CompleteActivityTask
  <2> QED
    BY <1>0, <2>1, QuietLogged
<1>3. ASSUME NEW h \in Handlers,
             \/ DropWorkflowTask(h) \/ GetActivityTask(h)
             \/ ExtendActivityTask(h) \/ DropActivityTask(h)
      PROVE  Log!Next
  <2>1. UNCHANGED <<inst, hist, pending>>
    BY <1>3 DEF DropWorkflowTask, GetActivityTask, ExtendActivityTask, DropActivityTask
  <2> QED
    BY <1>0, <2>1, QuietLogged
<1>4. CASE TimeNext
  <2>1. \A x \in Executions : inst'[x].state = inst[x].state
    BY <1>0, <1>4 DEF TimeNext, WorkflowLockExpires, StickyExpires, ActivityLockExpires,
                      TimerDue, Row
  <2>2. UNCHANGED <<hist, pending>>
    BY <1>4 DEF TimeNext, WorkflowLockExpires, StickyExpires, ActivityLockExpires, TimerDue
  <2> QED
    BY <1>0, <2>1, <2>2, QuietLogged
<1>5. CASE UNCHANGED vars
  BY <1>0, <1>5, QuietLogged DEF vars
<1> QED
  BY <1>1, <1>2, <1>3, <1>4, <1>5, ClientLogged, RecordStep DEF Next, WorkerNext

\* No execution exists initially.
LEMMA InitLogged == Init => Log!Init
<1> SUFFICES ASSUME Init PROVE Log!Init
  OBVIOUS
<1>1. \A x \in Executions : inst[x].state = "unused" /\ hist[x] = <<>>
  BY DEF Init, NewRow
<1>2. Status = [x \in Executions |-> "new"]
  BY <1>1 DEF Status
<1>3. Executed = [x \in Executions |-> <<>>]
  BY <1>1 DEF Executed
<1> QED
  BY <1>2, <1>3 DEF Log!Init, Init

(* With the history's primary key on event ids, and workflow events that   *)
(* execute without error, the backend implements the log: whatever tasks   *)
(* are handed out, lost, repeated and reported back, checkpoints move each *)
(* event to the history once, and a closed execution stays as it is.       *)
THEOREM ImplementsLog ==
    ASSUME UniqueEventIDs, ~EventsMayFail
    PROVE  Spec => LogSpec
<1>1. LInv /\ [Next]_vars => [Log!Next]_Log!vars
  BY StepLogged
<1> QED
  BY <1>1, InitLogged, LInvHolds, PTL DEF Spec, LogSpec, Log!Spec
=============================================================================
