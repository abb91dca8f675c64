---------------------- MODULE SqlBackendOutcomeProofs ----------------------
(***************************************************************************)
(* What the SQL backend promises about single activities, timers and       *)
(* sub-workflows: each has one outcome, and an instance one active         *)
(* execution, for every number of handlers, workers, instances, executions *)
(* and events.                                                             *)
(***************************************************************************)
EXTENDS SqlBackendProofs

-----------------------------------------------------------------------------
(* Two kinds of steps change what is known of an activity, a timer or a    *)
(* sub-workflow: a handler completes a workflow task or an activity.  The  *)
(* others are quiet.                                                       *)

Gone == {"removed", "purged"}

\* A client starts x when no execution of the instance is active.
Opens(x) ==
    /\ inst[x].state = "unused" /\ inst'[x].parent = 0
    /\ \A y \in Executions : IsActive(y) => inst[y].inst # inst'[x].inst
    /\ \A y \in Executions \ {x} : inst'[y] = inst[y]

QuietRows ==
    /\ \A x \in Executions : inst[x].state \in Gone => inst'[x].state \in Gone
    /\ \A x \in Executions : inst'[x].of \in {inst[x].of, 0}
    /\ \A x \in Executions :
         IsActive(x) => /\ inst'[x].state = "Active"
                        /\ inst'[x].inst = inst[x].inst
                        /\ inst'[x].parent = inst[x].parent
                        /\ inst'[x].of = inst[x].of
    /\ \A x \in Executions : inst'[x].state = "Active" => IsActive(x) \/ Opens(x)

QuietHistory ==
    \A x \in Executions : hist'[x] = hist[x] \/ (hist'[x] = <<>> /\ inst'[x].state \in Gone)

ClientKinds == {"WorkflowExecutionStarted", "SignalReceived", "WorkflowExecutionCanceled"}

QuietPending ==
    \A x \in Executions :
      /\ pending[x] \subseteq pending'[x]
      /\ \A e \in pending'[x] \ pending[x] : e.kind \in ClientKinds /\ e.of = 0

QuietTasks ==
    \A h \in Handlers : \/ wtask'[h] \in {wtask[h], NoTask}
                        \/ /\ wtask'[h].exec \in Executions
                           /\ wtask'[h].new \subseteq pending[wtask'[h].exec]

OneRow == \A a, b \in activities : a.ev = b.ev => a = b

\* Rows of activities are locked and unlocked.
QuietActivities ==
    /\ \A b \in activities' : \E a \in activities : b.ev = a.ev /\ b.exec = a.exec
    /\ \A a \in activities : \E b \in activities' : b.ev = a.ev /\ b.exec = a.exec
    /\ OneRow => OneRow'

Quiet ==
    /\ QuietRows /\ QuietHistory /\ QuietPending /\ QuietTasks /\ QuietActivities
    /\ nextID' \in {nextID, nextID + 1}

\* Rows that stay, and rows of which only the lock changes.
LEMMA SameRows ==
    ASSUME \A x \in Executions :
             /\ inst'[x].state = inst[x].state /\ inst'[x].inst = inst[x].inst
             /\ inst'[x].parent = inst[x].parent /\ inst'[x].of = inst[x].of
    PROVE  QuietRows
BY DEF QuietRows, IsActive

LEMMA LockedRow ==
    ASSUME TypeOK, NEW y \in Executions, NEW l, NEW w, NEW s,
           \/ inst' = [inst EXCEPT ![y].lock = l]
           \/ inst' = [inst EXCEPT ![y].lock = l, ![y].worker = w]
           \/ inst' = [inst EXCEPT ![y].sticky = s]
    PROVE  QuietRows
<1>1. inst \in [Executions -> Row]
  BY DEF TypeOK
<1>2. ASSUME NEW x \in Executions
      PROVE  /\ inst'[x].state = inst[x].state /\ inst'[x].inst = inst[x].inst
             /\ inst'[x].parent = inst[x].parent /\ inst'[x].of = inst[x].of
  BY <1>1 DEF Row
<1> QED
  BY <1>2, SameRows

LEMMA LockedActivity ==
    ASSUME NEW a \in activities, NEW b, b.ev = a.ev, b.exec = a.exec,
           activities' = (activities \ {a}) \cup {b}
    PROVE  QuietActivities
BY DEF QuietActivities, OneRow

LEMMA EventArrives ==
    ASSUME TypeOK, NEW y \in Executions, NEW kind \in ClientKinds,
           pending' = [pending EXCEPT ![y] = @ \cup {Ev(nextID, kind, 0)}]
    PROVE  QuietPending
<1>1. pending \in [Executions -> FiniteSubsets]
  BY DEF TypeOK
<1>2. Ev(nextID, kind, 0).kind = kind /\ Ev(nextID, kind, 0).of = 0
  BY DEF Ev
<1> QED
  BY <1>1, <1>2 DEF QuietPending

LEMMA QuietClient ==
    ASSUME TypeOK, ClientNext
    PROVE  Quiet
<1>0. inst \in [Executions -> Row] /\ hist \in [Executions -> Seq(Batch)]
  BY DEF TypeOK
<1>u. /\ UNCHANGED hist => QuietHistory
      /\ UNCHANGED wtask => QuietTasks
      /\ UNCHANGED activities => QuietActivities
      /\ UNCHANGED inst => QuietRows
      /\ UNCHANGED pending => QuietPending
  BY SameRows DEF QuietHistory, QuietTasks, QuietActivities, QuietPending, OneRow
<1>1. ASSUME NEW i \in Instances, CreateWorkflowInstance(i) PROVE Quiet
  <2>1. PICK x \in Executions :
          /\ IsFresh(x)
          /\ inst' = [inst EXCEPT ![x] = NewRow(i, 0, 0)]
          /\ pending' = [pending EXCEPT ![x] =
                            @ \cup {Ev(nextID, "WorkflowExecutionStarted", 0)}]
    BY <1>1 DEF CreateWorkflowInstance
  <2>2. /\ inst[x].state = "unused" /\ inst'[x].parent = 0 /\ inst'[x].of = 0
        /\ inst'[x].inst = i /\ \A y \in Executions \ {x} : inst'[y] = inst[y]
    BY <1>0, <2>1 DEF IsFresh, NewRow
  <2>3. \A y \in Executions : IsActive(y) => inst[y].inst # i
    BY <1>1 DEF CreateWorkflowInstance, ActiveExecutions
  <2>4. QuietRows
    BY <2>2, <2>3 DEF QuietRows, Opens, IsActive, Gone
  <2>5. QuietPending
    BY <2>1, EventArrives DEF ClientKinds
  <2> QED
    BY <1>u, <1>1, <2>4, <2>5 DEF Quiet, CreateWorkflowInstance
<1>2. ASSUME NEW i \in Instances, SignalWorkflow(i) PROVE Quiet
  <2>1. QuietPending
    BY <1>2, EventArrives DEF SignalWorkflow, ActiveExecutions, ClientKinds
  <2> QED
    BY <1>u, <1>2, <2>1 DEF Quiet, SignalWorkflow
<1>3. ASSUME NEW y \in Executions, CancelWorkflowInstance(y) PROVE Quiet
  <2>1. QuietPending
    BY <1>3, EventArrives DEF CancelWorkflowInstance, ClientKinds
  <2> QED
    BY <1>u, <1>3, <2>1 DEF Quiet, CancelWorkflowInstance
<1>4. ASSUME NEW y \in Executions, RemoveWorkflowInstance(y) PROVE Quiet
  <2>1. /\ ~IsActive(y)
        /\ inst' = [inst EXCEPT ![y].state = "removed"]
        /\ hist' = [hist EXCEPT ![y] = <<>>]
    BY <1>4 DEF RemoveWorkflowInstance
  <2>2. /\ inst'[y].state = "removed" /\ inst'[y].of = inst[y].of
        /\ \A x \in Executions \ {y} : inst'[x] = inst[x]
    BY <1>0, <2>1 DEF Row
  <2>3. QuietRows
    BY <2>1, <2>2 DEF QuietRows, IsActive, Gone
  <2>4. QuietHistory
    BY <1>0, <2>1, <2>2 DEF QuietHistory, Gone
  <2> QED
    BY <1>u, <1>4, <2>3, <2>4 DEF Quiet, RemoveWorkflowInstance
<1>5. ASSUME NEW S \in SUBSET Executions, RemoveWorkflowInstances(S) PROVE Quiet
  <2>1. /\ \A x \in S : ~IsActive(x)
        /\ inst' = [x \in Executions |->
                      IF x \in S THEN [inst[x] EXCEPT !.state = "purged"] ELSE inst[x]]
    BY <1>5 DEF RemoveWorkflowInstances
  <2>2. /\ \A x \in S : inst'[x].state = "purged" /\ inst'[x].of = inst[x].of
        /\ \A x \in Executions \ S : inst'[x] = inst[x]
    BY <1>0, <2>1 DEF Row
  <2>3. QuietRows
    BY <2>1, <2>2 DEF QuietRows, IsActive, Gone
  <2> QED
    BY <1>u, <1>5, <2>3 DEF Quiet, RemoveWorkflowInstances
<1> QED
  BY <1>1, <1>2, <1>3, <1>4, <1>5 DEF ClientNext

LEMMA QuietWorker ==
    ASSUME TypeOK, NEW h \in Handlers,
           \/ GetWorkflowTask(h) \/ ExtendWorkflowTask(h) \/ DropWorkflowTask(h)
           \/ GetActivityTask(h) \/ ExtendActivityTask(h) \/ DropActivityTask(h)
    PROVE  Quiet
<1>0. wtask \in [Handlers -> WorkflowTask \cup {NoTask}]
  BY DEF TypeOK
<1>u. /\ UNCHANGED hist => QuietHistory
      /\ UNCHANGED wtask => QuietTasks
      /\ UNCHANGED activities => QuietActivities
      /\ UNCHANGED inst => QuietRows
      /\ UNCHANGED pending => QuietPending
  BY SameRows DEF QuietHistory, QuietTasks, QuietActivities, QuietPending, OneRow
<1>1. CASE GetWorkflowTask(h)
  <2>1. PICK x \in Executions :
          /\ inst' = [inst EXCEPT ![x].lock = "held", ![x].worker = WorkerOf[h]]
          /\ wtask' = [wtask EXCEPT ![h] = [exec |-> x, new |-> Visible(x),
                                             last |-> LastSequenceID(x)]]
    BY <1>1 DEF GetWorkflowTask
  <2>2. QuietRows
    BY <2>1, LockedRow
  <2>3. Visible(x) \subseteq pending[x]
    BY DEF Visible
  <2>4. QuietTasks
    BY <1>0, <2>1, <2>3 DEF QuietTasks
  <2> QED
    BY <1>u, <1>1, <2>2, <2>4 DEF Quiet, GetWorkflowTask
<1>2. CASE ExtendWorkflowTask(h)
  <2>1. wtask[h].exec \in Executions
    BY <1>0, <1>2 DEF ExtendWorkflowTask, WorkflowTask
  <2>2. QuietRows
    BY <1>2, <2>1, LockedRow DEF ExtendWorkflowTask
  <2> QED
    BY <1>u, <1>2, <2>2 DEF Quiet, ExtendWorkflowTask
<1>3. CASE DropWorkflowTask(h)
  <2>1. QuietTasks
    BY <1>0, <1>3 DEF DropWorkflowTask, QuietTasks
  <2> QED
    BY <1>u, <1>3, <2>1 DEF Quiet, DropWorkflowTask
<1>4. CASE GetActivityTask(h)
  <2>1. PICK a \in activities :
          activities' = (activities \ {a})
                          \cup {[a EXCEPT !.lock = "held", !.worker = WorkerOf[h]]}
    BY <1>4 DEF GetActivityTask, FirstUnlocked, Unlocked
  <2>2. a \in ActivityRow
    BY DEF TypeOK
  <2>3. QuietActivities
    BY <2>1, <2>2, LockedActivity DEF ActivityRow
  <2> QED
    BY <1>u, <1>4, <2>3 DEF Quiet, GetActivityTask
<1>5. CASE ExtendActivityTask(h)
  <2>1. PICK a \in activities : activities' = (activities \ {a}) \cup {[a EXCEPT !.lock = "held"]}
    BY <1>5 DEF ExtendActivityTask, OwnActivity
  <2>2. a \in ActivityRow
    BY DEF TypeOK
  <2>3. QuietActivities
    BY <2>1, <2>2, LockedActivity DEF ActivityRow
  <2> QED
    BY <1>u, <1>5, <2>3 DEF Quiet, ExtendActivityTask
<1>6. CASE DropActivityTask(h)
  BY <1>u, <1>6 DEF Quiet, DropActivityTask
<1> QED
  BY <1>1, <1>2, <1>3, <1>4, <1>5, <1>6

LEMMA QuietTime ==
    ASSUME TypeOK, TimeNext
    PROVE  Quiet
<1>u. /\ UNCHANGED hist => QuietHistory
      /\ UNCHANGED wtask => QuietTasks
      /\ UNCHANGED activities => QuietActivities
      /\ UNCHANGED inst => QuietRows
      /\ UNCHANGED pending => QuietPending
  BY SameRows DEF QuietHistory, QuietTasks, QuietActivities, QuietPending, OneRow
<1>1. ASSUME NEW x \in Executions, WorkflowLockExpires(x) PROVE Quiet
  <2>1. QuietRows
    BY <1>1, LockedRow DEF WorkflowLockExpires
  <2> QED
    BY <1>u, <1>1, <2>1 DEF Quiet, WorkflowLockExpires
<1>2. ASSUME NEW x \in Executions, StickyExpires(x) PROVE Quiet
  <2>1. QuietRows
    BY <1>2, LockedRow DEF StickyExpires
  <2> QED
    BY <1>u, <1>2, <2>1 DEF Quiet, StickyExpires
<1>3. ASSUME NEW a \in activities, ActivityLockExpires(a) PROVE Quiet
  <2>1. a \in ActivityRow
    BY DEF TypeOK
  <2>2. QuietActivities
    BY <1>3, <2>1, LockedActivity DEF ActivityLockExpires, ActivityRow
  <2> QED
    BY <1>u, <1>3, <2>2 DEF Quiet, ActivityLockExpires
<1>4. ASSUME NEW e, TimerDue(e) PROVE Quiet
  BY <1>u, <1>4 DEF Quiet, TimerDue
<1> QED
  BY <1>1, <1>2, <1>3, <1>4 DEF TimeNext

\* The steps of the backend.
LEMMA StepCases ==
    ASSUME TypeOK, [Next]_vars
    PROVE  \/ Quiet
           \/ \E h \in Handlers : CompleteWorkflowTask(h) \/ CompleteActivityTask(h)
<1>1. CASE UNCHANGED vars
  BY <1>1, SameRows
  DEF vars, Quiet, QuietHistory, QuietTasks, QuietActivities, QuietPending, OneRow
<1> QED
  BY <1>1, QuietClient, QuietWorker, QuietTime DEF Next, WorkerNext
-----------------------------------------------------------------------------
(* What the completion of a workflow task writes.                          *)

Completes(h, E, st, cmd, n) ==
    LET t == wtask[h]
        x == t.exec
    IN  /\ t \in WorkflowTask /\ t # NoTask /\ x \in Executions
        /\ E \in ExecutedSets(t) /\ E \in FiniteSubsets /\ E \subseteq t.new
        /\ st \in RowStates /\ cmd \in CommandsOf(x, E) /\ n \in Executions \cup {0}
        /\ Exists(x) /\ Insertable(x, E)
        /\ st = "ContinuedAsNew" => cmd.kind \in {"none", "cancelTimer"}
        /\ IF \E r \in Starts(x, st, cmd) : ~AlreadyExists(x, st, r.inst)
           THEN n \in Executions /\ IsFresh(n) ELSE n = 0
        /\ Checkpoint(t, E, st, cmd, n)
        /\ wtask' = [wtask EXCEPT ![h] = NoTask]

LEMMA CompletionChosen ==
    ASSUME TypeOK, NEW h \in Handlers, CompleteWorkflowTask(h)
    PROVE  \E E, st, cmd, n : Completes(h, E, st, cmd, n)
<1> DEFINE t == wtask[h]
           x == t.exec
<1>1. t \in WorkflowTask /\ t # NoTask /\ x \in Executions
  BY DEF CompleteWorkflowTask, TypeOK, WorkflowTask
<1>2. PICK E \in ExecutedSets(t), st \in RowStates :
        /\ Owns(WorkerOf[h], x)
        /\ Insertable(x, E)
        /\ \E cmd \in CommandsOf(x, E), n \in Executions \cup {0} :
             /\ st = "ContinuedAsNew" => cmd.kind \in {"none", "cancelTimer"}
             /\ IF \E r \in Starts(x, st, cmd) : ~AlreadyExists(x, st, r.inst)
                THEN n # 0 /\ IsFresh(n) ELSE n = 0
             /\ Checkpoint(t, E, st, cmd, n)
  BY DEF CompleteWorkflowTask
<1>3. PICK cmd \in CommandsOf(x, E), n \in Executions \cup {0} :
        /\ st = "ContinuedAsNew" => cmd.kind \in {"none", "cancelTimer"}
        /\ IF \E r \in Starts(x, st, cmd) : ~AlreadyExists(x, st, r.inst)
           THEN n # 0 /\ IsFresh(n) ELSE n = 0
        /\ Checkpoint(t, E, st, cmd, n)
  BY <1>2
<1>4. E \in FiniteSubsets /\ E \subseteq t.new
  BY <1>1, ExecutedType
<1>5. Exists(x) /\ wtask' = [wtask EXCEPT ![h] = NoTask]
  BY <1>2 DEF Owns, CompleteWorkflowTask
<1>6. Completes(h, E, st, cmd, n)
  BY <1>1, <1>2, <1>3, <1>4, <1>5 DEF Completes
<1> QED
  BY <1>6

\* The starts of a checkpoint are of one row at most.
LEMMA OneStart ==
    ASSUME NEW x, NEW st, NEW cmd, NEW r \in Starts(x, st, cmd)
    PROVE  /\ Starts(x, st, cmd) = {r}
           /\ (CHOOSE s \in Starts(x, st, cmd) : TRUE) = r
           /\ r.state = "Active"
<1>1. \E i, parent, of : Starts(x, st, cmd) = {NewRow(i, parent, of)}
  BY DEF Starts
<1>2. PICK i, parent, of : Starts(x, st, cmd) = {NewRow(i, parent, of)}
  BY <1>1
<1>3. NewRow(i, parent, of).state = "Active"
  BY DEF NewRow
<1> QED
  BY <1>2, <1>3

\* The rows after a completion.
LEMMA CompletionRows ==
    ASSUME TypeOK, NEW h \in Handlers, NEW E, NEW st, NEW cmd, NEW n, Completes(h, E, st, cmd, n),
           NEW x \in Executions, x = wtask[h].exec
    PROVE  /\ inst'[x].state = IF RemovedAtOnce(st) THEN "removed" ELSE st
           /\ inst'[x].inst = inst[x].inst /\ inst'[x].parent = inst[x].parent
           /\ inst'[x].of = inst[x].of
           /\ inst[x].state \in RowStates
           /\ n # 0 => /\ n \in Executions /\ n # x /\ inst[n].state = "unused"
                       /\ Starts(x, st, cmd) = {inst'[n]} /\ inst'[n].state = "Active"
                       /\ ~AlreadyExists(x, st, inst'[n].inst)
           /\ n = 0 => \A r \in Starts(x, st, cmd) : AlreadyExists(x, st, r.inst)
           /\ \A y \in Executions \ {x, n} : inst'[y] = inst[y]
<1>1. inst[x] \in Row /\ inst[x].state \in RowStates
  BY DEF TypeOK, Completes, Exists
<1>2. /\ \A y \in Executions : inst'[y] =
           IF y = x THEN [inst[x] EXCEPT !.lock = "null", !.sticky = TRUE,
                                  !.state = IF RemovedAtOnce(st) THEN "removed" ELSE st]
           ELSE IF y = n THEN CHOOSE r \in Starts(x, st, cmd) : TRUE
           ELSE inst[y]
      /\ IF \E r \in Starts(x, st, cmd) : ~AlreadyExists(x, st, r.inst)
         THEN n \in Executions /\ IsFresh(n) ELSE n = 0
  BY DEF Completes, Checkpoint
<1>3. /\ inst'[x].state = IF RemovedAtOnce(st) THEN "removed" ELSE st
      /\ inst'[x].inst = inst[x].inst /\ inst'[x].parent = inst[x].parent
      /\ inst'[x].of = inst[x].of
  <2>1. inst'[x] = [inst[x] EXCEPT !.lock = "null", !.sticky = TRUE,
                                   !.state = IF RemovedAtOnce(st) THEN "removed" ELSE st]
    BY <1>2
  <2> QED
    BY <1>1, <2>1 DEF Row
<1>4. ASSUME n # 0
      PROVE  /\ n \in Executions /\ n # x /\ inst[n].state = "unused"
             /\ Starts(x, st, cmd) = {inst'[n]} /\ inst'[n].state = "Active"
             /\ ~AlreadyExists(x, st, inst'[n].inst)
  <2>1. PICK r \in Starts(x, st, cmd) : ~AlreadyExists(x, st, r.inst)
    BY <1>2, <1>4
  <2>2. n \in Executions /\ inst[n].state = "unused"
    BY <1>2, <2>1 DEF IsFresh
  <2>3. n # x
    BY <1>1, <2>2 DEF RowStates
  <2>4. inst'[n] = r
    BY <1>2, <2>1, <2>2, <2>3, OneStart
  <2> QED
    BY <2>1, <2>2, <2>3, <2>4, OneStart
<1>5. n = 0 => \A r \in Starts(x, st, cmd) : AlreadyExists(x, st, r.inst)
  BY <1>2, ExecutionsType
<1> QED
  BY <1>1, <1>2, <1>3, <1>4, <1>5

\* What queries return of a history that stays, is removed or gets a batch.
LEMMA SameQueries ==
    ASSUME NEW x \in Executions
    PROVE  /\ hist'[x] = hist[x] => Recorded(x)' = Recorded(x) /\ Emitted(x)' = Emitted(x)
           /\ hist'[x] = <<>> => Recorded(x)' = {} /\ Emitted(x)' = {}
<1>1. ASSUME hist'[x] = <<>> PROVE Recorded(x)' = {} /\ Emitted(x)' = {}
  <2>1. DOMAIN hist'[x] = {}
    BY <1>1
  <2> QED
    BY <2>1 DEF Recorded, Emitted
<1>2. ASSUME hist'[x] = hist[x] PROVE Recorded(x)' = Recorded(x) /\ Emitted(x)' = Emitted(x)
  BY <1>2 DEF Recorded, Emitted
<1> QED
  BY <1>1, <1>2

LEMMA AppendedQueries ==
    ASSUME TypeOK, NEW x \in Executions, NEW b \in Batch, hist'[x] = Append(hist[x], b)
    PROVE  /\ Recorded(x)' = Recorded(x) \cup b.executed
           /\ Emitted(x)' = Emitted(x) \cup b.emitted
<1> DEFINE s == hist[x]
           u == hist'[x]
           m == Len(s)
<1>1. s \in Seq(Batch) /\ u = Append(s, b)
  BY DEF TypeOK
<1>2. m \in Nat /\ DOMAIN s = 1 .. m
  BY <1>1
<1>3. Len(u) = m + 1 /\ DOMAIN u = 1 .. m + 1 /\ u[m + 1] = b /\ \A i \in 1 .. m : u[i] = s[i]
  BY <1>1
<1>4. \A i : i \in 1 .. m + 1 <=> i \in 1 .. m \/ i = m + 1
  BY <1>2
<1> HIDE DEF s, u, m
<1>5. /\ (UNION {u[i].executed : i \in DOMAIN u})
             = (UNION {s[i].executed : i \in DOMAIN s}) \cup b.executed
      /\ (UNION {u[i].emitted : i \in DOMAIN u})
             = (UNION {s[i].emitted : i \in DOMAIN s}) \cup b.emitted
  BY <1>2, <1>3, <1>4
<1> QED
  BY <1>5 DEF Recorded, Emitted, s, u

\* The messages of a checkpoint to y.
LEMMA SentEvents ==
    ASSUME NEW x \in Executions, NEW st, NEW cmd, NEW n, NEW y \in Executions, NEW e
    PROVE  e \in SentTo(y, Messages(x, st, cmd, n)) <=>
             \/ cmd.kind = "timer" /\ y = x /\ e = Ev(nextID + 1, "TimerFired", nextID)
             \/ /\ cmd.kind = "cancelSubWorkflow" /\ y \in FirstChild(x, cmd.of)
                /\ e = Ev(nextID + 1, "WorkflowExecutionCanceled", 0)
             \/ y = n /\ e = Ev(nextID + 1, "WorkflowExecutionStarted", 0)
             \/ /\ n = 0 /\ y = x
                /\ \E r \in Starts(x, st, cmd) : e = Ev(nextID + 1, "SubWorkflowFailed", r.of)
             \/ /\ st = "Finished" /\ y = inst[x].parent
                /\ e = Ev(nextID + 2, "SubWorkflowCompleted", inst[x].of)
<1> DEFINE A == Msg(IF cmd.kind = "timer" THEN {x} ELSE {}, Ev(nextID + 1, "TimerFired", nextID))
           B == Msg(IF cmd.kind = "cancelSubWorkflow" THEN FirstChild(x, cmd.of) ELSE {},
                    Ev(nextID + 1, "WorkflowExecutionCanceled", 0))
           C == Msg({n} \cap Executions, Ev(nextID + 1, "WorkflowExecutionStarted", 0))
           D == UNION {Msg(IF n = 0 THEN {x} ELSE {}, Ev(nextID + 1, "SubWorkflowFailed", r.of))
                         : r \in Starts(x, st, cmd)}
           F == Msg(IF st = "Finished" THEN {inst[x].parent} \cap Executions ELSE {},
                    Ev(nextID + 2, "SubWorkflowCompleted", inst[x].of))
           m == [to |-> y, ev |-> e]
<1>1. \A to, ev : m \in Msg(to, ev) <=> y \in to /\ e = ev
  BY DEF Msg
<1>2. e \in SentTo(y, Messages(x, st, cmd, n)) <=> m \in UNION {A, B, C, D, F}
  <2>1. \A k \in Messages(x, st, cmd, n) : k = [to |-> k.to, ev |-> k.ev]
    BY DEF Messages, Msg
  <2>2. Messages(x, st, cmd, n) = UNION {A, B, C, D, F}
    BY DEF Messages
  <2> HIDE DEF A, B, C, D, F
  <2> QED
    BY <2>1, <2>2 DEF SentTo
<1>3. m \in A <=> cmd.kind = "timer" /\ y = x /\ e = Ev(nextID + 1, "TimerFired", nextID)
  BY <1>1
<1>4. m \in B <=> /\ cmd.kind = "cancelSubWorkflow" /\ y \in FirstChild(x, cmd.of)
                  /\ e = Ev(nextID + 1, "WorkflowExecutionCanceled", 0)
  BY <1>1
<1>5. m \in C <=> y = n /\ e = Ev(nextID + 1, "WorkflowExecutionStarted", 0)
  BY <1>1
<1>6. m \in D <=> /\ n = 0 /\ y = x
                  /\ \E r \in Starts(x, st, cmd) : e = Ev(nextID + 1, "SubWorkflowFailed", r.of)
  BY <1>1
<1>7. m \in F <=> /\ st = "Finished" /\ y = inst[x].parent
                  /\ e = Ev(nextID + 2, "SubWorkflowCompleted", inst[x].of)
  BY <1>1
<1> HIDE DEF A, B, C, D, F
<1> QED
  BY <1>2, <1>3, <1>4, <1>5, <1>6, <1>7

\* The history, the pending events and the activities after a completion.
LEMMA CompletionTables ==
    ASSUME TypeOK, NEW h \in Handlers, NEW E, NEW st, NEW cmd, NEW n, Completes(h, E, st, cmd, n),
           NEW x \in Executions, x = wtask[h].exec
    PROVE  /\ \A y \in Executions \ {x} : hist'[y] = hist[y]
           /\ RemovedAtOnce(st) => hist'[x] = <<>>
           /\ ~RemovedAtOnce(st) => /\ Recorded(x)' = Recorded(x) \cup E
                                    /\ Emitted(x)' = Emitted(x) \cup Emits(cmd)
           /\ \A y \in Executions : \A e :
                e \in pending'[y] <=> \/ e \in pending[y] /\ (y = x => ~Deleted(E, cmd, e))
                                      \/ e \in SentTo(y, Messages(x, st, cmd, n))
           /\ activities' = activities \cup
                {[ev |-> e, exec |-> x, lock |-> "null", worker |-> NoWorker]
                   : e \in {e \in Emits(cmd) : e.kind = "ActivityScheduled"}}
           /\ nextID' = IF cmd.kind = "none" /\ st = "Active" THEN nextID ELSE nextID + 3
<1> DEFINE t == wtask[h]
<1>1. t \in WorkflowTask /\ E \in ExecutedSets(t) /\ cmd \in CommandsOf(x, E)
      /\ Checkpoint(t, E, st, cmd, n)
  BY DEF Completes
<1>2. hist \in [Executions -> Seq(Batch)]
  BY DEF TypeOK
<1>3. NewBatch(t, E, st, cmd) \in Batch
  BY <1>1, NewBatchType
<1>4. hist' = [hist EXCEPT ![x] = IF RemovedAtOnce(st) THEN <<>>
                                  ELSE Append(@, NewBatch(t, E, st, cmd))]
  BY <1>1 DEF Checkpoint
<1>5. ~RemovedAtOnce(st) => /\ Recorded(x)' = Recorded(x) \cup E
                            /\ Emitted(x)' = Emitted(x) \cup Emits(cmd)
  <2>1. ~RemovedAtOnce(st) => hist'[x] = Append(hist[x], NewBatch(t, E, st, cmd))
    BY <1>2, <1>4
  <2>2. NewBatch(t, E, st, cmd).executed = E /\ NewBatch(t, E, st, cmd).emitted = Emits(cmd)
    BY DEF NewBatch
  <2> QED
    BY <1>3, <2>1, <2>2, AppendedQueries
<1>6. \A y \in Executions :
        pending'[y] = {e \in pending[y] : y = x => ~Deleted(E, cmd, e)}
                        \cup SentTo(y, Messages(x, st, cmd, n))
  BY <1>1 DEF Checkpoint
<1>7. \A y \in Executions : \A e :
        e \in pending'[y] <=> \/ e \in pending[y] /\ (y = x => ~Deleted(E, cmd, e))
                              \/ e \in SentTo(y, Messages(x, st, cmd, n))
  BY <1>6
<1> QED
  BY <1>1, <1>2, <1>4, <1>5, <1>7 DEF Checkpoint
-----------------------------------------------------------------------------
(* The ids that events and rows refer to have been given out.              *)

Scheduling == {"ActivityScheduled", "TimerScheduled", "SubWorkflowScheduled"}

RowIDs == \A x \in Executions : inst[x].of < nextID

\* An event that schedules something refers to itself.
EmittedIDs ==
    \A x \in Executions : \A s \in Emitted(x) :
      /\ s.id < nextID /\ s.of < nextID
      /\ s.kind \in Scheduling => s.of = s.id

\* A timer's future event is created with the event that schedules it; its
\* cancellation is not delivered.
Given(e) ==
    /\ e.of < nextID /\ e.kind # "TimerCanceled"
    /\ e.kind = "TimerFired" => e.id = e.of + 1

EventIDs ==
    /\ \A x \in Executions : \A e \in Delivered(x) : Given(e)
    /\ \A h \in Handlers : wtask[h] # NoTask => \A e \in wtask[h].new : Given(e)

ActivityIDs ==
    \A a \in activities :
      a.ev.id < nextID /\ a.ev.kind = "ActivityScheduled" /\ a.ev.of = a.ev.id

IDs == nextID > 0 /\ RowIDs /\ EmittedIDs /\ EventIDs /\ ActivityIDs

LEMMA InitIDs == Init => IDs
<1> SUFFICES ASSUME Init PROVE IDs
  OBVIOUS
<1>1. \A x \in Executions : hist[x] = <<>> /\ pending[x] = {} /\ inst[x].of = 0
  BY DEF Init, NewRow
<1>2. \A x \in Executions : Emitted(x) = {} /\ Recorded(x) = {}
  BY <1>1 DEF Emitted, Recorded
<1>3. nextID = 1 /\ activities = {} /\ \A h \in Handlers : wtask[h] = NoTask
  BY DEF Init
<1>4. \A x \in Executions : Delivered(x) = {}
  BY <1>1, <1>2 DEF Delivered
<1> QED
  BY <1>1, <1>2, <1>3, <1>4 DEF IDs, RowIDs, EmittedIDs, EventIDs, ActivityIDs

\* The types of what the ids belong to.
LEMMA DataTypes ==
    ASSUME TypeOK
    PROVE  /\ nextID \in Nat
           /\ \A x \in Executions : /\ inst[x] \in Row /\ inst[x].of \in Nat
                                    /\ pending[x] \subseteq Event
                                    /\ Emitted(x) \subseteq Event /\ Recorded(x) \subseteq Event
           /\ \A h \in Handlers : wtask[h] # NoTask =>
                wtask[h].exec \in Executions /\ wtask[h].new \subseteq Event
           /\ \A a \in activities : a.ev \in Event /\ a.exec \in Executions
           /\ \A e \in Event : e.id \in Nat /\ e.of \in Nat
<1>1. \A x \in Executions : inst[x] \in Row /\ pending[x] \subseteq Event
  BY DEF TypeOK, FiniteSubsets
<1>2. \A h \in Handlers : wtask[h] # NoTask =>
        wtask[h].exec \in Executions /\ wtask[h].new \subseteq Event
  BY DEF TypeOK, WorkflowTask, FiniteSubsets
<1>3. \A a \in activities : a.ev \in Event /\ a.exec \in Executions
  BY DEF TypeOK, ActivityRow
<1>4. \A e \in Event : e.id \in Nat /\ e.of \in Nat
  BY DEF Event
<1>5. \A x \in Executions : inst[x].of \in Nat
  BY <1>1 DEF Row
<1> QED
  BY <1>1, <1>2, <1>3, <1>4, <1>5, HistoryType DEF TypeOK

LEMMA QuietIDs ==
    ASSUME TypeOK, IDs, Quiet
    PROVE  IDs'
<1>0. nextID \in Nat /\ nextID' \in Nat /\ nextID <= nextID' /\ nextID > 0
  BY DataTypes DEF Quiet, IDs
<1>1. RowIDs'
  BY <1>0, DataTypes DEF Quiet, QuietRows, IDs, RowIDs
<1>2. EmittedIDs'
  <2>1. \A x \in Executions : Emitted(x)' \subseteq Emitted(x)
    BY SameQueries DEF Quiet, QuietHistory
  <2> QED
    BY <1>0, <2>1, DataTypes DEF IDs, EmittedIDs
<1>3. ASSUME NEW e \in Event, Given(e) PROVE Given(e)'
  BY <1>0, <1>3, DataTypes DEF Given
<1>4. ASSUME NEW x \in Executions, NEW e \in Delivered(x)' PROVE Given(e)'
  <2>1. CASE e \in pending'[x] \ pending[x]
    BY <1>0, <2>1 DEF Quiet, QuietPending, ClientKinds, Given
  <2>2. CASE e \in pending[x] \cup Recorded(x)
    BY <1>3, <2>2, DataTypes DEF IDs, EventIDs, Delivered
  <2>3. Recorded(x)' \subseteq Recorded(x)
    BY SameQueries DEF Quiet, QuietHistory
  <2> QED
    BY <2>1, <2>2, <2>3 DEF Delivered
<1>5. ASSUME NEW h \in Handlers, wtask'[h] # NoTask, NEW e \in wtask'[h].new PROVE Given(e)'
  <2>1. CASE wtask'[h] = wtask[h]
    BY <1>3, <1>5, <2>1, DataTypes DEF IDs, EventIDs
  <2>2. CASE wtask'[h].exec \in Executions /\ wtask'[h].new \subseteq pending[wtask'[h].exec]
    BY <1>3, <1>5, <2>2, DataTypes DEF IDs, EventIDs, Delivered
  <2> QED
    BY <1>5, <2>1, <2>2 DEF Quiet, QuietTasks
<1>6. ActivityIDs'
  BY <1>0, DataTypes DEF Quiet, QuietActivities, IDs, ActivityIDs
<1> QED
  BY <1>0, <1>1, <1>2, <1>4, <1>5, <1>6 DEF IDs, EventIDs

\* A command refers to an event of the history.
LEMMA CommandOf ==
    ASSUME TypeOK, IDs, NEW x \in Executions, NEW E, NEW cmd \in CommandsOf(x, E)
    PROVE  cmd.of \in Nat /\ cmd.of < nextID
<1>1. ASSUME NEW closing, NEW kind, NEW F, NEW of \in Open(x, F, kind, closing)
      PROVE  of < nextID
  BY DEF Open, IDs, EmittedIDs
<1>2. cmd.of \in {0} \cup OpenTimers(x) \cup OpenSubWorkflows(x, E)
  BY DEF CommandsOf
<1> QED
  BY <1>1, <1>2, CommandType DEF OpenTimers, OpenSubWorkflows, IDs

\* The events of a command.
LEMMA EmittedEvents ==
    ASSUME NEW cmd, NEW s
    PROVE  s \in Emits(cmd) <=>
             \/ cmd.kind = "activity" /\ s = Ev(nextID, "ActivityScheduled", nextID)
             \/ cmd.kind = "timer" /\ s = Ev(nextID, "TimerScheduled", nextID)
             \/ cmd.kind = "cancelTimer" /\ s = Ev(nextID, "TimerCanceled", cmd.of)
             \/ cmd.kind = "subWorkflow" /\ s = Ev(nextID, "SubWorkflowScheduled", nextID)
             \/ /\ cmd.kind = "cancelSubWorkflow"
                /\ s = Ev(nextID, "SubWorkflowCancellationRequested", cmd.of)
BY DEF Emits

LEMMA CompletionIDs ==
    ASSUME TypeOK, IDs, NEW h \in Handlers, NEW E, NEW st, NEW cmd, NEW n,
           Completes(h, E, st, cmd, n)
    PROVE  IDs'
<1> DEFINE t == wtask[h]
           x == t.exec
<1>0. /\ x \in Executions /\ cmd \in CommandsOf(x, E) /\ E \subseteq t.new /\ t # NoTask
      /\ wtask' = [wtask EXCEPT ![h] = NoTask]
  BY DEF Completes
<1>1. nextID \in Nat /\ nextID > 0 /\ nextID' \in {nextID, nextID + 3}
      /\ (cmd.kind # "none" \/ st # "Active" => nextID' = nextID + 3)
  BY <1>0, CompletionTables, DataTypes DEF IDs
<1>2. cmd.of \in Nat /\ cmd.of < nextID
  BY <1>0, CommandOf
<1>3. ASSUME NEW r \in Starts(x, st, cmd)
      PROVE  r.of \in Nat /\ r.of <= nextID /\ (cmd.kind # "none" \/ st # "Active")
  BY <1>0, <1>1, DataTypes DEF Starts, NewRow, IDs, RowIDs
<1>4. RowIDs'
  <2>1. ASSUME NEW y \in Executions
        PROVE  inst'[y].of = inst[y].of \/ inst'[y] \in Starts(x, st, cmd)
    <3>1. CASE y = x
      BY <3>1, CompletionRows
    <3>2. CASE y = n
      BY <1>0, <3>2, CompletionRows, ExecutionsType
    <3>3. CASE y \in Executions \ {x, n}
      BY <1>0, <3>3, CompletionRows
    <3> QED
      BY <3>1, <3>2, <3>3
  <2> QED
    BY <1>1, <1>3, <2>1, DataTypes DEF IDs, RowIDs
<1>5. ASSUME NEW y \in Executions, NEW s \in Emitted(y)'
      PROVE  s.id < nextID' /\ s.of < nextID' /\ (s.kind \in Scheduling => s.of = s.id)
  <2>1. s \in Emitted(y) \/ s \in Emits(cmd)
    BY <1>0, <1>5, CompletionTables, SameQueries
  <2>2. CASE s \in Emitted(y)
    BY <1>1, <2>2, DataTypes DEF IDs, EmittedIDs
  <2>3. CASE s \in Emits(cmd)
    <3>1. cmd.kind # "none"
      BY <2>3, EmittedEvents
    <3> QED
      BY <1>1, <1>2, <2>3, <3>1, EmittedEvents DEF Ev, Scheduling
  <2> QED
    BY <2>1, <2>2, <2>3
<1>6. ASSUME NEW e \in Event, Given(e) PROVE Given(e)'
  BY <1>1, <1>6, DataTypes DEF Given
<1>7. ASSUME NEW y \in Executions, NEW e \in SentTo(y, Messages(x, st, cmd, n)) PROVE Given(e)'
  <2>1. CASE cmd.kind = "timer" /\ e = Ev(nextID + 1, "TimerFired", nextID)
    BY <1>1, <2>1 DEF Ev, Given
  <2>2. CASE \/ e = Ev(nextID + 1, "WorkflowExecutionCanceled", 0)
             \/ e = Ev(nextID + 1, "WorkflowExecutionStarted", 0)
    BY <1>1, <2>2 DEF Ev, Given
  <2>3. CASE \E r \in Starts(x, st, cmd) : e = Ev(nextID + 1, "SubWorkflowFailed", r.of)
    BY <1>1, <1>3, <2>3 DEF Ev, Given
  <2>4. CASE e = Ev(nextID + 2, "SubWorkflowCompleted", inst[x].of)
    BY <1>0, <1>1, <2>4, DataTypes DEF Ev, Given, IDs, RowIDs
  <2> QED
    BY <1>0, <1>7, <2>1, <2>2, <2>3, <2>4, SentEvents
<1>8. ASSUME NEW y \in Executions, NEW e \in Delivered(y)' PROVE Given(e)'
  <2>1. CASE e \in pending'[y]
    <3>1. e \in pending[y] \/ e \in SentTo(y, Messages(x, st, cmd, n))
      BY <1>0, <2>1, CompletionTables
    <3> QED
      BY <1>6, <1>7, <3>1, DataTypes DEF IDs, EventIDs, Delivered
  <2>2. CASE e \in Recorded(y)'
    <3>1. e \in Recorded(y) \/ e \in t.new
      BY <1>0, <2>2, CompletionTables, SameQueries
    <3> QED
      BY <1>0, <1>6, <3>1, DataTypes DEF IDs, EventIDs, Delivered
  <2> QED
    BY <1>8, <2>1, <2>2 DEF Delivered
<1>9. ASSUME NEW g \in Handlers, wtask'[g] # NoTask, NEW e \in wtask'[g].new PROVE Given(e)'
  <2>1. wtask'[g] = wtask[g]
    BY <1>0, <1>9 DEF TypeOK
  <2> QED
    BY <1>6, <1>9, <2>1, DataTypes DEF IDs, EventIDs
<1>10. ASSUME NEW a \in activities'
       PROVE  a.ev.id < nextID' /\ a.ev.kind = "ActivityScheduled" /\ a.ev.of = a.ev.id
  <2>1. CASE a \in activities
    BY <1>1, <2>1, DataTypes DEF IDs, ActivityIDs
  <2>2. CASE a.ev \in Emits(cmd) /\ a.ev.kind = "ActivityScheduled"
    BY <1>1, <2>2, EmittedEvents DEF Ev
  <2>3. activities' = activities \cup
          {[ev |-> e, exec |-> x, lock |-> "null", worker |-> NoWorker]
             : e \in {e \in Emits(cmd) : e.kind = "ActivityScheduled"}}
    BY <1>0, CompletionTables
  <2> QED
    BY <1>10, <2>1, <2>2, <2>3
<1>11. nextID' > 0
  BY <1>1
<1> QED
  BY <1>4, <1>5, <1>8, <1>9, <1>10, <1>11 DEF IDs, EmittedIDs, EventIDs, ActivityIDs

\* The completion of an activity replaces its row by its result.
Answered(a) ==
    /\ a \in activities /\ a.exec \in Executions
    /\ activities' = activities \ {a}
    /\ \A y \in Executions : \A e :
         e \in pending'[y] <=> \/ e \in pending[y]
                               \/ y = a.exec /\ e = Ev(nextID, "ActivityCompleted", a.ev.of)
    /\ nextID' = nextID + 1
    /\ UNCHANGED <<inst, hist, wtask>>

LEMMA ActivityAnswered ==
    ASSUME TypeOK, NEW h \in Handlers, CompleteActivityTask(h)
    PROVE  \E a : Answered(a)
<1>1. PICK a \in OwnActivity(h) :
        /\ activities' = activities \ {a}
        /\ pending' = [pending EXCEPT ![a.exec] =
                          @ \cup {Ev(nextID, "ActivityCompleted", a.ev.of)}]
  BY DEF CompleteActivityTask
<1>2. a \in activities /\ a.exec \in Executions
  BY <1>1, DataTypes DEF OwnActivity
<1>3. \A y \in Executions : \A e :
        e \in pending'[y] <=> \/ e \in pending[y]
                              \/ y = a.exec /\ e = Ev(nextID, "ActivityCompleted", a.ev.of)
  BY <1>1, <1>2 DEF TypeOK
<1>4. Answered(a)
  BY <1>1, <1>2, <1>3 DEF Answered, CompleteActivityTask
<1> QED
  BY <1>4

LEMMA AnswerIDs ==
    ASSUME TypeOK, IDs, NEW a, Answered(a)
    PROVE  IDs'
<1>0. nextID \in Nat /\ nextID > 0 /\ nextID' = nextID + 1
  BY DataTypes DEF IDs, Answered
<1>1. RowIDs'
  BY <1>0, DataTypes DEF Answered, IDs, RowIDs
<1>2. \A x \in Executions : Emitted(x)' = Emitted(x) /\ Recorded(x)' = Recorded(x)
  BY SameQueries DEF Answered
<1>3. EmittedIDs'
  BY <1>0, <1>2, DataTypes DEF IDs, EmittedIDs
<1>4. ASSUME NEW e \in Event, Given(e) PROVE Given(e)'
  BY <1>0, <1>4, DataTypes DEF Given
<1>5. a.ev \in Event /\ a.ev.of < nextID
  BY DataTypes DEF Answered, IDs, ActivityIDs
<1>6. ASSUME NEW x \in Executions, NEW e \in Delivered(x)' PROVE Given(e)'
  <2>1. CASE e = Ev(nextID, "ActivityCompleted", a.ev.of)
    BY <1>0, <1>5, <2>1, DataTypes DEF Ev, Given
  <2>2. CASE e \in pending[x] \cup Recorded(x)
    BY <1>4, <2>2, DataTypes DEF IDs, EventIDs, Delivered
  <2> QED
    BY <1>2, <1>6, <2>1, <2>2 DEF Answered, Delivered
<1>7. ASSUME NEW h \in Handlers, wtask'[h] # NoTask, NEW e \in wtask'[h].new PROVE Given(e)'
  BY <1>4, <1>7, DataTypes DEF Answered, IDs, EventIDs
<1>8. ActivityIDs'
  BY <1>0, DataTypes DEF Answered, IDs, ActivityIDs
<1> QED
  BY <1>0, <1>1, <1>3, <1>6, <1>7, <1>8 DEF IDs, EventIDs

LEMMA StepIDs == ASSUME TypeOK, IDs, [Next]_vars PROVE IDs'
<1>1. CASE Quiet
  BY <1>1, QuietIDs
<1>2. ASSUME NEW h \in Handlers, CompleteWorkflowTask(h) PROVE IDs'
  <2>1. PICK E, st, cmd, n : Completes(h, E, st, cmd, n)
    BY <1>2, CompletionChosen
  <2> QED
    BY <2>1, CompletionIDs
<1>3. ASSUME NEW h \in Handlers, CompleteActivityTask(h) PROVE IDs'
  <2>1. PICK a : Answered(a)
    BY <1>3, ActivityAnswered
  <2> QED
    BY <2>1, AnswerIDs
<1> QED
  BY <1>1, <1>2, <1>3, StepCases

-----------------------------------------------------------------------------
(* The outcome of an activity.  Its event either has a row, or one result. *)

\* The results of the activity that s schedules, among the events of x.
Results(x, s) == {e \in Delivered(x) : e.kind = "ActivityCompleted" /\ e.of = s.of}

HasRow(s) == \E a \in activities : a.ev = s

OneResult ==
    \A x \in Executions : \A s \in Emitted(x) : s.kind = "ActivityScheduled" =>
      /\ HasRow(s) => Results(x, s) = {}
      /\ ~HasRow(s) => \E e : Results(x, s) = {e}

\* The activities of a history belong to its execution.
OwnRows ==
    \A x \in Executions : \A s \in Emitted(x) : \A a \in activities : a.ev = s => a.exec = x

\* The results a task holds have been delivered, unless the execution was removed.
ResultsDelivered ==
    \A h \in Handlers : wtask[h] # NoTask =>
      \/ inst[wtask[h].exec].state \in Gone
      \/ \A e \in wtask[h].new : e.kind = "ActivityCompleted" => e \in Delivered(wtask[h].exec)

ActivityInv == TypeOK /\ IDs /\ OneRow /\ OwnRows /\ ResultsDelivered /\ OneResult

LEMMA QuietOneResult ==
    ASSUME ActivityInv, Quiet
    PROVE  OneRow' /\ OwnRows' /\ OneResult'
<1>1. OneRow'
  BY DEF ActivityInv, Quiet, QuietActivities
<1>2. ASSUME NEW x \in Executions, NEW s \in Emitted(x)'
      PROVE  hist'[x] = hist[x] /\ s \in Emitted(x) /\ Recorded(x)' = Recorded(x)
  BY <1>2, SameQueries DEF Quiet, QuietHistory
<1>3. OwnRows'
  BY <1>2 DEF ActivityInv, OwnRows, Quiet, QuietActivities
<1>4. ASSUME NEW x \in Executions, NEW s \in Emitted(x)'
      PROVE  Results(x, s)' = Results(x, s) /\ (HasRow(s)' <=> HasRow(s))
  <2>1. \A e : e.kind = "ActivityCompleted" => (e \in pending'[x] <=> e \in pending[x])
    BY DEF Quiet, QuietPending, ClientKinds
  <2>2. \A e : e.kind = "ActivityCompleted" => (e \in Delivered(x)' <=> e \in Delivered(x))
    BY <1>2, <2>1 DEF Delivered
  <2>3. HasRow(s)' <=> HasRow(s)
    BY DEF HasRow, Quiet, QuietActivities
  <2> QED
    BY <2>2, <2>3 DEF Results
<1>5. OneResult'
  BY <1>2, <1>4 DEF ActivityInv, OneResult
<1> QED
  BY <1>1, <1>3, <1>5

LEMMA QuietResultsDelivered ==
    ASSUME ActivityInv, Quiet
    PROVE  ResultsDelivered'
<1>1. \A h \in Handlers : wtask'[h] # NoTask => wtask'[h].exec \in Executions
  BY DataTypes DEF Quiet, QuietTasks, ActivityInv
<1>2. ASSUME NEW h \in Handlers, wtask'[h] # NoTask,
             NEW x \in Executions, x = wtask'[h].exec, inst'[x].state \notin Gone,
             NEW e \in wtask'[h].new, e.kind = "ActivityCompleted"
      PROVE  e \in Delivered(x)'
  <2>1. inst[x].state \notin Gone /\ hist'[x] = hist[x]
    BY <1>2 DEF Quiet, QuietRows, QuietHistory
  <2>2. ASSUME wtask'[h] = wtask[h] PROVE e \in Delivered(x)
    BY <1>2, <2>1, <2>2 DEF ActivityInv, ResultsDelivered
  <2>3. ASSUME wtask'[h].new \subseteq pending[x] PROVE e \in Delivered(x)
    BY <1>2, <2>3 DEF Delivered
  <2>4. e \in Delivered(x)
    BY <1>2, <2>2, <2>3 DEF Quiet, QuietTasks
  <2>5. Delivered(x) \subseteq Delivered(x)'
    BY <2>1, SameQueries DEF Delivered, Quiet, QuietPending
  <2> QED
    BY <2>4, <2>5
<1> QED
  BY <1>1, <1>2 DEF ResultsDelivered, Delivered, Recorded

LEMMA CompletionOneResult ==
    ASSUME ActivityInv, NEW h \in Handlers, NEW E, NEW st, NEW cmd, NEW n,
           Completes(h, E, st, cmd, n), NEW x \in Executions, x = wtask[h].exec
    PROVE  OneRow' /\ OwnRows' /\ ResultsDelivered' /\ OneResult'
<1> DEFINE t == wtask[h]
           new == {[ev |-> e, exec |-> x, lock |-> "null", worker |-> NoWorker]
                     : e \in {e \in Emits(cmd) : e.kind = "ActivityScheduled"}}
<1>0. /\ E \subseteq t.new /\ t # NoTask /\ TypeOK /\ IDs
      /\ wtask' = [wtask EXCEPT ![h] = NoTask]
      /\ inst[x].state \notin Gone
  BY DEF Completes, ActivityInv, Exists, RowStates, Gone
<1>1. /\ \A y \in Executions \ {x} : hist'[y] = hist[y]
      /\ RemovedAtOnce(st) => hist'[x] = <<>>
      /\ ~RemovedAtOnce(st) => /\ Recorded(x)' = Recorded(x) \cup E
                               /\ Emitted(x)' = Emitted(x) \cup Emits(cmd)
      /\ activities' = activities \cup new
  BY <1>0, CompletionTables
<1>2. ASSUME NEW a \in new PROVE a.ev = Ev(nextID, "ActivityScheduled", nextID) /\ a.exec = x
  BY EmittedEvents DEF Ev
<1>3. ASSUME NEW s \in Emits(cmd), s.kind = "ActivityScheduled"
      PROVE  s = Ev(nextID, "ActivityScheduled", nextID) /\ \E a \in new : a.ev = s
  <2>1. s = Ev(nextID, "ActivityScheduled", nextID)
    BY <1>3, EmittedEvents DEF Ev
  <2>2. [ev |-> s, exec |-> x, lock |-> "null", worker |-> NoWorker] \in new
    BY <1>3
  <2> QED
    BY <2>1, <2>2
<1>4. \A a, b \in new : a = b
  BY EmittedEvents
<1>5. Ev(nextID, "ActivityScheduled", nextID).id = nextID
  BY DEF Ev
<1>6. \A a \in activities : a.ev.id < nextID
  BY <1>0 DEF IDs, ActivityIDs
<1>7. \A y \in Executions : \A s \in Emitted(y) : s.id < nextID
  BY <1>0 DEF IDs, EmittedIDs
<1>8. nextID \in Nat
  BY <1>0, DataTypes
<1> HIDE DEF new
<1>9. OneRow'
  BY <1>1, <1>2, <1>4, <1>5, <1>6, <1>8 DEF ActivityInv, OneRow
<1>10. ASSUME NEW y \in Executions, NEW s \in Emitted(y)'
       PROVE  s \in Emitted(y) \/ (y = x /\ s \in Emits(cmd))
  BY <1>1, <1>10, SameQueries
<1>11. ASSUME NEW s \in Emits(cmd) PROVE s.id = nextID
  BY <1>11, EmittedEvents DEF Ev
<1>12. OwnRows'
  <2> SUFFICES ASSUME NEW y \in Executions, NEW s \in Emitted(y)', NEW a \in activities', a.ev = s
               PROVE  a.exec = y
    BY DEF OwnRows
  <2>1. CASE s \in Emitted(y)
    <3>1. a \in activities
      BY <1>1, <1>2, <1>5, <1>7, <1>8, <2>1
    <3> QED
      BY <2>1, <3>1 DEF ActivityInv, OwnRows
  <2>2. CASE y = x /\ s \in Emits(cmd)
    <3>1. a \in new
      BY <1>1, <1>6, <1>8, <1>11, <2>2
    <3> QED
      BY <1>2, <2>2, <3>1
  <2> QED
    BY <1>10, <2>1, <2>2
<1>13. ASSUME NEW y \in Executions, NEW e, e.kind = "ActivityCompleted"
       PROVE  e \in pending'[y] <=> e \in pending[y] /\ (y = x => e \notin E)
  <2>1. e \notin SentTo(y, Messages(x, st, cmd, n))
    BY <1>0, <1>13, SentEvents DEF Ev
  <2>2. Deleted(E, cmd, e) <=> e \in E
    BY <1>13 DEF Deleted
  <2> QED
    BY <1>0, <2>1, <2>2, CompletionTables
<1>14. \A e \in E : e.kind = "ActivityCompleted" => e \in Delivered(x)
  BY <1>0 DEF ActivityInv, ResultsDelivered
<1>15. ASSUME NEW y \in Executions, ~(y = x /\ RemovedAtOnce(st)), NEW e, e.kind = "ActivityCompleted"
       PROVE  e \in Delivered(y)' <=> e \in Delivered(y)
  BY <1>1, <1>13, <1>14, <1>15, SameQueries DEF Delivered
<1>16. ResultsDelivered'
  <2>1. ASSUME NEW g \in Handlers, wtask'[g] # NoTask,
               NEW y \in Executions, y = wtask'[g].exec, inst'[y].state \notin Gone,
               NEW e \in wtask'[g].new, e.kind = "ActivityCompleted"
        PROVE  e \in Delivered(y)'
    <3>1. wtask'[g] = wtask[g]
      BY <1>0, <2>1 DEF TypeOK
    <3>2. inst[y].state \notin Gone
      <4>1. CASE y = x
        BY <1>0, <4>1
      <4>2. CASE y = n
        BY <1>0, <2>1, <4>2, CompletionRows, ExecutionsType DEF Gone
      <4>3. CASE y \in Executions \ {x, n}
        BY <1>0, <2>1, <4>3, CompletionRows
      <4> QED
        BY <4>1, <4>2, <4>3
    <3>3. e \in Delivered(y)
      BY <2>1, <3>1, <3>2 DEF ActivityInv, ResultsDelivered
    <3>4. ~(y = x /\ RemovedAtOnce(st))
      BY <1>0, <2>1, CompletionRows DEF Gone
    <3> QED
      BY <1>15, <2>1, <3>3, <3>4
  <2>2. \A g \in Handlers : wtask'[g] # NoTask => wtask'[g].exec \in Executions
    BY <1>0, DataTypes DEF TypeOK
  <2> QED
    BY <2>1, <2>2 DEF ResultsDelivered, Delivered, Recorded
<1>17. OneResult'
  <2> SUFFICES ASSUME NEW y \in Executions, NEW s \in Emitted(y)', s.kind = "ActivityScheduled"
               PROVE  /\ HasRow(s)' => Results(y, s)' = {}
                      /\ ~HasRow(s)' => \E e : Results(y, s)' = {e}
    BY DEF OneResult
  <2>1. ~(y = x /\ RemovedAtOnce(st))
    BY <1>1, SameQueries
  <2>2. Results(y, s)' = Results(y, s)
    BY <1>15, <2>1 DEF Results
  <2>3. CASE s \in Emitted(y)
    <3>1. HasRow(s)' <=> HasRow(s)
      BY <1>1, <1>2, <1>5, <1>7, <1>8, <2>3 DEF HasRow
    <3> QED
      BY <2>2, <2>3, <3>1 DEF ActivityInv, OneResult
  <2>4. CASE y = x /\ s \in Emits(cmd)
    <3>1. HasRow(s)'
      BY <1>1, <1>3, <2>4 DEF HasRow
    <3>2. s.of = nextID
      BY <1>3, <2>4 DEF Ev
    <3>3. \A e \in Delivered(y) : e.of < nextID
      BY <1>0 DEF IDs, EventIDs, Given
    <3>4. Results(y, s) = {}
      BY <1>8, <3>2, <3>3 DEF Results
    <3> QED
      BY <2>2, <3>1, <3>4
  <2> QED
    BY <1>10, <2>3, <2>4
<1> QED
  BY <1>9, <1>12, <1>16, <1>17

LEMMA AnswerOneResult ==
    ASSUME ActivityInv, NEW a, Answered(a)
    PROVE  OneRow' /\ OwnRows' /\ ResultsDelivered' /\ OneResult'
<1> DEFINE result == Ev(nextID, "ActivityCompleted", a.ev.of)
<1>0. /\ TypeOK /\ IDs /\ a \in activities /\ activities' = activities \ {a}
      /\ UNCHANGED <<inst, hist, wtask>>
      /\ \A y \in Executions : \A e :
           e \in pending'[y] <=> e \in pending[y] \/ (y = a.exec /\ e = result)
  BY DEF ActivityInv, Answered
<1>1. \A y \in Executions : Emitted(y)' = Emitted(y) /\ Recorded(y)' = Recorded(y)
  BY <1>0, SameQueries
<1>2. ASSUME NEW y \in Executions, NEW e
      PROVE  e \in Delivered(y)' <=> e \in Delivered(y) \/ (y = a.exec /\ e = result)
  BY <1>0, <1>1 DEF Delivered
<1>3. OneRow' /\ OwnRows'
  BY <1>0, <1>1 DEF ActivityInv, OneRow, OwnRows
<1>4. ResultsDelivered'
  <2>1. ASSUME NEW h \in Handlers, wtask[h] # NoTask, NEW y \in Executions, y = wtask[h].exec,
               inst[y].state \notin Gone, NEW e \in wtask[h].new, e.kind = "ActivityCompleted"
        PROVE  e \in Delivered(y)'
    BY <1>2, <2>1 DEF ActivityInv, ResultsDelivered
  <2>2. \A h \in Handlers : wtask[h] # NoTask => wtask[h].exec \in Executions
    BY <1>0, DataTypes
  <2> QED
    BY <1>0, <2>1, <2>2 DEF ResultsDelivered, Delivered, Recorded
<1>5. OneResult'
  <2> SUFFICES ASSUME NEW y \in Executions, NEW s \in Emitted(y), s.kind = "ActivityScheduled"
               PROVE  /\ HasRow(s)' => Results(y, s)' = {}
                      /\ ~HasRow(s)' => \E e : Results(y, s)' = {e}
    BY <1>1 DEF OneResult
  <2>1. CASE s = a.ev
    <3>1. y = a.exec /\ HasRow(s)
      BY <1>0, <2>1 DEF ActivityInv, OwnRows, HasRow
    <3>2. Results(y, s) = {}
      BY <3>1 DEF ActivityInv, OneResult
    <3>3. ~HasRow(s)'
      BY <1>0, <2>1 DEF ActivityInv, OneRow, HasRow
    <3>4. result.kind = "ActivityCompleted" /\ result.of = s.of
      BY <2>1 DEF Ev
    <3> HIDE DEF result
    <3>5. Results(y, s)' = {result}
      BY <1>2, <3>1, <3>2, <3>4 DEF Results
    <3> QED
      BY <3>3, <3>5
  <2>2. CASE s # a.ev
    <3>1. HasRow(s)' <=> HasRow(s)
      BY <1>0, <2>2 DEF HasRow
    <3>2. s.of # a.ev.of
      <4>1. s \in Event /\ a.ev \in Event /\ a.ev.kind = "ActivityScheduled"
            /\ a.ev.of = a.ev.id /\ s.of = s.id
        BY <1>0, DataTypes DEF IDs, EmittedIDs, ActivityIDs, Scheduling
      <4> QED
        BY <2>2, <4>1 DEF Event
    <3>3. result.of # s.of
      BY <3>2 DEF Ev
    <3> HIDE DEF result
    <3>4. Results(y, s)' = Results(y, s)
      BY <1>2, <3>3 DEF Results
    <3> QED
      BY <3>1, <3>4 DEF ActivityInv, OneResult
  <2> QED
    BY <2>1, <2>2
<1> QED
  BY <1>3, <1>4, <1>5

LEMMA InitActivities == Init => ActivityInv
<1> SUFFICES ASSUME Init PROVE ActivityInv
  OBVIOUS
<1>1. activities = {} /\ \A h \in Handlers : wtask[h] = NoTask
  BY DEF Init
<1>2. \A x \in Executions : Emitted(x) = {}
  BY DEF Init, Emitted
<1> QED
  BY <1>1, <1>2, InitType, InitIDs DEF ActivityInv, OneRow, OwnRows, ResultsDelivered, OneResult

LEMMA StepActivities == ASSUME ActivityInv, [Next]_vars PROVE ActivityInv'
<1>0. TypeOK /\ IDs /\ TypeOK' /\ IDs'
  BY StepType, StepIDs DEF ActivityInv
<1>1. CASE Quiet
  BY <1>0, <1>1, QuietOneResult, QuietResultsDelivered DEF ActivityInv
<1>2. ASSUME NEW h \in Handlers, CompleteWorkflowTask(h) PROVE ActivityInv'
  <2>1. PICK E, st, cmd, n : Completes(h, E, st, cmd, n)
    BY <1>0, <1>2, CompletionChosen
  <2>2. wtask[h].exec \in Executions
    BY <2>1 DEF Completes
  <2> QED
    BY <1>0, <2>1, <2>2, CompletionOneResult DEF ActivityInv
<1>3. ASSUME NEW h \in Handlers, CompleteActivityTask(h) PROVE ActivityInv'
  <2>1. PICK a : Answered(a)
    BY <1>0, <1>3, ActivityAnswered
  <2> QED
    BY <1>0, <2>1, AnswerOneResult DEF ActivityInv
<1> QED
  BY <1>0, <1>1, <1>2, <1>3, StepCases

LEMMA CountedOutcome == ActivityInv => ActivityOutcome
<1> SUFFICES ASSUME ActivityInv, NEW x \in Executions, NEW s \in Emitted(x),
                    s.kind = "ActivityScheduled"
             PROVE  Cardinality({a \in activities : a.ev = s}) + Cardinality(Results(x, s)) = 1
  BY DEF ActivityOutcome, Results
<1> DEFINE rows == {a \in activities : a.ev = s}
<1> SUFFICES Cardinality(rows) + Cardinality(Results(x, s)) = 1
  OBVIOUS
<1>1. Cardinality({}) = 0 /\ \A e : Cardinality({e}) = 1
  BY FS_EmptySet, FS_Singleton
<1>2. CASE HasRow(s)
  <2>1. PICK a \in activities : a.ev = s
    BY <1>2 DEF HasRow
  <2>2. rows = {a}
    BY <2>1 DEF ActivityInv, OneRow
  <2>3. Results(x, s) = {}
    BY <1>2 DEF ActivityInv, OneResult
  <2>4. Cardinality(rows) = 1 /\ Cardinality(Results(x, s)) = 0
    BY <1>1, <2>2, <2>3
  <2> HIDE DEF rows
  <2> QED
    BY <2>4
<1>3. CASE ~HasRow(s)
  <2>1. rows = {}
    BY <1>3 DEF HasRow
  <2>2. \E e : Results(x, s) = {e}
    BY <1>3 DEF ActivityInv, OneResult
  <2>3. Cardinality(rows) = 0 /\ Cardinality(Results(x, s)) = 1
    BY <1>1, <2>1, <2>2
  <2> HIDE DEF rows
  <2> QED
    BY <2>3
<1> QED
  BY <1>2, <1>3

(* Every activity of a history has exactly one outcome, its row in the     *)
(* activities table or one result, for all three backends: also when tasks *)
(* are completed stale, events fail and several workers run the activity   *)
(* (CompleteActivityTask deletes the row it answers).                      *)
THEOREM ActivitiesAnsweredOnce == Spec => []ActivityOutcome
<1>1. Init => ActivityInv
  BY InitActivities
<1>2. ActivityInv /\ [Next]_vars => ActivityInv'
  BY StepActivities
<1>3. ActivityInv => ActivityOutcome
  BY CountedOutcome
<1> QED
  BY <1>1, <1>2, <1>3, PTL DEF Spec

-----------------------------------------------------------------------------
(* The outcome of a timer.  Its future event is determined by the event    *)
(* that schedules it, so that recording one and keeping another is not     *)
(* possible.                                                               *)

Ends == {"TimerFired", "TimerCanceled"}

\* A timer of x has its future event, or has fired or been canceled.
Pends(x, of) == \E e \in pending[x] : e.kind = "TimerFired" /\ e.of = of
Ended(x, of) == \E e \in Emitted(x) \cup Recorded(x) : e.kind \in Ends /\ e.of = of

TimersPend ==
    \A x \in Executions : \A s \in Emitted(x) :
      s.kind = "TimerScheduled" => (Pends(x, s.of) <=> ~Ended(x, s.of))

TimerInv == TypeOK /\ IDs /\ TimersPend

LEMMA CountedTimers == TimersPend => TimerOutcome
<1> SUFFICES ASSUME TimersPend, NEW x \in Executions, NEW s \in Emitted(x),
                    s.kind = "TimerScheduled"
             PROVE  Pends(x, s.of) <=> s.of \in OpenTimers(x)
  BY DEF TimerOutcome, Pends
<1>1. s.of \in OpenTimers(x) <=> ~Ended(x, s.of)
  BY DEF OpenTimers, Open, Ended, Ends
<1> QED
  BY <1>1 DEF TimersPend

\* A step that does not touch the timers of an execution.
LEMMA SameTimers ==
    ASSUME TimersPend,
           \A x \in Executions : \A e : e.kind = "TimerFired" =>
             (e \in pending'[x] <=> e \in pending[x]),
           \A x \in Executions : hist'[x] = hist[x] \/ hist'[x] = <<>>
    PROVE  TimersPend'
<1> SUFFICES ASSUME NEW x \in Executions, NEW s \in Emitted(x)', s.kind = "TimerScheduled"
             PROVE  Pends(x, s.of)' <=> ~Ended(x, s.of)'
  BY DEF TimersPend
<1>1. Emitted(x)' = Emitted(x) /\ Recorded(x)' = Recorded(x)
  BY SameQueries
<1>2. Pends(x, s.of)' <=> Pends(x, s.of)
  BY DEF Pends
<1>3. Ended(x, s.of)' <=> Ended(x, s.of)
  BY <1>1 DEF Ended
<1> QED
  BY <1>1, <1>2, <1>3 DEF TimersPend

LEMMA CompletionTimers ==
    ASSUME TimerInv, NEW h \in Handlers, NEW E, NEW st, NEW cmd, NEW n,
           Completes(h, E, st, cmd, n), NEW x \in Executions, x = wtask[h].exec
    PROVE  TimersPend'
<1>0. /\ TypeOK /\ IDs /\ E \subseteq wtask[h].new /\ wtask[h] # NoTask
      /\ cmd \in CommandsOf(x, E) /\ nextID \in Nat
  BY DataTypes DEF TimerInv, Completes
<1>1. /\ \A y \in Executions \ {x} : hist'[y] = hist[y]
      /\ RemovedAtOnce(st) => hist'[x] = <<>>
      /\ ~RemovedAtOnce(st) => /\ Recorded(x)' = Recorded(x) \cup E
                               /\ Emitted(x)' = Emitted(x) \cup Emits(cmd)
  BY <1>0, CompletionTables
<1> DEFINE fired == Ev(nextID + 1, "TimerFired", nextID)
<1>2. ASSUME NEW y \in Executions, NEW e, e.kind = "TimerFired"
      PROVE  e \in pending'[y] <=>
               \/ e \in pending[y] /\ (y = x => e \notin E /\ ~(cmd.kind = "cancelTimer" /\ e.of = cmd.of))
               \/ cmd.kind = "timer" /\ y = x /\ e = fired
  <2>1. e \in SentTo(y, Messages(x, st, cmd, n)) <=> cmd.kind = "timer" /\ y = x /\ e = fired
    BY <1>0, <1>2, SentEvents DEF Ev
  <2>2. Deleted(E, cmd, e) <=> e \in E \/ (cmd.kind = "cancelTimer" /\ e.of = cmd.of)
    BY <1>2 DEF Deleted
  <2> QED
    BY <1>0, <2>1, <2>2, CompletionTables
<1>3. fired.kind = "TimerFired" /\ fired.of = nextID
  BY DEF Ev
<1>4. ASSUME NEW e \in pending[x] \cup Recorded(x) \cup E
      PROVE  /\ e \in Event /\ e.of < nextID /\ e.kind # "TimerCanceled"
             /\ e.kind = "TimerFired" => e.id = e.of + 1
  BY <1>0, DataTypes DEF IDs, EventIDs, Delivered, Given
<1>5. \A s \in Emitted(x) : s.of \in Nat /\ s.of < nextID
  BY <1>0, DataTypes DEF IDs, EmittedIDs
<1> HIDE DEF fired
<1>6. ASSUME NEW y \in Executions \ {x}, NEW s \in Emitted(y)', s.kind = "TimerScheduled"
      PROVE  Pends(y, s.of)' <=> ~Ended(y, s.of)'
  <2>1. Emitted(y)' = Emitted(y) /\ Recorded(y)' = Recorded(y)
    BY <1>1, SameQueries
  <2>2. Pends(y, s.of)' <=> Pends(y, s.of)
    BY <1>2 DEF Pends
  <2>3. Ended(y, s.of)' <=> Ended(y, s.of)
    BY <2>1 DEF Ended
  <2> QED
    BY <1>6, <2>1, <2>2, <2>3 DEF TimerInv, TimersPend
<1>7. ASSUME NEW s \in Emitted(x)', s.kind = "TimerScheduled"
      PROVE  Pends(x, s.of)' <=> ~Ended(x, s.of)'
  <2>1. /\ Recorded(x)' = Recorded(x) \cup E
        /\ Emitted(x)' = Emitted(x) \cup Emits(cmd)
    BY <1>1, <1>7, SameQueries
  <2>2. ASSUME NEW of
        PROVE  Ended(x, of)' <=> \/ Ended(x, of)
                                 \/ \E e \in E : e.kind = "TimerFired" /\ e.of = of
                                 \/ cmd.kind = "cancelTimer" /\ of = cmd.of
    <3>1. ASSUME NEW e \in Emits(cmd)
          PROVE  e.kind \in Ends <=> cmd.kind = "cancelTimer" /\ e = Ev(nextID, "TimerCanceled", cmd.of)
      BY <3>1, EmittedEvents DEF Ends, Ev
    <3>2. (\E e \in Emits(cmd) : e.kind \in Ends /\ e.of = of)
            <=> cmd.kind = "cancelTimer" /\ of = cmd.of
      <4> DEFINE canceled == Ev(nextID, "TimerCanceled", cmd.of)
      <4>1. canceled.kind \in Ends /\ canceled.of = cmd.of
        BY DEF Ev, Ends
      <4>2. cmd.kind = "cancelTimer" => canceled \in Emits(cmd)
        BY EmittedEvents
      <4> HIDE DEF canceled
      <4>3. \A e \in Emits(cmd) : e.kind \in Ends <=> cmd.kind = "cancelTimer" /\ e = canceled
        BY <3>1 DEF canceled
      <4> QED
        BY <4>1, <4>2, <4>3
    <3>3. \A e \in E : e.kind \in Ends <=> e.kind = "TimerFired"
      BY <1>4 DEF Ends
    <3> QED
      BY <2>1, <3>2, <3>3 DEF Ended
  <2>3. CASE s \in Emitted(x)
    <3>1. s.of # nextID
      BY <1>5, <2>3
    <3>2. Pends(x, s.of) <=> ~Ended(x, s.of)
      BY <1>7, <2>3 DEF TimerInv, TimersPend
    <3>3. Pends(x, s.of)' <=> /\ \E e \in pending[x] : e.kind = "TimerFired" /\ e.of = s.of /\ e \notin E
                              /\ ~(cmd.kind = "cancelTimer" /\ s.of = cmd.of)
      BY <1>2, <1>3, <3>1 DEF Pends
    <3>4. \A e \in pending[x], f \in E :
            e.kind = "TimerFired" /\ f.kind = "TimerFired" /\ e.of = f.of => e = f
      BY <1>4 DEF Event
    <3>5. CASE Pends(x, s.of)
      BY <2>2, <3>2, <3>3, <3>4, <3>5 DEF Pends
    <3>6. CASE ~Pends(x, s.of)
      BY <2>2, <3>2, <3>3, <3>6 DEF Pends
    <3> QED
      BY <3>5, <3>6
  <2>4. CASE s \in Emits(cmd)
    <3>1. cmd.kind = "timer" /\ s.of = nextID
      BY <1>7, <2>4, EmittedEvents DEF Ev
    <3>2. Pends(x, s.of)'
      BY <1>2, <1>3, <3>1 DEF Pends
    <3>3. \A e \in Emitted(x) \cup Recorded(x) \cup E : e.of # nextID
      <4>1. \A e \in Emitted(x) \cup Recorded(x) \cup E : e.of \in Nat /\ e.of < nextID
        BY <1>4, <1>5 DEF Event
      <4> QED
        BY <1>0, <4>1
    <3>4. ~Ended(x, s.of)'
      BY <2>2, <3>1, <3>3 DEF Ended
    <3> QED
      BY <3>2, <3>4
  <2> QED
    BY <1>7, <2>1, <2>3, <2>4
<1> QED
  BY <1>6, <1>7 DEF TimersPend

LEMMA StepTimers == ASSUME TimerInv, [Next]_vars PROVE TimerInv'
<1>0. TypeOK /\ IDs /\ TypeOK' /\ IDs'
  BY StepType, StepIDs DEF TimerInv
<1>1. CASE Quiet
  <2>1. \A x \in Executions : \A e : e.kind = "TimerFired" =>
          (e \in pending'[x] <=> e \in pending[x])
    BY <1>1 DEF Quiet, QuietPending, ClientKinds
  <2>2. \A x \in Executions : hist'[x] = hist[x] \/ hist'[x] = <<>>
    BY <1>1 DEF Quiet, QuietHistory
  <2> QED
    BY <1>0, <2>1, <2>2, SameTimers DEF TimerInv
<1>2. ASSUME NEW h \in Handlers, CompleteWorkflowTask(h) PROVE TimerInv'
  <2>1. PICK E, st, cmd, n : Completes(h, E, st, cmd, n)
    BY <1>0, <1>2, CompletionChosen
  <2>2. wtask[h].exec \in Executions
    BY <2>1 DEF Completes
  <2> QED
    BY <1>0, <2>1, <2>2, CompletionTimers DEF TimerInv
<1>3. ASSUME NEW h \in Handlers, CompleteActivityTask(h) PROVE TimerInv'
  <2>1. PICK a : Answered(a)
    BY <1>0, <1>3, ActivityAnswered
  <2>2. \A x \in Executions : \A e : e.kind = "TimerFired" =>
          (e \in pending'[x] <=> e \in pending[x])
    BY <2>1 DEF Answered, Ev
  <2>3. hist' = hist
    BY <2>1 DEF Answered
  <2> QED
    BY <1>0, <2>2, <2>3, SameTimers DEF TimerInv
<1> QED
  BY <1>0, <1>1, <1>2, <1>3, StepCases

(* A timer of a history has its future event exactly until it fires or is  *)
(* canceled, for all three backends: also when both happen in one task and *)
(* when tasks are completed stale (removeFutureEvent).                     *)
THEOREM TimersFireOnce == Spec => []TimerOutcome
<1>1. Init => TimerInv
  <2> SUFFICES ASSUME Init PROVE TimerInv
    OBVIOUS
  <2>1. \A x \in Executions : Emitted(x) = {}
    BY DEF Init, Emitted
  <2> QED
    BY <2>1, InitType, InitIDs DEF TimerInv, TimersPend
<1>2. TimerInv /\ [Next]_vars => TimerInv'
  BY StepTimers
<1>3. TimerInv => TimerOutcome
  BY CountedTimers DEF TimerInv
<1> QED
  BY <1>1, <1>2, <1>3, PTL DEF Spec

-----------------------------------------------------------------------------
(* One active execution.  createInstance looks for another one; what would *)
(* reopen a closed execution is the completion of a stale task, which the  *)
(* history's primary key rejects.                                          *)

Exclusive ==
    \A x, y \in Executions :
      IsActive(x) /\ IsActive(y) /\ inst[x].inst = inst[y].inst => x = y

LEMMA CurrentCompletes ==
    ASSUME UniqueEventIDs, ~EventsMayFail, IInv, NEW h \in Handlers, NEW E, NEW st, NEW cmd, NEW n,
           Completes(h, E, st, cmd, n), NEW x \in Executions, x = wtask[h].exec
    PROVE  IsActive(x) /\ E \subseteq pending[x]
<1> DEFINE t == wtask[h]
<1>1. E = t.new /\ t # NoTask /\ Exists(x) /\ E \cap Recorded(x) = {}
  BY DEF Completes, ExecutedSets, Insertable
<1>2. ~Fenced(t)
  BY <1>1 DEF Fenced, Exists, RowStates
<1>3. Current(t)
  BY <1>1, <1>2 DEF IInv, StaleTasksFenced, TasksCurrentOrFenced
<1> QED
  BY <1>1, <1>3 DEF Current, Visible

LEMMA CompletionExclusive ==
    ASSUME TypeOK, Exclusive, NEW h \in Handlers, NEW E, NEW st, NEW cmd, NEW n,
           Completes(h, E, st, cmd, n), NEW x \in Executions, x = wtask[h].exec, IsActive(x)
    PROVE  Exclusive'
<1>1. /\ inst'[x].state = "Active" => st = "Active"
      /\ inst'[x].inst = inst[x].inst
      /\ n # 0 => n \in Executions /\ ~AlreadyExists(x, st, inst'[n].inst)
      /\ \A y \in Executions \ {x, n} : inst'[y] = inst[y]
  BY CompletionRows DEF RowStates
<1>2. ASSUME NEW y \in Executions, inst'[y].state = "Active", y # n
      PROVE  IsActive(y) /\ inst'[y].inst = inst[y].inst /\ (y = x => st = "Active")
  BY <1>1, <1>2 DEF IsActive
<1>3. ASSUME NEW y \in Executions, inst'[y].state = "Active", y # n, n # 0
      PROVE  inst'[y].inst # inst'[n].inst
  BY <1>1, <1>2, <1>3 DEF AlreadyExists, ActiveExecutions
<1>4. ASSUME NEW y \in Executions, NEW z \in Executions,
             inst'[y].state = "Active", inst'[z].state = "Active", inst'[y].inst = inst'[z].inst
      PROVE  y = z
  <2>1. 0 \notin Executions
    BY ExecutionsType
  <2>2. CASE y = n \/ z = n
    BY <1>3, <1>4, <2>1, <2>2
  <2>3. CASE y # n /\ z # n
    BY <1>2, <1>4, <2>3 DEF Exclusive
  <2> QED
    BY <2>2, <2>3
<1> QED
  BY <1>4 DEF Exclusive, IsActive

LEMMA StepExclusive ==
    ASSUME UniqueEventIDs, ~EventsMayFail, IInv, Exclusive, [Next]_vars
    PROVE  Exclusive'
<1>0. TypeOK
  BY DEF IInv
<1>1. CASE Quiet
  BY <1>1 DEF Quiet, QuietRows, Opens, Exclusive, IsActive
<1>2. ASSUME NEW h \in Handlers, CompleteWorkflowTask(h) PROVE Exclusive'
  <2>1. PICK E, st, cmd, n : Completes(h, E, st, cmd, n)
    BY <1>0, <1>2, CompletionChosen
  <2>2. wtask[h].exec \in Executions
    BY <2>1 DEF Completes
  <2>3. IsActive(wtask[h].exec)
    BY <2>1, <2>2, CurrentCompletes
  <2> QED
    BY <1>0, <2>1, <2>2, <2>3, CompletionExclusive
<1>3. ASSUME NEW h \in Handlers, CompleteActivityTask(h) PROVE Exclusive'
  BY <1>3 DEF CompleteActivityTask, Exclusive, IsActive
<1> QED
  BY <1>0, <1>1, <1>2, <1>3, StepCases

LEMMA ExclusiveHolds ==
    ASSUME UniqueEventIDs, ~EventsMayFail
    PROVE  Spec => [](IInv /\ IDs /\ Exclusive)
<1>1. Init => IInv /\ IDs /\ Exclusive
  <2> SUFFICES ASSUME Init PROVE Exclusive
    BY InitNumbered, InitIDs
  <2>1. \A x \in Executions : inst[x].state = "unused"
    BY DEF Init, NewRow
  <2> QED
    BY <2>1 DEF Exclusive, IsActive
<1>2. IInv /\ IDs /\ Exclusive /\ [Next]_vars => (IInv /\ IDs /\ Exclusive)'
  BY StepNumbered, StepIDs, StepExclusive DEF IInv
<1> QED
  BY <1>1, <1>2, PTL DEF Spec

LEMMA CountedActive == Exclusive => OneActiveExecution
<1> SUFFICES ASSUME Exclusive, NEW i \in Instances
             PROVE  Cardinality(ActiveExecutions(i)) <= 1
  BY DEF OneActiveExecution
<1>1. \A x, y \in ActiveExecutions(i) : x = y
  BY DEF Exclusive, ActiveExecutions
<1>2. ActiveExecutions(i) = {} \/ \E x : ActiveExecutions(i) = {x}
  BY <1>1
<1>3. Cardinality({}) = 0 /\ \A x : Cardinality({x}) = 1
  BY FS_EmptySet, FS_Singleton
<1> QED
  BY <1>2, <1>3

(* On SQLite no two executions of an instance are active, whether clients, *)
(* parents or continuations start them and however stale the tasks are     *)
(* that handlers complete (createInstance, CompleteWorkflowTask).          *)
THEOREM OneExecutionActive ==
    ASSUME UniqueEventIDs, ~EventsMayFail
    PROVE  Spec => []OneActiveExecution
<1>1. IInv /\ IDs /\ Exclusive => OneActiveExecution
  BY CountedActive
<1> QED
  BY <1>1, ExclusiveHolds, PTL

-----------------------------------------------------------------------------
(* The outcome of a sub-workflow.  While it runs, one execution is active  *)
(* that names the parent and the event; a continuation takes its place in  *)
(* the same transaction, and cannot fail to, since no other execution of   *)
(* the instance is active.                                                 *)

Replies == {"SubWorkflowCompleted", "SubWorkflowFailed"}

Children(x, of) == {y \in Executions : IsActive(y) /\ inst[y].parent = x /\ inst[y].of = of}
Answers(x, of) == {e \in Delivered(x) : e.kind \in Replies /\ e.of = of}

Either(children, answers) ==
    \/ answers = {} /\ \E y : children = {y}
    \/ children = {} /\ \E e : answers = {e}

OneReply ==
    \A x \in Executions : \A s \in Emitted(x) :
      s.kind = "SubWorkflowScheduled" => Either(Children(x, s.of), Answers(x, s.of))

ChildInv == TypeOK /\ IDs /\ Exclusive /\ OneReply

LEMMA CountedReplies == OneReply => SubWorkflowOutcome
<1> SUFFICES ASSUME OneReply, NEW x \in Executions, NEW s \in Emitted(x),
                    s.kind = "SubWorkflowScheduled"
             PROVE  Cardinality(Children(x, s.of)) + Cardinality(Answers(x, s.of)) = 1
  BY DEF SubWorkflowOutcome, Children, Answers, Replies
<1>1. Either(Children(x, s.of), Answers(x, s.of))
  BY DEF OneReply
<1>2. Cardinality({}) = 0 /\ \A y : Cardinality({y}) = 1
  BY FS_EmptySet, FS_Singleton
<1>3. \/ Cardinality(Children(x, s.of)) = 1 /\ Cardinality(Answers(x, s.of)) = 0
      \/ Cardinality(Children(x, s.of)) = 0 /\ Cardinality(Answers(x, s.of)) = 1
  BY <1>1, <1>2 DEF Either
<1> QED
  BY <1>3

\* A step that neither starts nor ends a sub-workflow.
LEMMA SameReplies ==
    ASSUME OneReply,
           \A x \in Executions : hist'[x] = hist[x] \/ hist'[x] = <<>>,
           \A x \in Executions : \A e : e.kind \in Replies =>
             (e \in pending'[x] <=> e \in pending[x]),
           \A y \in Executions :
             /\ IsActive(y) => /\ inst'[y].state = "Active"
                               /\ inst'[y].parent = inst[y].parent /\ inst'[y].of = inst[y].of
             /\ inst'[y].state = "Active" => IsActive(y) \/ inst'[y].parent = 0
    PROVE  OneReply'
<1> SUFFICES ASSUME NEW x \in Executions, NEW s \in Emitted(x)', s.kind = "SubWorkflowScheduled"
             PROVE  Either(Children(x, s.of)', Answers(x, s.of)')
  BY DEF OneReply, Either
<1>1. Emitted(x)' = Emitted(x) /\ Recorded(x)' = Recorded(x)
  BY SameQueries
<1>2. x # 0
  BY ExecutionsType
<1>3. Children(x, s.of)' = Children(x, s.of)
  BY <1>2 DEF Children, IsActive
<1>4. Answers(x, s.of)' = Answers(x, s.of)
  BY <1>1 DEF Answers, Delivered
<1> QED
  BY <1>1, <1>3, <1>4 DEF OneReply

\* The rows that name a parent, after a completion.
LEMMA CompletionChildren ==
    ASSUME TypeOK, IDs, NEW h \in Handlers, NEW E, NEW st, NEW cmd, NEW n,
           Completes(h, E, st, cmd, n), NEW z \in Executions, z = wtask[h].exec, IsActive(z),
           NEW x \in Executions, NEW of
    PROVE  /\ \A y \in Executions \ {z, n} : y \in Children(x, of)' <=> y \in Children(x, of)
           /\ z \in Children(x, of)' <=> z \in Children(x, of) /\ st = "Active"
           /\ n \notin Children(x, of)
           /\ n \in Children(x, of)' <=>
                /\ n # 0
                /\ \E r \in Starts(z, st, cmd) : r.parent = x /\ r.of = of
<1>1. /\ inst'[z].state = IF RemovedAtOnce(st) THEN "removed" ELSE st
      /\ inst'[z].parent = inst[z].parent /\ inst'[z].of = inst[z].of
      /\ n # 0 => /\ n \in Executions /\ n # z /\ inst[n].state = "unused"
                  /\ Starts(z, st, cmd) = {inst'[n]} /\ inst'[n].state = "Active"
      /\ \A y \in Executions \ {z, n} : inst'[y] = inst[y]
  BY CompletionRows
<1>2. inst'[z].state = "Active" <=> st = "Active"
  BY <1>1 DEF RemovedAtOnce
<1>3. 0 \notin Executions
  BY ExecutionsType
<1> QED
  BY <1>1, <1>2, <1>3 DEF Children, IsActive

\* The replies that are delivered, after a completion.
LEMMA CompletionAnswers ==
    ASSUME TypeOK, NEW h \in Handlers, NEW E, NEW st, NEW cmd, NEW n,
           Completes(h, E, st, cmd, n), NEW z \in Executions, z = wtask[h].exec,
           E \subseteq pending[z], NEW x \in Executions, ~(x = z /\ RemovedAtOnce(st)), NEW of, NEW e
    PROVE  e \in Answers(x, of)' <=>
             \/ e \in Answers(x, of)
             \/ /\ n = 0 /\ x = z
                /\ \E r \in Starts(z, st, cmd) :
                     r.of = of /\ e = Ev(nextID + 1, "SubWorkflowFailed", of)
             \/ /\ st = "Finished" /\ x = inst[z].parent /\ inst[z].of = of
                /\ e = Ev(nextID + 2, "SubWorkflowCompleted", of)
<1> DEFINE sent == e \in SentTo(x, Messages(z, st, cmd, n))
           failed == /\ n = 0 /\ x = z
                     /\ \E r \in Starts(z, st, cmd) :
                          r.of = of /\ e = Ev(nextID + 1, "SubWorkflowFailed", of)
           completed == /\ st = "Finished" /\ x = inst[z].parent /\ inst[z].of = of
                        /\ e = Ev(nextID + 2, "SubWorkflowCompleted", of)
<1>1. /\ x # z => hist'[x] = hist[x]
      /\ x = z => Recorded(x)' = Recorded(x) \cup E
      /\ e \in pending'[x] <=> \/ e \in pending[x] /\ (x = z => ~Deleted(E, cmd, e))
                               \/ sent
  BY CompletionTables
<1>2. x # z => Recorded(x)' = Recorded(x)
  BY <1>1, SameQueries
<1>3. e.kind \in Replies => (Deleted(E, cmd, e) <=> e \in E)
  BY DEF Deleted, Replies
<1>4. sent /\ e.kind \in Replies /\ e.of = of <=> failed \/ completed
  <2>1. ASSUME sent, e.kind \in Replies, e.of = of PROVE failed \/ completed
    <3>1. \/ n = 0 /\ x = z /\ \E r \in Starts(z, st, cmd) : e = Ev(nextID + 1, "SubWorkflowFailed", r.of)
          \/ st = "Finished" /\ x = inst[z].parent /\ e = Ev(nextID + 2, "SubWorkflowCompleted", inst[z].of)
      BY <2>1, SentEvents DEF Ev, Replies
    <3> QED
      BY <2>1, <3>1 DEF Ev
  <2>2. ASSUME failed \/ completed PROVE sent /\ e.kind \in Replies /\ e.of = of
    <3>1. sent
      BY <2>2, SentEvents
    <3>2. e.kind \in Replies /\ e.of = of
      BY <2>2 DEF Ev, Replies
    <3> QED
      BY <3>1, <3>2
  <2> QED
    BY <2>1, <2>2
<1> HIDE DEF sent, failed, completed
<1>5. e \in Answers(x, of)' <=> e \in Answers(x, of) \/ (sent /\ e.kind \in Replies /\ e.of = of)
  BY <1>1, <1>2, <1>3 DEF Answers, Delivered
<1> QED
  BY <1>4, <1>5 DEF failed, completed

\* A continuation is created: the instance's one active execution is z itself.
LEMMA ContinuationStarts ==
    ASSUME TypeOK, Exclusive, NEW h \in Handlers, NEW E, NEW st, NEW cmd, NEW n,
           Completes(h, E, st, cmd, n), NEW z \in Executions, z = wtask[h].exec, IsActive(z),
           st = "ContinuedAsNew"
    PROVE  n # 0
<1>1. Starts(z, st, cmd) = {NewRow(inst[z].inst, inst[z].parent, inst[z].of)}
  BY DEF Starts
<1>2. NewRow(inst[z].inst, inst[z].parent, inst[z].of).inst = inst[z].inst
  BY DEF NewRow
<1>3. ~AlreadyExists(z, st, inst[z].inst)
  BY DEF AlreadyExists, ActiveExecutions, Exclusive
<1> QED
  BY <1>1, <1>2, <1>3, CompletionRows

LEMMA CompletionReplies ==
    ASSUME ChildInv, NEW h \in Handlers, NEW E, NEW st, NEW cmd, NEW n,
           Completes(h, E, st, cmd, n), NEW z \in Executions, z = wtask[h].exec,
           IsActive(z), E \subseteq pending[z]
    PROVE  OneReply'
<1>0. /\ TypeOK /\ IDs /\ Exclusive /\ nextID \in Nat
  BY DataTypes DEF ChildInv
<1>11. /\ st \in {"Active", "ContinuedAsNew", "Finished"}
       /\ (st = "ContinuedAsNew") => cmd.kind \in {"none", "cancelTimer"}
  BY DEF Completes, RowStates
<1>1. inst[z].of < nextID /\ inst[z].of \in Nat
  BY <1>0, DataTypes DEF IDs, RowIDs
<1>2. ASSUME NEW r \in Starts(z, st, cmd)
      PROVE  \/ st = "ContinuedAsNew" /\ r.parent = inst[z].parent /\ r.of = inst[z].of
             \/ st # "ContinuedAsNew" /\ cmd.kind = "subWorkflow" /\ r.parent = z /\ r.of = nextID
  <2>1. CASE st = "ContinuedAsNew"
    BY <2>1 DEF Starts, NewRow
  <2>2. CASE st # "ContinuedAsNew"
    BY <2>2 DEF Starts, NewRow
  <2> QED
    BY <2>1, <2>2
<1>3. /\ st = "ContinuedAsNew" =>
           \E r \in Starts(z, st, cmd) : r.parent = inst[z].parent /\ r.of = inst[z].of
      /\ st # "ContinuedAsNew" /\ cmd.kind = "subWorkflow" =>
           \E r \in Starts(z, st, cmd) : r.parent = z /\ r.of = nextID
  BY DEF Starts, NewRow
<1>4. st = "ContinuedAsNew" => n # 0
  BY <1>0, ContinuationStarts
<1> SUFFICES ASSUME NEW x \in Executions, NEW s \in Emitted(x)', s.kind = "SubWorkflowScheduled"
             PROVE  Either(Children(x, s.of)', Answers(x, s.of)')
  BY DEF OneReply, Either
<1> DEFINE of == s.of
<1>5. ~(x = z /\ RemovedAtOnce(st)) /\ (s \in Emitted(x) \/ (x = z /\ s \in Emits(cmd)))
  <2>1. /\ x # z => hist'[x] = hist[x]
        /\ x = z /\ RemovedAtOnce(st) => hist'[x] = <<>>
        /\ x = z /\ ~RemovedAtOnce(st) => Emitted(x)' = Emitted(x) \cup Emits(cmd)
    BY <1>0, CompletionTables
  <2> QED
    BY <2>1, SameQueries
<1>6. /\ \A y \in Executions \ {z, n} : y \in Children(x, of)' <=> y \in Children(x, of)
      /\ z \in Children(x, of)' <=> z \in Children(x, of) /\ st = "Active"
      /\ n \notin Children(x, of)
      /\ n \in Children(x, of)' <=>
           n # 0 /\ \E r \in Starts(z, st, cmd) : r.parent = x /\ r.of = of
  BY <1>0, CompletionChildren
<1>7. \A e : e \in Answers(x, of)' <=>
               \/ e \in Answers(x, of)
               \/ /\ n = 0 /\ x = z
                  /\ \E r \in Starts(z, st, cmd) :
                       r.of = of /\ e = Ev(nextID + 1, "SubWorkflowFailed", of)
               \/ /\ st = "Finished" /\ x = inst[z].parent /\ inst[z].of = of
                  /\ e = Ev(nextID + 2, "SubWorkflowCompleted", of)
  BY <1>0, <1>5, CompletionAnswers
<1>8. /\ z \in Children(x, of) <=> inst[z].parent = x /\ inst[z].of = of
      /\ Children(x, of) \subseteq Executions /\ Children(x, of)' \subseteq Executions
  BY DEF Children
<1>9. CASE s \in Emitted(x)
  <2>1. of # nextID
    BY <1>0, <1>9, DataTypes DEF IDs, EmittedIDs
  <2>2. Either(Children(x, of), Answers(x, of))
    BY <1>9 DEF ChildInv, OneReply
  <2>3. CASE z \in Children(x, of)
    <3>1. Children(x, of) = {z} /\ Answers(x, of) = {}
      BY <2>2, <2>3 DEF Either
    <3>2. CASE st = "Active"
      <4>1. n \notin Children(x, of)'
        BY <1>2, <1>6, <2>1, <3>2
      <4>2. Children(x, of)' = {z}
        BY <1>6, <1>8, <3>1, <3>2, <4>1
      <4>3. Answers(x, of)' = {}
        BY <1>2, <1>7, <2>1, <3>1, <3>2
      <4> QED
        BY <4>2, <4>3 DEF Either
    <3>3. CASE st = "ContinuedAsNew"
      <4>1. n \in Children(x, of)'
        BY <1>3, <1>4, <1>6, <1>8, <2>3, <3>3
      <4>2. Children(x, of)' = {n}
        BY <1>6, <1>8, <3>1, <3>3, <4>1
      <4>3. Answers(x, of)' = {}
        BY <1>4, <1>7, <3>1, <3>3
      <4> QED
        BY <4>2, <4>3 DEF Either
    <3>4. CASE st = "Finished"
      <4>1. n \notin Children(x, of)'
        BY <1>2, <1>6, <2>1, <3>4
      <4>2. Children(x, of)' = {}
        BY <1>6, <1>8, <3>1, <3>4, <4>1
      <4>3. Answers(x, of)' = {Ev(nextID + 2, "SubWorkflowCompleted", of)}
        BY <1>2, <1>7, <1>8, <2>1, <2>3, <3>1, <3>4
      <4> QED
        BY <4>2, <4>3 DEF Either
    <3> QED
      BY <1>11, <3>2, <3>3, <3>4
  <2>4. CASE z \notin Children(x, of)
    <3>1. n \notin Children(x, of)'
      BY <1>2, <1>6, <1>8, <2>1, <2>4
    <3>2. Children(x, of)' = Children(x, of)
      BY <1>6, <1>8, <2>4, <3>1
    <3>3. Answers(x, of)' = Answers(x, of)
      BY <1>2, <1>4, <1>7, <1>8, <2>1, <2>4
    <3> QED
      BY <2>2, <3>2, <3>3
  <2> QED
    BY <2>3, <2>4
<1>10. CASE x = z /\ s \in Emits(cmd)
  <2>1. cmd.kind = "subWorkflow" /\ of = nextID
    BY <1>10, EmittedEvents DEF Ev
  <2>2. st # "ContinuedAsNew"
    BY <1>11, <2>1
  <2>3. Children(x, of) = {} /\ Answers(x, of) = {}
    <3>1. \A y \in Executions : inst[y].of # nextID
      BY <1>0, DataTypes DEF IDs, RowIDs
    <3>2. \A e \in Delivered(x) : e.of # nextID
      <4>1. \A e \in Delivered(x) : e.of \in Nat /\ e.of < nextID
        BY <1>0, DataTypes DEF IDs, EventIDs, Delivered, Given
      <4> QED
        BY <1>0, <4>1
    <3> QED
      BY <2>1, <3>1, <3>2 DEF Children, Answers
  <2>4. inst[z].of # of
    BY <1>1, <2>1
  <2>5. \E r \in Starts(z, st, cmd) : r.parent = x /\ r.of = of
    BY <1>3, <1>10, <2>1, <2>2
  <2>6. CASE n # 0
    <3>1. n \in Children(x, of)'
      BY <1>6, <2>5, <2>6
    <3>2. Children(x, of)' = {n}
      BY <1>6, <1>8, <2>3, <3>1
    <3>3. Answers(x, of)' = {}
      BY <1>7, <2>3, <2>4, <2>6
    <3> QED
      BY <3>2, <3>3 DEF Either
  <2>7. CASE n = 0
    <3>1. Children(x, of)' = {}
      BY <1>6, <1>8, <2>3, <2>7
    <3>2. Answers(x, of)' = {Ev(nextID + 1, "SubWorkflowFailed", of)}
      BY <1>7, <1>10, <2>3, <2>4, <2>5, <2>7
    <3> QED
      BY <3>1, <3>2 DEF Either
  <2> QED
    BY <2>6, <2>7
<1> QED
  BY <1>5, <1>9, <1>10

LEMMA StepReplies ==
    ASSUME UniqueEventIDs, ~EventsMayFail, IInv, ChildInv, [Next]_vars
    PROVE  OneReply'
<1>0. TypeOK /\ OneReply
  BY DEF ChildInv
<1>1. CASE Quiet
  <2>1. /\ \A x \in Executions : hist'[x] = hist[x] \/ hist'[x] = <<>>
        /\ \A x \in Executions : \A e : e.kind \in Replies =>
             (e \in pending'[x] <=> e \in pending[x])
    BY <1>1 DEF Quiet, QuietHistory, QuietPending, ClientKinds, Replies
  <2>2. \A y \in Executions :
          /\ IsActive(y) => /\ inst'[y].state = "Active"
                            /\ inst'[y].parent = inst[y].parent /\ inst'[y].of = inst[y].of
          /\ inst'[y].state = "Active" => IsActive(y) \/ inst'[y].parent = 0
    BY <1>1 DEF Quiet, QuietRows, Opens
  <2> QED
    BY <1>0, <2>1, <2>2, SameReplies
<1>2. ASSUME NEW h \in Handlers, CompleteWorkflowTask(h) PROVE OneReply'
  <2>1. PICK E, st, cmd, n : Completes(h, E, st, cmd, n)
    BY <1>0, <1>2, CompletionChosen
  <2>2. wtask[h].exec \in Executions
    BY <2>1 DEF Completes
  <2>3. IsActive(wtask[h].exec) /\ E \subseteq pending[wtask[h].exec]
    BY <2>1, <2>2, CurrentCompletes
  <2> QED
    BY <2>1, <2>2, <2>3, CompletionReplies
<1>3. ASSUME NEW h \in Handlers, CompleteActivityTask(h) PROVE OneReply'
  <2>1. PICK a : Answered(a)
    BY <1>0, <1>3, ActivityAnswered
  <2>2. \A x \in Executions : \A e : e.kind \in Replies =>
          (e \in pending'[x] <=> e \in pending[x])
    BY <2>1 DEF Answered, Ev, Replies
  <2>3. inst' = inst /\ hist' = hist
    BY <2>1 DEF Answered
  <2> QED
    BY <1>0, <2>2, <2>3, SameReplies DEF IsActive
<1> QED
  BY <1>0, <1>1, <1>2, <1>3, StepCases

(* On SQLite every sub-workflow of a history is running, in exactly one    *)
(* execution, or has delivered exactly one result to its parent: through   *)
(* continuations, collisions of instance ids, removals of finished         *)
(* instances and stale completions of parent and child                     *)
(* (CompleteWorkflowTask, createInstance).                                 *)
THEOREM SubWorkflowsReplyOnce ==
    ASSUME UniqueEventIDs, ~EventsMayFail
    PROVE  Spec => []SubWorkflowOutcome
<1>1. Init => OneReply
  <2>1. Init => \A x \in Executions : Emitted(x) = {}
    BY DEF Init, Emitted
  <2> QED
    BY <2>1 DEF OneReply
<1>2. (IInv /\ IDs /\ Exclusive) /\ OneReply /\ [Next]_vars => OneReply'
  BY StepReplies DEF ChildInv, IInv
<1>3. OneReply => SubWorkflowOutcome
  BY CountedReplies
<1> QED
  BY <1>1, <1>2, <1>3, ExclusiveHolds, PTL DEF Spec
=============================================================================
