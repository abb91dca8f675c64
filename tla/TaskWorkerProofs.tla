-------------------------- MODULE TaskWorkerProofs --------------------------
(***************************************************************************)
(* The worker never sends on the closed tasks channel and returns from     *)
(* WaitForCompletion after its last handler, and no path of a poller or a  *)
(* handler loses a slot or frees another's: for every number of pollers,   *)
(* tasks and slots.                                                        *)
(***************************************************************************)
EXTENDS TaskWorker, FiniteSetTheorems, TLAPS

-----------------------------------------------------------------------------
(* Types.                                                                  *)

\* A poller holds a task while it hands it over, and no other poller has it.
Handover ==
    /\ \A p \in Pollers : poller[p] = "add" => got[p] \in Tasks
    /\ \A p \in Pollers : got[p] # NoTask => poller[p] = "add" /\ task[got[p]] = "fetched"
    /\ \A p, q \in Pollers : got[p] # NoTask /\ got[p] = got[q] => p = q

Typed == TypeOK /\ Handover

LEMMA InitTyped == Init => Typed
<1> SUFFICES ASSUME Init PROVE Typed
  OBVIOUS
<1>1. 0 \in Nat /\ (MaxParallelTasks > 0 => 0 <= MaxParallelTasks)
  BY WorkerAssumption
<1> QED
  BY <1>1, WorkerAssumption DEF Init, Typed, TypeOK, Handover, PollerStates, TaskStates

\* What the channel of slots can come to hold.
LEMMA SlotsType ==
    ASSUME TypeOK, TakesSlot \/ FreesSlot \/ UNCHANGED slots
    PROVE  slots' \in Nat /\ (MaxParallelTasks > 0 => slots' <= MaxParallelTasks)
<1>1. /\ slots \in Nat /\ MaxParallelTasks \in Nat
      /\ MaxParallelTasks > 0 => slots <= MaxParallelTasks
  BY WorkerAssumption DEF TypeOK
<1> QED
  BY <1>1 DEF TakesSlot, FreesSlot, Unlimited

\* A poller goes on without a task in its hands.
LEMMA GotoTyped ==
    ASSUME Typed, NEW p \in Pollers, NEW s \in PollerStates \ {"add"}, poller[p] # "add",
           Goto(p, s), UNCHANGED <<ctx, got, handlers, shutdown>>,
           TakesSlot \/ FreesSlot \/ UNCHANGED slots
    PROVE  Typed'
<1>1. slots' \in Nat /\ (MaxParallelTasks > 0 => slots' <= MaxParallelTasks)
  BY SlotsType DEF Typed
<1>2. TypeOK'
  BY <1>1 DEF Typed, TypeOK, Goto, handlers, shutdown
<1>3. Handover'
  BY DEF Typed, TypeOK, Handover, Goto, handlers
<1> QED
  BY <1>2, <1>3 DEF Typed

LEMMA PollerTyped ==
    ASSUME Typed, NEW p \in Pollers, PollerStep(p)
    PROVE  Typed'
<1>1. CASE Jitter(p) \/ Sleep(p) \/ LoopTop(p)
  <2>1. \E s \in {"top", "done", "reserve"} : Goto(p, s)
    BY <1>1 DEF Jitter, Sleep, LoopTop
  <2>2. poller[p] # "add" /\ UNCHANGED <<ctx, got, slots, handlers, shutdown>>
    BY <1>1 DEF Jitter, Sleep, LoopTop
  <2> QED
    BY <2>1, <2>2, GotoTyped DEF PollerStates
<1>2. CASE Reserve(p)
  <2>1. \E s \in {"poll", "done"} : Goto(p, s)
    BY <1>2 DEF Reserve
  <2>2. /\ poller[p] # "add" /\ UNCHANGED <<ctx, got, handlers, shutdown>>
        /\ TakesSlot \/ UNCHANGED slots
    BY <1>2 DEF Reserve
  <2> QED
    BY <2>1, <2>2, GotoTyped DEF PollerStates
<1>3. CASE BeginGet(p) \/ GetNothing(p)
  <2>1. \E s \in {"getting", "wait", "release"} : Goto(p, s)
    BY <1>3 DEF BeginGet, GetNothing, AfterContextError
  <2>2. poller[p] # "add" /\ UNCHANGED <<ctx, got, slots, handlers, shutdown>>
    BY <1>3 DEF BeginGet, GetNothing
  <2> QED
    BY <2>1, <2>2, GotoTyped DEF PollerStates
<1>4. CASE Get(p)
  <2>1. PICK t \in Tasks : /\ task[t] = "backend"
                           /\ task' = [task EXCEPT ![t] = "fetched"]
                           /\ got' = [got EXCEPT ![p] = t]
    BY <1>4 DEF Get
  <2>2. TypeOK'
    BY <1>4, <2>1 DEF Typed, TypeOK, Get, Goto, PollerStates, TaskStates, shutdown
  <2>3. Handover'
    BY <1>4, <2>1, WorkerAssumption DEF Typed, TypeOK, Handover, Get, Goto
  <2> QED
    BY <2>2, <2>3 DEF Typed
<1>5. CASE Add(p) \/ AddFails(p)
  <2>1. poller[p] = "add" /\ got[p] \in Tasks
    BY <1>5 DEF Add, AddFails, Typed, Handover
  <2>2. PICK s \in {"top", "releaseTop"}, u \in {"executing", "dropped"} :
          /\ Goto(p, s)
          /\ task' = [task EXCEPT ![got[p]] = u]
          /\ got' = [got EXCEPT ![p] = NoTask]
    BY <1>5 DEF Add, AddFails
  <2>3. /\ UNCHANGED <<ctx, slots, canceled, shutdown>>
        /\ UNCHANGED beat \/ beat' = [beat EXCEPT ![got[p]] = "ticking"]
    BY <1>5 DEF Add, AddFails
  <2>4. TypeOK'
    BY <2>1, <2>2, <2>3 DEF Typed, TypeOK, Goto, PollerStates, TaskStates, shutdown
  <2>5. Handover'
    BY <2>1, <2>2 DEF Typed, TypeOK, Handover, Goto
  <2> QED
    BY <2>4, <2>5 DEF Typed
<1>6. CASE Release(p)
  <2>1. \E s \in {"wait", "top"} : Goto(p, s)
    BY <1>6 DEF Release
  <2>2. poller[p] # "add" /\ UNCHANGED <<ctx, got, handlers, shutdown>> /\ FreesSlot
    BY <1>6 DEF Release
  <2> QED
    BY <2>1, <2>2, GotoTyped DEF PollerStates
<1> QED
  BY <1>1, <1>2, <1>3, <1>4, <1>5, <1>6 DEF PollerStep

LEMMA HandlerTyped ==
    ASSUME Typed, NEW t \in Tasks, HandlerStep(t) \/ HeartbeatStep(t)
    PROVE  Typed'
<1>1. CASE HandlerStep(t)
  <2>1. PICK u \in {"executed", "failed", "completed", "handled", "finished"} :
          task' = [task EXCEPT ![t] = u]
    BY <1>1 DEF HandlerStep, Execute, Complete, Return, Finish
  <2>2. /\ task[t] # "fetched"
        /\ UNCHANGED <<ctx, pollers, beat, shutdown>>
        /\ canceled' = canceled \/ canceled' = canceled \cup {t}
        /\ FreesSlot \/ UNCHANGED slots
    BY <1>1 DEF HandlerStep, Execute, Complete, Return, Finish
  <2>3. slots' \in Nat /\ (MaxParallelTasks > 0 => slots' <= MaxParallelTasks)
    BY <2>2, SlotsType DEF Typed
  <2>4. TypeOK'
    BY <2>1, <2>2, <2>3 DEF Typed, TypeOK, TaskStates, pollers, shutdown
  <2>5. Handover'
    BY <2>1, <2>2 DEF Typed, TypeOK, Handover, pollers
  <2> QED
    BY <2>4, <2>5 DEF Typed
<1>2. CASE HeartbeatStep(t)
  <2>1. PICK b \in {"ticking", "extending", "stopped"} : beat' = [beat EXCEPT ![t] = b]
    BY <1>2 DEF HeartbeatStep, Tick, Extend
  <2>2. /\ UNCHANGED <<ctx, pollers, slots, task, shutdown>>
        /\ canceled' = canceled \/ canceled' = canceled \cup {t}
    BY <1>2 DEF HeartbeatStep, Tick, Extend
  <2> QED
    BY <2>1, <2>2 DEF Typed, TypeOK, Handover, pollers, shutdown
<1> QED
  BY <1>1, <1>2

LEMMA TypedStep == ASSUME Typed, [Next]_vars PROVE Typed'
<1>1. CASE ContextDone
  BY <1>1 DEF ContextDone, Typed, TypeOK, Handover, pollers, handlers, shutdown
<1>2. CASE Stop
  <2>1. UNCHANGED <<ctx, poller, got, slots, task, canceled, beat>>
    BY <1>2 DEF Stop, CloseQueue, DispatcherDone, WaitForCompletion, pollers, handlers
  <2>2. closed' \in BOOLEAN /\ dispatcher' \in {"receiving", "done"} /\ waiting' \in BOOLEAN
    <3>1. closed \in BOOLEAN /\ dispatcher \in {"receiving", "done"} /\ waiting \in BOOLEAN
      BY DEF Typed, TypeOK
    <3>2. /\ closed' = closed \/ closed' = TRUE
          /\ dispatcher' = dispatcher \/ dispatcher' = "done"
          /\ waiting' = waiting \/ waiting' = FALSE
      BY <1>2 DEF Stop, CloseQueue, DispatcherDone, WaitForCompletion
    <3> QED
      BY <3>1, <3>2
  <2> QED
    BY <2>1, <2>2 DEF Typed, TypeOK, Handover
<1>3. CASE UNCHANGED vars
  BY <1>3 DEF vars, Typed, TypeOK, Handover
<1>4. ASSUME NEW p \in Pollers, PollerStep(p) PROVE Typed'
  BY <1>4, PollerTyped
<1>5. ASSUME NEW t \in Tasks, HandlerStep(t) \/ HeartbeatStep(t) PROVE Typed'
  BY <1>5, HandlerTyped
<1> QED
  BY <1>1, <1>2, <1>3, <1>4, <1>5 DEF Next, Terminated

(***************************************************************************)
(* Pollers, handlers, heartbeats and the shutdown keep their state well    *)
(* typed, and the slots within MaxParallelTasks (internal/worker).         *)
(***************************************************************************)
THEOREM TypeCorrect == Spec => []TypeOK
<1>1. Typed /\ [Next]_vars => Typed'
  BY TypedStep
<1>2. Typed => TypeOK
  BY DEF Typed
<1> QED
  BY InitTyped, <1>1, <1>2, PTL DEF Spec
-----------------------------------------------------------------------------
(* The shutdown.                                                           *)

\* The tasks channel is closed after the pollers are done, the dispatcher is done
\* after its handlers, and WaitForCompletion returns after that.
InOrder ==
    /\ closed => \A p \in Pollers : poller[p] = "done"
    /\ dispatcher = "done" => closed /\ Counted = {}
    /\ ~waiting => dispatcher = "done"

LEMMA InOrderStep == ASSUME Typed, InOrder, [Next]_vars PROVE InOrder'
<1>1. ASSUME NEW p \in Pollers, PollerStep(p) PROVE InOrder'
  <2>1. poller[p] # "done"
    BY <1>1 DEF PollerStep, Jitter, Sleep, LoopTop, Reserve, BeginGet, Get, GetNothing, Add,
                AddFails, Release
  <2>2. UNCHANGED shutdown
    BY <1>1 DEF PollerStep, Jitter, Sleep, LoopTop, Reserve, BeginGet, Get, GetNothing, Add,
                AddFails, Release
  <2> QED
    BY <2>1, <2>2 DEF InOrder, shutdown
<1>2. ASSUME NEW t \in Tasks, HandlerStep(t) PROVE InOrder'
  <2>1. UNCHANGED <<pollers, shutdown>>
    BY <1>2 DEF HandlerStep, Execute, Complete, Return, Finish
  <2>2. Counted = {} => Counted' = {}
    <3>1. PICK u : task' = [task EXCEPT ![t] = u]
                   /\ (t \in Counted \/ u \notin {"executing", "executed", "completed", "failed"})
      BY <1>2 DEF HandlerStep, Execute, Complete, Return, Finish, Counted
    <3> QED
      BY <3>1 DEF Counted, Typed, TypeOK
  <2> QED
    BY <2>1, <2>2 DEF InOrder, pollers, shutdown
<1>3. ASSUME NEW t \in Tasks, HeartbeatStep(t) PROVE InOrder'
  BY <1>3 DEF HeartbeatStep, Tick, Extend, InOrder, Counted, pollers, shutdown
<1>4. CASE ContextDone
  BY <1>4 DEF ContextDone, InOrder, Counted, pollers, handlers, shutdown
<1>5. CASE Stop
  BY <1>5 DEF Stop, CloseQueue, DispatcherDone, WaitForCompletion, InOrder, Counted, pollers,
              handlers
<1>6. CASE UNCHANGED vars
  BY <1>6 DEF vars, InOrder, Counted
<1> QED
  BY <1>1, <1>2, <1>3, <1>4, <1>5, <1>6 DEF Next, Terminated

(***************************************************************************)
(* No poller is about to send on the tasks channel once it is closed,      *)
(* which would panic (workQueue.add), and WaitForCompletion returns after  *)
(* every dispatched task was completed or has failed (worker.go).          *)
(***************************************************************************)
THEOREM ShutdownOrdered == Spec => []ShutdownInOrder
<1>1. Init => InOrder
  BY DEF Init, InOrder
<1>2. Typed /\ InOrder /\ [Next]_vars => Typed' /\ InOrder'
  BY TypedStep, InOrderStep
<1>3. InOrder => ShutdownInOrder
  BY DEF InOrder, ShutdownInOrder
<1> QED
  BY InitTyped, <1>1, <1>2, <1>3, PTL DEF Spec
-----------------------------------------------------------------------------
(* The slots.                                                              *)

\* One element moves into a set of elements, out of it, or neither.
LEMMA OneMoves ==
    ASSUME NEW F, IsFiniteSet(F), NEW x, NEW G, G \ {x} = F \ {x}
    PROVE  /\ IsFiniteSet(G) /\ Cardinality(F) \in Nat /\ Cardinality(G) \in Nat
           /\ (x \in G <=> x \in F) => Cardinality(G) = Cardinality(F)
           /\ x \in G /\ x \notin F => Cardinality(G) = Cardinality(F) + 1
           /\ x \notin G /\ x \in F => Cardinality(G) = Cardinality(F) - 1
<1>1. Cardinality(F) \in Nat
  BY FS_CardinalityType
<1>2. CASE x \in G <=> x \in F
  <2>1. G = F
    BY <1>2
  <2> QED
    BY <1>1, <1>2, <2>1
<1>3. CASE x \in G /\ x \notin F
  <2>1. G = F \cup {x}
    BY <1>3
  <2>2. IsFiniteSet(G) /\ Cardinality(G) = Cardinality(F) + 1
    BY <1>3, <2>1, FS_AddElement
  <2> QED
    BY <1>1, <1>3, <2>2
<1>4. CASE x \notin G /\ x \in F
  <2>1. G = F \ {x}
    BY <1>4
  <2>2. IsFiniteSet(G) /\ Cardinality(G) = Cardinality(F) - 1
    BY <1>4, <2>1, FS_RemoveElement
  <2>3. Cardinality(G) \in Nat
    BY <2>2, FS_CardinalityType
  <2> QED
    BY <1>1, <1>4, <2>2, <2>3
<1> QED
  BY <1>2, <1>3, <1>4

Owners == Cardinality(Reserved) + Cardinality(Occupying)

LEMMA OwnersFinite ==
    /\ IsFiniteSet(Reserved) /\ IsFiniteSet(Occupying)
    /\ Cardinality(Reserved) \in Nat /\ Cardinality(Occupying) \in Nat
<1>1. Reserved \subseteq Pollers /\ Occupying \subseteq Tasks
  BY DEF Reserved, Occupying, Counted
<1>2. IsFiniteSet(Reserved) /\ IsFiniteSet(Occupying)
  BY <1>1, WorkerAssumption, FS_Subset
<1> QED
  BY <1>2, FS_CardinalityType

\* A step of a poller that does not touch tasks.
LEMMA PollerMoves ==
    ASSUME Typed, NEW p \in Pollers, NEW s, Goto(p, s), UNCHANGED task
    PROVE  /\ Cardinality(Occupying') = Cardinality(Occupying)
           /\ (p \in Reserved' <=> p \in Reserved) => Cardinality(Reserved') = Cardinality(Reserved)
           /\ p \in Reserved' /\ p \notin Reserved =>
                Cardinality(Reserved') = Cardinality(Reserved) + 1
           /\ p \notin Reserved' /\ p \in Reserved =>
                Cardinality(Reserved') = Cardinality(Reserved) - 1
           /\ p \in Reserved' <=> s \in {"poll", "getting", "add", "release", "releaseTop"}
<1>1. Reserved' \ {p} = Reserved \ {p}
  BY DEF Typed, TypeOK, Goto, Reserved
<1>2. p \in Reserved' <=> s \in {"poll", "getting", "add", "release", "releaseTop"}
  BY DEF Typed, TypeOK, Goto, Reserved
<1>3. Occupying' = Occupying
  BY DEF Occupying, Counted
<1> QED
  BY <1>1, <1>2, <1>3, OwnersFinite, OneMoves

\* A step of a handler that does not touch pollers.
LEMMA HandlerMoves ==
    ASSUME Typed, NEW t \in Tasks, NEW u, task' = [task EXCEPT ![t] = u], UNCHANGED poller
    PROVE  /\ Cardinality(Reserved') = Cardinality(Reserved)
           /\ (t \in Occupying' <=> t \in Occupying) => Cardinality(Occupying') = Cardinality(Occupying)
           /\ t \notin Occupying' /\ t \in Occupying =>
                Cardinality(Occupying') = Cardinality(Occupying) - 1
           /\ t \in Occupying' <=> u \in {"executing", "executed", "completed", "failed", "handled"}
<1>1. Occupying' \ {t} = Occupying \ {t}
  BY DEF Typed, TypeOK, Occupying, Counted
<1>2. t \in Occupying' <=> u \in {"executing", "executed", "completed", "failed", "handled"}
  BY DEF Typed, TypeOK, Occupying, Counted
<1>3. Reserved' = Reserved
  BY DEF Reserved
<1> QED
  BY <1>1, <1>2, <1>3, OwnersFinite, OneMoves

\* Every slot has an owner while the context is live, and an owner a slot always.
Balanced == Owners <= slots /\ (ctx = "live" => slots = Owners)

LEMMA PollerBalanced ==
    ASSUME Cause = "canceled", ~Unlimited, Typed, Balanced, NEW p \in Pollers, PollerStep(p)
    PROVE  Balanced'
<1>1. /\ Cardinality(Reserved) \in Nat /\ Cardinality(Occupying) \in Nat
      /\ slots \in Nat /\ slots' \in Nat
      /\ Owners = Cardinality(Reserved) + Cardinality(Occupying)
      /\ Owners' = Cardinality(Reserved') + Cardinality(Occupying')
  BY OwnersFinite, TypedStep DEF Typed, TypeOK, Owners, Next
<1>2. ctx \in {"live", "canceled"} /\ UNCHANGED ctx
  BY DEF Typed, TypeOK, PollerStep, Jitter, Sleep, LoopTop, Reserve, BeginGet, Get, GetNothing,
         Add, AddFails, Release
<1>3. p \in Reserved <=> poller[p] \in {"poll", "getting", "add", "release", "releaseTop"}
  BY DEF Reserved
<1>4. ASSUME UNCHANGED <<slots, task>>, NEW s, Goto(p, s),
             s \in {"poll", "getting", "add", "release", "releaseTop"} <=> p \in Reserved
      PROVE  Balanced'
  <2>1. /\ Cardinality(Reserved') = Cardinality(Reserved)
        /\ Cardinality(Occupying') = Cardinality(Occupying)
    BY <1>4, PollerMoves
  <2> QED
    BY <1>1, <1>2, <1>4, <2>1 DEF Balanced
<1>5. ASSUME UNCHANGED <<slots, task>>, NEW s, Goto(p, s), ctx # "live", p \in Reserved,
             s \notin {"poll", "getting", "add", "release", "releaseTop"}
      PROVE  Balanced'
  <2>1. /\ Cardinality(Reserved') = Cardinality(Reserved) - 1
        /\ Cardinality(Occupying') = Cardinality(Occupying)
    BY <1>5, PollerMoves
  <2> QED
    BY <1>1, <1>2, <1>5, <2>1 DEF Balanced
<1>6. CASE Jitter(p) \/ Sleep(p) \/ LoopTop(p)
  <2>1. PICK s \in {"top", "done", "reserve"} : Goto(p, s)
    BY <1>6 DEF Jitter, Sleep, LoopTop
  <2>2. UNCHANGED <<slots, task>> /\ p \notin Reserved
    BY <1>3, <1>6 DEF Jitter, Sleep, LoopTop, handlers
  <2> QED
    BY <1>4, <2>1, <2>2
<1>7. CASE Reserve(p)
  <2>1. p \notin Reserved /\ UNCHANGED task
    BY <1>3, <1>7 DEF Reserve, handlers
  <2>2. CASE TakesSlot /\ Goto(p, "poll")
    <3>1. /\ Cardinality(Reserved') = Cardinality(Reserved) + 1
          /\ Cardinality(Occupying') = Cardinality(Occupying)
      BY <2>1, <2>2, PollerMoves
    <3>2. slots' = slots + 1
      BY <2>2 DEF TakesSlot
    <3> QED
      BY <1>1, <1>2, <3>1, <3>2 DEF Balanced
  <2>3. CASE Goto(p, "done") /\ UNCHANGED slots
    BY <1>4, <2>1, <2>3
  <2> QED
    BY <1>2, <1>7, <2>2, <2>3 DEF Reserve
<1>8. CASE BeginGet(p) \/ GetNothing(p)
  <2>1. UNCHANGED <<slots, task>> /\ p \in Reserved
    BY <1>3, <1>8 DEF BeginGet, GetNothing, handlers
  <2>2. Goto(p, "getting") \/ Goto(p, "release") \/ (ctx # "live" /\ Goto(p, "wait"))
    BY <1>2, <1>8 DEF BeginGet, GetNothing, AfterContextError
  <2> QED
    BY <1>4, <1>5, <2>1, <2>2
<1>9. CASE Get(p)
  <2>1. PICK t \in Tasks : task[t] = "backend" /\ task' = [task EXCEPT ![t] = "fetched"]
    BY <1>9 DEF Get
  <2>2. Reserved' = Reserved /\ Occupying' = Occupying /\ UNCHANGED slots
    BY <1>9, <2>1 DEF Get, Goto, Reserved, Occupying, Counted, Typed, TypeOK
  <2> QED
    BY <1>1, <1>2, <2>2 DEF Balanced
<1>10. CASE Add(p) \/ AddFails(p)
  <2>1. p \in Reserved /\ got[p] \in Tasks /\ got[p] # NoTask /\ task[got[p]] = "fetched"
    BY <1>3, <1>10, WorkerAssumption DEF Add, AddFails, Typed, Handover
  <2>2. got[p] \notin Occupying
    BY <2>1 DEF Occupying, Counted
  <2>3. Reserved' \ {p} = Reserved \ {p} /\ p \notin Reserved' /\ UNCHANGED slots
    BY <1>2, <1>10 DEF Add, AddFails, Goto, Reserved, Typed, TypeOK
  <2>4. Cardinality(Reserved') = Cardinality(Reserved) - 1
    BY <2>1, <2>3, OwnersFinite, OneMoves
  <2>5. CASE Add(p)
    <3>1. Occupying' \ {got[p]} = Occupying \ {got[p]} /\ got[p] \in Occupying'
      BY <2>1, <2>5 DEF Add, Occupying, Counted, Typed, TypeOK
    <3>2. Cardinality(Occupying') = Cardinality(Occupying) + 1
      BY <2>2, <3>1, OwnersFinite, OneMoves
    <3> QED
      BY <1>1, <1>2, <2>3, <2>4, <3>2 DEF Balanced
  <2>6. CASE AddFails(p)
    <3>1. Occupying' = Occupying /\ ctx # "live"
      BY <2>1, <2>6 DEF AddFails, Occupying, Counted, Typed, TypeOK
    <3> QED
      BY <1>1, <1>2, <2>3, <2>4, <3>1 DEF Balanced
  <2> QED
    BY <1>10, <2>5, <2>6
<1>11. CASE Release(p)
  <2>1. PICK s \in {"wait", "top"} : Goto(p, s)
    BY <1>11 DEF Release
  <2>2. p \in Reserved /\ UNCHANGED task /\ slots' = slots - 1
    BY <1>3, <1>11 DEF Release, FreesSlot, handlers
  <2>3. /\ Cardinality(Reserved') = Cardinality(Reserved) - 1
        /\ Cardinality(Occupying') = Cardinality(Occupying)
    BY <2>1, <2>2, PollerMoves
  <2> QED
    BY <1>1, <1>2, <2>2, <2>3 DEF Balanced
<1> QED
  BY <1>6, <1>7, <1>8, <1>9, <1>10, <1>11 DEF PollerStep

LEMMA HandlerBalanced ==
    ASSUME ~Unlimited, Typed, Balanced, NEW t \in Tasks, HandlerStep(t)
    PROVE  Balanced'
<1>1. /\ Cardinality(Reserved) \in Nat /\ Cardinality(Occupying) \in Nat
      /\ slots \in Nat /\ slots' \in Nat
      /\ Owners = Cardinality(Reserved) + Cardinality(Occupying)
      /\ Owners' = Cardinality(Reserved') + Cardinality(Occupying')
  BY OwnersFinite, TypedStep DEF Typed, TypeOK, Owners, Next
<1>2. UNCHANGED <<ctx, poller>> /\ t \in Occupying
  BY DEF HandlerStep, Execute, Complete, Return, Finish, pollers, Occupying, Counted
<1>3. CASE Finish(t)
  <2>1. task' = [task EXCEPT ![t] = "finished"] /\ slots' = slots - 1
    BY <1>3 DEF Finish, FreesSlot
  <2>2. t \notin Occupying'
    BY <2>1 DEF Typed, TypeOK, Occupying, Counted
  <2>3. /\ Cardinality(Reserved') = Cardinality(Reserved)
        /\ Cardinality(Occupying') = Cardinality(Occupying) - 1
    BY <1>2, <2>1, <2>2, HandlerMoves
  <2> QED
    BY <1>1, <1>2, <2>1, <2>3 DEF Balanced
<1>4. CASE Execute(t) \/ Complete(t) \/ Return(t)
  <2>1. PICK u \in {"executed", "failed", "completed", "handled"} : task' = [task EXCEPT ![t] = u]
    BY <1>4 DEF Execute, Complete, Return
  <2>2. UNCHANGED slots
    BY <1>4 DEF Execute, Complete, Return
  <2>3. /\ Cardinality(Reserved') = Cardinality(Reserved)
        /\ Cardinality(Occupying') = Cardinality(Occupying)
    BY <1>2, <2>1, HandlerMoves
  <2> QED
    BY <1>1, <1>2, <2>2, <2>3 DEF Balanced
<1> QED
  BY <1>3, <1>4 DEF HandlerStep

LEMMA StepBalanced ==
    ASSUME Cause = "canceled", ~Unlimited, Typed, Balanced, [Next]_vars
    PROVE  Balanced'
<1>1. ASSUME UNCHANGED <<poller, task, slots>>, UNCHANGED ctx \/ ctx' # "live"
      PROVE  Balanced'
  <2>1. Reserved' = Reserved /\ Occupying' = Occupying
    BY <1>1 DEF Reserved, Occupying, Counted
  <2>2. Owners' = Owners
    BY <2>1 DEF Owners
  <2> QED
    BY <1>1, <2>2 DEF Balanced
<1>2. ASSUME NEW p \in Pollers, PollerStep(p) PROVE Balanced'
  BY <1>2, PollerBalanced
<1>3. ASSUME NEW t \in Tasks, HandlerStep(t) PROVE Balanced'
  BY <1>3, HandlerBalanced
<1>4. ASSUME NEW t \in Tasks, HeartbeatStep(t) PROVE Balanced'
  BY <1>1, <1>4 DEF HeartbeatStep, Tick, Extend, pollers
<1>5. CASE ContextDone
  BY <1>1, <1>5 DEF ContextDone, pollers, handlers
<1>6. CASE Stop
  BY <1>1, <1>6 DEF Stop, CloseQueue, DispatcherDone, WaitForCompletion, pollers, handlers
<1>7. CASE UNCHANGED vars
  BY <1>1, <1>7 DEF vars
<1> QED
  BY <1>2, <1>3, <1>4, <1>5, <1>6, <1>7 DEF Next, Terminated

(***************************************************************************)
(* While the context is live every slot belongs to one poller between      *)
(* reserve and release or to one task, and after it was canceled no slot   *)
(* is returned that was not taken: with the capacity of the channel        *)
(* (TypeCorrect), at most MaxParallelTasks tasks run at a time, whatever   *)
(* the number of pollers.  A context that ends by a deadline lets a poller *)
(* go on without a slot (workQueue.reserve) and is excluded.               *)
(***************************************************************************)
THEOREM SlotsConserved ==
    ASSUME Cause = "canceled"
    PROVE  Spec => []SlotsOwned
<1>1. Init => (~Unlimited => Balanced)
  <2> SUFFICES ASSUME Init PROVE Balanced
    OBVIOUS
  <2>1. Reserved = {} /\ Occupying = {} /\ slots = 0
    BY DEF Init, Reserved, Occupying, Counted
  <2>2. Owners = 0
    BY <2>1, FS_EmptySet DEF Owners
  <2> QED
    BY <2>1, <2>2 DEF Balanced
<1>2. Typed /\ (~Unlimited => Balanced) /\ [Next]_vars => Typed' /\ (~Unlimited => Balanced)'
  <2> SUFFICES ASSUME Typed, ~Unlimited => Balanced, [Next]_vars
               PROVE  Typed' /\ (~Unlimited => Balanced)'
    OBVIOUS
  <2>1. Unlimited' <=> Unlimited
    BY DEF Unlimited
  <2> QED
    BY <2>1, TypedStep, StepBalanced
<1>3. (~Unlimited => Balanced) => SlotsOwned
  BY DEF Balanced, Owners, SlotsOwned
<1> QED
  BY InitTyped, <1>1, <1>2, <1>3, PTL DEF Spec
=============================================================================
