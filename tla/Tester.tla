------------------------------- MODULE Tester -------------------------------
(***************************************************************************)
(* The workflow tester (tester): one goroutine, Execute, runs the          *)
(* workflows of a test in passes until none has events left; then it takes *)
(* what came over the callbacks channel or fires the next timer.  Mocked   *)
(* or real activities run in goroutines of their own.  Without a running   *)
(* activity the tester travels in time to the next timer; with one, the    *)
(* timer is left to the wall clock, whose callback comes from yet another  *)
(* goroutine.                                                              *)
(*                                                                         *)
(* The workflows are a choice of what a task may do: events in, at most    *)
(* one timer canceled, one scheduled and one other command out.            *)
(***************************************************************************)
EXTENDS Integers, FiniteSets, Sequences, SequencesExt

CONSTANTS
    Menus,         \* sets of commands; a test's workflows use one of them
    Delays,        \* delays of timers
    Callbacks,     \* delays of the callbacks scheduled before Execute
    MaxWorkflows,  \* bound: sub-workflows and continuations, with the first one
    MaxIDs,        \* bound: commands of one workflow
    MaxSignals,    \* bound: signals sent by activities
    NoTimer

CommandKinds == {"none", "finish", "continue", "activity", "timer", "cancelTimer",
                 "sub", "mock"}

ASSUME TesterAssumption ==
    /\ Menus \subseteq SUBSET CommandKinds /\ Menus # {}
    /\ Delays \subseteq Nat /\ Callbacks \in Seq(Nat)
    /\ MaxWorkflows \in Nat \ {0} /\ MaxIDs \in Nat /\ MaxSignals \in Nat

VARIABLES
    menu,        \* the commands of this test's workflows
    wf,          \* testWorkflows
    pc,          \* where Execute is
    pass,        \* the pass over testWorkflows: next, end and gotNewEvents
    timers,      \* timers
    mode,        \* timerMode
    wallSet,     \* wallClockTimer is not nil
    armed,       \* the timer of wallClockTimer, if the wall clock has still to fire it
    forgotten,   \* others it has still to fire: wallClockTimer was cleared meanwhile
    late,        \* fired by the wall clock, the callback not sent yet
    callbacks,   \* callbacks channel
    running,     \* activity goroutines counted by runningActivities
    clock,       \* mock clock
    signals      \* signals counted by MaxSignals

vars == <<menu, wf, pc, pass, timers, mode, wallSet, armed, forgotten, late,
          callbacks, running, clock, signals>>

wall == <<mode, wallSet, armed, forgotten, late>>

Ids == 1 .. MaxIDs
Instances == 1 .. MaxWorkflows

Event == [kind : {"start", "result", "timer", "child", "signal"}, id : 0 .. MaxIDs]

Timer == [inst : 0 .. MaxWorkflows, id : 0 .. MaxIDs, at : Nat]

ASSUME NoTimerAssumption == NoTimer \notin Timer

Activities == [inst : Instances, id : Ids, sent : BOOLEAN]

Ev(kind, id) == [kind |-> kind, id |-> id]

\* A callback of ScheduleCallback belongs to no instance.
CallbackAt(t) == [inst |-> 0, id |-> 0, at |-> t]

\* A callback that returns an event for an instance.
EventFor(inst, ev) == [kind |-> "event", inst |-> inst, event |-> ev]

NewWorkflow(inst, parent, of) ==
    [inst |-> inst, parent |-> parent, of |-> of, state |-> "open",
     pending |-> <<Ev("start", 0)>>, waits |-> {}, next |-> 1]

NewPass(n) == [next |-> 1, end |-> n, new |-> FALSE]

\* ScheduleCallback, before Execute: appended, not sorted.
Init ==
    /\ menu \in Menus
    /\ wf = <<NewWorkflow(1, 0, 0)>>
    /\ pc = "pass" /\ pass = NewPass(1)
    /\ timers = [k \in DOMAIN Callbacks |-> CallbackAt(Callbacks[k])]
    /\ mode = "TimeTravel" /\ wallSet = FALSE
    /\ armed = NoTimer /\ forgotten = <<>> /\ late = <<>>
    /\ callbacks = <<>> /\ running = {} /\ clock = 0 /\ signals = 0
-----------------------------------------------------------------------------
(* Helpers of Execute.                                                     *)

\* testWorkflowsByInstanceID: the last one added with the instance id.
Current(ws, inst) == CHOOSE k \in DOMAIN ws :
    ws[k].inst = inst /\ \A l \in DOMAIN ws : ws[l].inst = inst => l <= k

sendEvent(ws, inst, ev) == [ws EXCEPT ![Current(ws, inst)].pending = Append(@, ev)]

\* Mutant of scheduleTimer: without the sort.
scheduleTimerUnsorted(ts, t) == Append(ts, t)

\* Where a stable sort by time puts entry k.
Place(ts, k) == Cardinality({l \in DOMAIN ts :
    ts[l].at < ts[k].at \/ (ts[l].at = ts[k].at /\ l <= k)})

scheduleTimer(ts, t) ==
    LET all == Append(ts, t)
    IN  [p \in DOMAIN all |-> all[CHOOSE k \in DOMAIN all : Place(all, k) = p]]

\* Mutant of cancelTimer: the schedule event id alone is compared.
cancelTimerById(ts, inst, id) ==
    LET K == {k \in DOMAIN ts : ts[k].id = id}
    IN  IF K = {} THEN ts ELSE RemoveAt(ts, CHOOSE k \in K : \A l \in K : k <= l)

\* The wall-clock timer is not looked for where it is kept: it goes on.
cancelTimer(ts, inst, id) ==
    LET K == {k \in DOMAIN ts : ts[k].inst = inst /\ ts[k].id = id}
    IN  IF K = {} THEN ts ELSE RemoveAt(ts, CHOOSE k \in K : \A l \in K : k <= l)

\* The executor fails on a result nobody waits for, and ignores such a timer.
Unexpected(w) ==
    \E k \in DOMAIN w.pending :
      /\ w.pending[k].kind \in {"result", "child"}
      /\ w.pending[k] \in w.waits => \E l \in 1 .. k - 1 : w.pending[l] = w.pending[k]

\* Of the pass, the workflows that have events.
Tasks == {k \in pass.next .. pass.end : wf[k].pending # <<>>}

\* Mutant of GotNewEvents: a new workflow does not count.
GotNewEventsUncounted(cmd, told) == told \/ cmd \in {"mock", "activity"}

GotNewEvents(cmd, told) == told \/ cmd \in {"sub", "mock", "continue", "activity"}

(* Execute runs the task of workflow k: the timer x is canceled (0: none), *)
(* one with the delay d scheduled (0: none) and cmd issued.  A finished    *)
(* workflow is run from its history and finishes again.                    *)
ExecuteTask(k, cmd, d, x) ==
    LET w      == wf[k]
        closes == cmd \in {"finish", "continue"}
        told   == cmd = "finish" /\ w.parent # 0
        n      == IF d = 0 THEN w.next ELSE w.next + 1
        left   == w.waits \ (ToSet(w.pending) \cup {Ev("timer", x)})
        new    == (IF d = 0 THEN {} ELSE {Ev("timer", w.next)})
                  \cup (CASE cmd = "activity"        -> {Ev("result", n)}
                          [] cmd \in {"sub", "mock"} -> {Ev("child", n)}
                          [] OTHER                   -> {})
        done   == [wf EXCEPT ![k].pending = <<>>,
                             ![k].waits = IF closes THEN {} ELSE left \cup new,
                             ![k].state = CASE cmd = "finish"   -> "finished"
                                            [] cmd = "continue" -> "continued"
                                            [] OTHER            -> @,
                             ![k].next = @ + Cardinality(new)]
        canceled == IF x = 0 THEN timers ELSE cancelTimer(timers, w.inst, x)
    IN
    /\ pc = "pass" /\ k \in Tasks /\ \A l \in Tasks : k <= l
    /\ cmd \in (menu \cup {"none", "finish"}) \ {"timer", "cancelTimer"}
    /\ d # 0 => "timer" \in menu /\ ~closes
    /\ x # 0 => "cancelTimer" \in menu /\ Ev("timer", x) \in w.waits \ ToSet(w.pending)
    /\ w.state = "finished" \/ Unexpected(w) => cmd = "finish" /\ x = 0
    /\ w.state = "open" /\ ~Unexpected(w) /\ closes => left = {}   \* else a panic
    /\ w.next + Cardinality(new) <= MaxIDs + 1
    /\ cmd \in {"sub", "continue"} => Len(wf) < MaxWorkflows
    /\ wf' = CASE told             -> sendEvent(done, w.parent, Ev("child", w.of))
               [] cmd = "sub"      -> Append(done, NewWorkflow(Len(wf) + 1, w.inst, n))
               [] cmd = "continue" -> Append(done, NewWorkflow(w.inst, w.parent, w.of))
               [] OTHER            -> done
    /\ callbacks' = IF cmd = "mock"
                    THEN Append(callbacks, EventFor(w.inst, Ev("child", n)))
                    ELSE callbacks
    /\ running' = IF cmd = "activity"
                  THEN running \cup {[inst |-> w.inst, id |-> n, sent |-> FALSE]}
                  ELSE running
    /\ timers' = IF d = 0 THEN canceled
                 ELSE scheduleTimer(canceled, [inst |-> w.inst, id |-> w.next, at |-> clock + d])
    /\ pass' = [pass EXCEPT !.next = k + 1, !.new = @ \/ d # 0 \/ GotNewEvents(cmd, told)]
    /\ UNCHANGED <<menu, pc, wall, clock, signals>>

\* The first workflow, or a continuation of it, has finished.
WorkflowFinished == \E k \in DOMAIN wf : wf[k].parent = 0 /\ wf[k].state = "finished"

EndPass ==
    /\ pc = "pass" /\ Tasks = {}
    /\ IF WorkflowFinished THEN pc' = "finished" /\ UNCHANGED pass
       ELSE IF pass.new THEN pass' = NewPass(Len(wf)) /\ UNCHANGED pc
       ELSE pc' = "poll" /\ UNCHANGED pass
    /\ UNCHANGED <<menu, wf, timers, wall, callbacks, running, clock, signals>>

\* wallClockTimer is cleared by its own callback.
ClearsWallClockTimer(c) == c.kind = "wall"

(* A callback of the channel is run, by the first select or by the one     *)
(* that waits.  The one of a wall-clock timer removes the first timer,     *)
(* whichever that is by then, and clears wallClockTimer, also when that is *)
(* a later one, which goes on.                                             *)
RunCallback ==
    LET c     == Head(callbacks)
        fires == c.kind \in {"fire", "wall"}
        again == fires /\ c.timer.inst = 0
    IN
    /\ pc \in {"poll", "waiting"} /\ callbacks # <<>>
    /\ IF c.kind = "wall" /\ timers = <<>>
       THEN pc' = "panic" /\ UNCHANGED <<wf, pass, timers, wallSet, armed, forgotten, callbacks>>
       ELSE
       /\ timers' = IF c.kind = "wall" THEN Tail(timers) ELSE timers
       /\ IF ClearsWallClockTimer(c)
          THEN /\ wallSet' = FALSE /\ armed' = NoTimer
               /\ forgotten' = IF armed = NoTimer THEN forgotten ELSE Append(forgotten, armed)
          ELSE UNCHANGED <<wallSet, armed, forgotten>>
       /\ wf' = CASE again -> wf
                  [] fires /\ ~again -> sendEvent(wf, c.timer.inst, Ev("timer", c.timer.id))
                  [] OTHER -> sendEvent(wf, c.inst, c.event)
       /\ callbacks' = IF again          \* the callback: SignalWorkflow, CancelWorkflow
                       THEN Append(Tail(callbacks), EventFor(1, Ev("signal", 0)))
                       ELSE Tail(callbacks)
       /\ pc' = IF again THEN "poll" ELSE "pass"
       /\ pass' = IF again THEN pass ELSE NewPass(Len(wf))
    /\ UNCHANGED <<menu, mode, late, running, clock, signals>>

PollNothing ==
    /\ pc = "poll" /\ callbacks = <<>>
    /\ pc' = "fire"
    /\ UNCHANGED <<menu, wf, pass, timers, wall, callbacks, running, clock, signals>>

newTimerMode == IF running = {} THEN "TimeTravel" ELSE "WallClock"

\* Stop on the wall-clock timer; what it has fired cannot be called back.
fireTimer ==
    LET stops == mode = "WallClock" /\ newTimerMode = "TimeTravel" IN
    /\ pc = "fire"
    /\ CASE timers = <<>> ->
              pc' = "waiting" /\ UNCHANGED <<wall, timers, callbacks, clock>>
         [] timers # <<>> /\ newTimerMode = "TimeTravel" ->
              /\ mode' = newTimerMode
              /\ wallSet' = (wallSet /\ ~stops)
              /\ armed' = IF stops THEN NoTimer ELSE armed
              /\ timers' = Tail(timers)
              /\ clock' = Head(timers).at
              /\ callbacks' = Append(callbacks, [kind |-> "fire", timer |-> Head(timers)])
              /\ pc' = "poll"
              /\ UNCHANGED <<forgotten, late>>
         [] timers # <<>> /\ newTimerMode = "WallClock" ->
              /\ mode' = newTimerMode
              /\ wallSet' = TRUE
              /\ armed' = IF wallSet THEN armed ELSE Head(timers)
              /\ pc' = "waiting"
              /\ UNCHANGED <<forgotten, late, timers, callbacks, clock>>
    /\ UNCHANGED <<menu, wf, pass, running, signals>>

\* Mutant of TimeoutPasses: the timeout is one for the test, not for each wait.
TimeoutPassesEarly == armed = NoTimer /\ forgotten = <<>> /\ late = <<>>

\* TestTimeout is taken to be longer than activities and wall-clock timers take.
TimeoutPasses ==
    /\ armed = NoTimer /\ forgotten = <<>> /\ late = <<>>
    /\ \A a \in running : a.sent

Blocked ==
    /\ pc = "waiting" /\ callbacks = <<>> /\ TimeoutPasses
    /\ pc' = "blocked"
    /\ UNCHANGED <<menu, wf, pass, timers, wall, callbacks, running, clock, signals>>
-----------------------------------------------------------------------------
(* Other goroutines.                                                       *)

\* The wall clock fires: AfterFunc starts a goroutine, which then sends.
WallClockFires ==
    /\ \/ /\ armed # NoTimer
          /\ armed' = NoTimer /\ late' = Append(late, armed)
          /\ UNCHANGED forgotten
       \/ \E k \in DOMAIN forgotten :
            /\ forgotten' = RemoveAt(forgotten, k) /\ late' = Append(late, forgotten[k])
            /\ UNCHANGED armed
    /\ UNCHANGED <<menu, wf, pc, pass, timers, mode, wallSet, callbacks, running,
                   clock, signals>>

WallClockSends ==
    /\ late # <<>>
    /\ late' = Tail(late)
    /\ callbacks' = Append(callbacks, [kind |-> "wall", timer |-> Head(late)])
    /\ UNCHANGED <<menu, wf, pc, pass, timers, mode, wallSet, armed, forgotten, running,
                   clock, signals>>

\* An activity signals an instance that the tester knows.
ActivitySignals(a, inst) ==
    /\ a \in running /\ ~a.sent /\ signals < MaxSignals
    /\ inst \in {wf[k].inst : k \in DOMAIN wf}
    /\ callbacks' = Append(callbacks, EventFor(inst, Ev("signal", 0)))
    /\ signals' = signals + 1
    /\ UNCHANGED <<menu, wf, pc, pass, timers, wall, running, clock>>

\* Mutant of ResultOf: the event goes to the workflow under test.
ResultOfFirst(a) == EventFor(1, Ev("result", a.id))

ResultOf(a) == EventFor(a.inst, Ev("result", a.id))

ActivityCompletes(a) ==
    /\ a \in running /\ ~a.sent
    /\ callbacks' = Append(callbacks, ResultOf(a))
    /\ running' = (running \ {a}) \cup {[a EXCEPT !.sent = TRUE]}
    /\ UNCHANGED <<menu, wf, pc, pass, timers, wall, clock, signals>>

\* The deferred decrement of runningActivities.
ActivityEnds(a) ==
    /\ a \in running /\ a.sent
    /\ running' = running \ {a}
    /\ UNCHANGED <<menu, wf, pc, pass, timers, wall, callbacks, clock, signals>>

Execute ==
    \/ \E k \in Tasks, cmd \in CommandKinds, d \in Delays \cup {0}, x \in 0 .. MaxIDs :
         ExecuteTask(k, cmd, d, x)
    \/ EndPass \/ RunCallback \/ PollNothing \/ fireTimer

Next ==
    \/ Execute
    \/ Blocked
    \/ WallClockFires \/ WallClockSends
    \/ \E a \in Activities : \/ \E inst \in Instances : ActivitySignals(a, inst)
                          \/ ActivityCompletes(a) \/ ActivityEnds(a)

Spec == Init /\ [][Next]_vars

\* Goroutines are scheduled, activities return (there are finitely many, hence
\* all of them do) and time passes.
LiveSpec ==
    /\ Spec
    /\ WF_vars(Execute)
    /\ WF_vars(WallClockFires) /\ WF_vars(WallClockSends)
    /\ WF_vars(\E a \in Activities : ActivityCompletes(a))
    /\ WF_vars(\E a \in Activities : ActivityEnds(a))
-----------------------------------------------------------------------------
(* Properties.                                                             *)

\* How often an event for workflow k is on its way.
Count(S) == Cardinality(S)
OnItsWay(k, ev) ==
    Count({l \in DOMAIN wf[k].pending : wf[k].pending[l] = ev})
    + Count({c \in DOMAIN callbacks :
               callbacks[c].kind = "event" /\ callbacks[c].inst = wf[k].inst
               /\ callbacks[c].event = ev})

(***************************************************************************)
(* The result of an activity is on its way to its workflow exactly once as *)
(* long as the workflow waits for it (scheduleActivity, sendEvent).        *)
(***************************************************************************)
ResultsConserved ==
    \A k \in DOMAIN wf : \A id \in Ids :
      LET ev == Ev("result", id) IN
      ev \in wf[k].waits =>
        OnItsWay(k, ev) + Count({a \in running : a.inst = wf[k].inst /\ a.id = id /\ ~a.sent}) = 1

(***************************************************************************)
(* Nothing is left behind: when the tester turns from workflows to timers  *)
(* every workflow has seen its events, the ones included that it was sent, *)
(* or created with, during the last pass (gotNewEvents in Execute); and    *)
(* when TestTimeout's panic says that there are "no pending timers" there  *)
(* are none, whatever modes the tester went through.                       *)
(***************************************************************************)
NothingLeftBehind ==
    /\ pc \in {"poll", "fire", "waiting", "blocked"} =>
         \A k \in DOMAIN wf : wf[k].pending = <<>>
    /\ pc = "blocked" => timers = <<>>

(***************************************************************************)
(* In a test without activities, and so in time-travel mode, a timer that  *)
(* is waited for is about to fire exactly once and a canceled one not at   *)
(* all (scheduleTimer, cancelTimer, fireTimer).                            *)
(***************************************************************************)
TimeTravelTimers ==
    "activity" \notin menu =>
      \A k \in DOMAIN wf : \A id \in Ids :
        LET ev == Ev("timer", id)
            IsIt(t) == t.inst = wf[k].inst /\ t.id = id
        IN
        wf[k].state = "open" /\ id < wf[k].next =>
          OnItsWay(k, ev) + Count({l \in DOMAIN timers : IsIt(timers[l])})
            + Count({c \in DOMAIN callbacks : callbacks[c].kind = "fire"
                                              /\ IsIt(callbacks[c].timer)})
          = IF ev \in wf[k].waits THEN 1 ELSE 0

(***************************************************************************)
(* Time travel goes forward (fireTimer: the clock is set to the time of    *)
(* the first timer).                                                       *)
(***************************************************************************)
TimeGoesForward == [][clock' >= clock]_clock

Awaits(k, ev) == k \in DOMAIN wf /\ ev \in wf[k].waits

(***************************************************************************)
(* The tester gets to the result of every activity a workflow waits for,   *)
(* however timers and other callbacks come in between.                     *)
(***************************************************************************)
ActivitiesAnswered ==
    \A k \in 1 .. MaxWorkflows, id \in Ids :
      Awaits(k, Ev("result", id))
        ~> (pc \in {"finished", "panic"} \/ ~Awaits(k, Ev("result", id)))
=============================================================================
