----------------------------- MODULE Coroutines -----------------------------
(***************************************************************************)
(* The deterministic scheduler that workflow code runs on                  *)
(* (internal/sync): coroutines that hand control to each other, and the    *)
(* primitives they block on: channels, futures and timers, selectors, wait *)
(* groups, error groups, contexts and the channels of signals.             *)
(*                                                                         *)
(* The program of a coroutine is not fixed: whenever it runs it makes any  *)
(* call of its menu, or returns.  One step is one call, from where the     *)
(* coroutine runs to where it returns or yields.  A call is identified by  *)
(* its coroutine and the number of calls left to it, which is also the     *)
(* value that it sends.                                                    *)
(***************************************************************************)
EXTENDS Integers, FiniteSets, Sequences, SequencesExt

CONSTANTS
    Co,          \* coroutines
    Main,        \* the one that runs the workflow function
    Outside,     \* sender of signals
    Chan,        \* channels: user channels, signal channels, done channels
    Size,        \* capacity of each channel
    Signals,     \* channels of signals (capacity 100 in the code)
    Ctx,         \* cancelable contexts, each named like its done channel
    Root,        \* the context of the workflow
    Fut,         \* futures of timers
    Groups,      \* wait groups, and error groups: named like their context
    Menus,       \* what the coroutines may call: a choice of menus
    MaxCalls,    \* bound: calls by each coroutine
    MaxSignals,  \* bound: signals received
    NoCtx

AllCalls == UNION {m[c] : m \in Menus, c \in Co}

\* What calls are about.  Done channels are only received from (timer.go:92).
WellFormed(o) ==
    CASE o.kind \in {"send", "sendNB", "close"} -> o.on \in Chan \ Ctx
      [] o.kind \in {"receive", "receiveNB"} -> o.on \in Chan
      [] o.kind = "get" -> o.on \in Fut
      [] o.kind = "go" -> o.co \in Co
      [] o.kind = "goGroup" -> o.co \in Co /\ o.on \in Groups \cap Ctx
      [] o.kind \in {"add", "done"} -> o.on \in Groups \ Ctx
      [] o.kind = "wait" -> o.on \in Groups
      [] o.kind = "cancel" -> o.on \in Ctx
      [] o.kind \in {"withCancel", "disconnect"} -> o.on \in Ctx /\ o.parent \in Ctx
      [] o.kind = "timer" -> o.on \in Fut /\ o.parent \in Ctx
      [] o.kind = "signalChannel" -> o.on \in Signals
      [] OTHER -> FALSE

CaseKinds == {"send", "receive", "get", "default"}

ASSUME CoroutinesAssumption ==
    /\ Main \in Co /\ Outside \notin Co /\ Co \cap Fut = {} /\ IsFiniteSet(Co)
    /\ Signals \subseteq Chan /\ Ctx \subseteq Chan /\ Root \in Ctx
    /\ Signals \cap Ctx = {}
    /\ NoCtx \notin Ctx \cup Groups
    /\ Size \in [Chan -> Nat]
    /\ \A x \in Ctx : Size[x] = 0
    /\ MaxCalls \in Nat /\ MaxSignals \in Nat

ASSUME CallsAssumption ==
    \A o \in AllCalls :
        IF o.kind = "select"
        THEN /\ DOMAIN o.cases = 1 .. Len(o.cases)
             /\ \A i \in DOMAIN o.cases :
                  /\ o.cases[i].kind \in CaseKinds
                  /\ o.cases[i].kind # "default" => WellFormed(o.cases[i])
        ELSE WellFormed(o)

VARIABLES
    menu,        \* the menu in force
    coroutines,  \* Scheduler.coroutines
    turn,        \* index i of Execute's loop, 0 outside of Execute
    allBlocked,  \* Execute's local
    progress,    \* coState.progress of the running coroutine
    co,          \* each coroutine: life, pending call, call answered, ...
    chan,        \* each channel: buffer, waiting receivers and senders
    future,      \* each timer
    ctx,         \* each context
    group,       \* each wait or error group
    pending,     \* wfState.pendingSignals
    opened,      \* wfState.signalChannels
    signals,     \* signals received
    over,        \* Execute returned the error of a panic, or Exit was called
    delivered,   \* history: values received from each channel
    quiet,       \* history: this turn enabled another coroutine without progress
    silent       \* history: some turn of this round ended so

vars == <<menu, coroutines, turn, allBlocked, progress, co, chan, future, ctx,
          group, pending, opened, signals, over, delivered, quiet, silent>>

scheduling == <<coroutines, turn, allBlocked, silent>>
data == <<chan, future, ctx, group, pending, opened, delivered>>
outside == <<menu, signals>>

Value == (Co \cup {Outside}) \X (0 .. MaxCalls + MaxSignals)

NoOp == [kind |-> "none"]

Idle == turn = 0

\* coState; group: the error group the coroutine was started in.
CoState == [life  : {"none", "live", "finished"},
            op    : AllCalls \cup {NoOp},
            woken : BOOLEAN,
            waits : BOOLEAN,
            left  : 0 .. MaxCalls,
            group : Groups \cup {NoCtx}]

Channel == [buffer : Seq(Value), receivers : Seq(Co \cup Fut), senders : Seq(Value),
            closed : BOOLEAN]

Context == [status   : {"none", "live", "canceled"},
            parent   : Ctx \cup {NoCtx},
            children : SUBSET Ctx]

Group == [n : Int, done : BOOLEAN, waiting : BOOLEAN, err : BOOLEAN]

TypeOK ==
    /\ menu \in Menus
    /\ coroutines \in Seq(Co)
    /\ turn \in 0 .. Len(coroutines)
    /\ allBlocked \in BOOLEAN /\ progress \in BOOLEAN /\ over \in BOOLEAN
    /\ quiet \in BOOLEAN /\ silent \in BOOLEAN
    /\ co \in [Co -> CoState]
    /\ chan \in [Chan -> Channel]
    /\ \A h \in Chan : Len(chan[h].buffer) <= Size[h]
    /\ future \in [Fut -> {"none", "pending", "fired", "canceled"}]
    /\ ctx \in [Ctx -> Context]
    /\ group \in [Groups -> Group]
    /\ pending \in [Signals -> Seq(Value)]
    /\ opened \subseteq Signals
    /\ signals \in 0 .. MaxSignals
    /\ delivered \in [Chan -> Seq(Value)]

\* NewCoroutine: blocked in its first yield.
NewCo(g) == [life |-> "live", op |-> NoOp, woken |-> FALSE, waits |-> FALSE,
             left |-> MaxCalls, group |-> g]

Unborn == [NewCo(NoCtx) EXCEPT !.life = "none"]

Init ==
    /\ menu \in Menus
    /\ coroutines = <<Main>>
    /\ turn = 1 /\ allBlocked = TRUE /\ progress = FALSE
    /\ co = [c \in Co |-> IF c = Main THEN NewCo(NoCtx) ELSE Unborn]
    /\ chan = [h \in Chan |-> [buffer |-> <<>>, receivers |-> <<>>,
                               senders |-> <<>>, closed |-> FALSE]]
    /\ future = [f \in Fut |-> "none"]
    /\ ctx = [x \in Ctx |-> [status |-> IF x = Root THEN "live" ELSE "none",
                             parent |-> NoCtx, children |-> {}]]
    /\ group = [w \in Groups |-> [n |-> 0, done |-> FALSE, waiting |-> FALSE,
                                  err |-> FALSE]]
    /\ pending = [s \in Signals |-> <<>>]
    /\ opened = {} /\ signals = 0 /\ over = FALSE
    /\ delivered = [h \in Chan |-> <<>>]
    /\ quiet = FALSE /\ silent = FALSE
-----------------------------------------------------------------------------
(* The scheduler.                                                          *)

\* Execute goes on with the coroutine at position i of list; past the end it
\* starts another round unless every coroutine stayed blocked.
MovesTo(i, list, blocked, hushed) ==
    /\ coroutines' = list
    /\ progress' = FALSE /\ quiet' = FALSE
    /\ IF i <= Len(list)
       THEN turn' = i /\ allBlocked' = blocked /\ silent' = hushed
       ELSE IF blocked \/ list = <<>>
       THEN turn' = 0 /\ allBlocked' = TRUE /\ silent' = hushed
       ELSE turn' = 1 /\ allBlocked' = TRUE /\ silent' = FALSE

\* Mutant of YieldsTurn: the progress of the last coroutine alone decides.
YieldsTurnForgetful(enables) ==
    MovesTo(turn + 1, coroutines, ~progress,
            silent \/ ((quiet \/ enables) /\ ~progress))

\* The running coroutine blocks.  enables: by that, others may go on.
YieldsTurn(enables) ==
    MovesTo(turn + 1, coroutines, allBlocked /\ ~progress,
            silent \/ ((quiet \/ enables) /\ ~progress))

\* The running coroutine is finished: progress, and off the list.
EndsTurn == MovesTo(turn, RemoveAt(coroutines, turn), FALSE, silent)

\* Execute is called again, by the executor that has handled an event.
StartsRound ==
    /\ turn' = IF coroutines = <<>> THEN 0 ELSE 1
    /\ allBlocked' = TRUE /\ silent' = FALSE
    /\ UNCHANGED <<coroutines, progress, quiet>>

\* The running coroutine panics: Execute returns the error at once.
Panics(c) ==
    /\ over' = TRUE
    /\ co' = [co EXCEPT ![c].life = "finished", ![c].op = NoOp]
    /\ coroutines' = RemoveAt(coroutines, turn)
    /\ turn' = 0 /\ allBlocked' = TRUE /\ progress' = FALSE
    /\ quiet' = FALSE /\ silent' = FALSE
    /\ UNCHANGED outside
-----------------------------------------------------------------------------
(* Calls.                                                                  *)

CanReceive(h) == chan[h].buffer # <<>> \/ chan[h].senders # <<>> \/ chan[h].closed
HasCapacity(h) == Len(chan[h].buffer) < Size[h]
CanSend(h) == ~chan[h].closed /\ (chan[h].receivers # <<>> \/ HasCapacity(h))
Ready(f) == future[f] \in {"fired", "canceled"}

CaseReady(o) ==
    CASE o.kind = "receive" -> CanReceive(o.on)
      [] o.kind = "send"    -> CanSend(o.on)
      [] o.kind = "get"     -> Ready(o.on)
      [] o.kind = "default" -> TRUE

\* Select takes the first case that is ready.
ReadyCases(o) == {i \in DOMAIN o.cases : CaseReady(o.cases[i])}
FirstReady(o) == CHOOSE i \in ReadyCases(o) : \A j \in ReadyCases(o) : i <= j

\* The call that runs, NoOp when Select has to wait.
Selected(o) ==
    IF o.kind # "select" THEN o
    ELSE IF ReadyCases(o) = {} THEN NoOp
    ELSE o.cases[FirstReady(o)]

\* A program holds only what it has created.
Holds(k) ==
    CASE k.kind \in {"go", "goGroup"} -> co[k.co].life = "none"
                                        /\ (k.kind = "goGroup" => ctx[k.on].status # "none")
      [] k.kind \in {"withCancel", "disconnect"} ->
           ctx[k.on].status = "none" /\ ctx[k.parent].status # "none"
      [] k.kind = "timer"  -> future[k.on] = "none" /\ ctx[k.parent].status # "none"
      [] k.kind = "get"    -> future[k.on] # "none"
      [] k.kind = "cancel" -> ctx[k.on].status # "none"
      [] k.kind \in {"send", "receive", "sendNB", "receiveNB", "close"} ->
           (k.on \in Signals => k.on \in opened)
           /\ (k.on \in Ctx => ctx[k.on].status # "none")
      [] OTHER -> TRUE

Usable(o) == IF o.kind = "select" THEN \A i \in DOMAIN o.cases : Holds(o.cases[i])
             ELSE Holds(o)

Runs(c) == turn > 0 /\ coroutines[turn] = c

\* c is in the call o, for the first time or after a yield.
Calls(c, o) ==
    /\ Runs(c)
    /\ IF co[c].op = NoOp THEN co[c].left > 0 /\ o \in menu[c] /\ Usable(o)
       ELSE o = co[c].op

Call(c) == <<c, co[c].left>>

\* The call of c returns, the blocked calls of the coroutines in woken get
\* their answer.  marks: MadeProgress was called.  enables: and if not, others
\* may go on.
Returns(c, woken, marks, enables) ==
    /\ co' = [d \in Co |->
                IF d = c THEN [co[d] EXCEPT !.op = NoOp, !.woken = FALSE,
                                            !.waits = FALSE, !.left = @ - 1]
                ELSE IF d \in woken THEN [co[d] EXCEPT !.woken = TRUE]
                ELSE co[d]]
    /\ progress' = (progress \/ marks)
    /\ quiet' = (quiet \/ enables)
    /\ UNCHANGED <<scheduling, over, outside>>

\* A coroutine waits in Select for the other side of k.
SelectWaits(k) ==
    \E d \in Co : co[d].op.kind = "select" /\ \E i \in DOMAIN co[d].op.cases :
      LET s == co[d].op.cases[i] IN
        s.on = k.on /\ {s.kind, k.kind} = {"send", "receive"}

\* The call o of c registers, if it does, and yields.
Yields(c, o, registers) ==
    /\ co' = [co EXCEPT ![c].op = o, ![c].waits = (@ \/ registers)]
    /\ YieldsTurn(registers /\ ~co[c].waits /\ SelectWaits(o))
    /\ UNCHANGED <<over, outside>>
-----------------------------------------------------------------------------
(* Channels.                                                               *)

Receives(h, v) == delivered' = [delivered EXCEPT ![h] = Append(@, v)]

\* Mutant of PutInBuffer: more than the channel's size is kept.
PutInBufferAlways(h, v) ==
    /\ ~chan[h].closed /\ chan[h].receivers = <<>>
    /\ chan' = [chan EXCEPT ![h].buffer = Append(@, v)]
    /\ UNCHANGED delivered

PutInBuffer(h, v) ==
    /\ ~chan[h].closed /\ chan[h].receivers = <<>> /\ HasCapacity(h)
    /\ chan' = [chan EXCEPT ![h].buffer = Append(@, v)]
    /\ UNCHANGED delivered

\* The first waiting receiver gets the value.
HandOver(h, v) ==
    /\ ~chan[h].closed /\ chan[h].receivers # <<>>
    /\ chan' = [chan EXCEPT ![h].receivers = Tail(@)]
    /\ Receives(h, v)

\* Send and SendNonblocking, neither of them answered while it yielded.
Send(c, o) ==
    LET k == Selected(o)  h == k.on  v == Call(c)  blocking == k.kind = "send" IN
    /\ Calls(c, o) /\ k.kind \in {"send", "sendNB"} /\ ~co[c].woken
    /\ \/ chan[h].closed /\ Panics(c) /\ UNCHANGED <<chan, delivered>>
       \/ HandOver(h, v) /\ Returns(c, {Head(chan[h].receivers)}, blocking, ~blocking)
       \/ PutInBuffer(h, v) /\ Returns(c, {}, blocking, ~blocking)
       \/ /\ ~chan[h].closed /\ ~CanSend(h) /\ ~blocking
          /\ Returns(c, {}, FALSE, FALSE)
          /\ UNCHANGED <<chan, delivered>>
       \/ /\ ~chan[h].closed /\ ~CanSend(h) /\ blocking
          /\ chan' = IF co[c].waits THEN chan
                     ELSE [chan EXCEPT ![h].senders = Append(@, v)]
          /\ Yields(c, o, TRUE)
          /\ UNCHANGED delivered
    /\ UNCHANGED <<future, ctx, group, pending, opened>>

\* The sender of v, when the call that registered v is still the pending one.
SenderOf(v) == IF co[v[1]].op # NoOp /\ Call(v[1]) = v THEN {v[1]} ELSE {}

\* Mutant of TakeFromSender: the sender stays registered.
TakeFromSenderKeep(h) ==
    /\ chan[h].buffer = <<>> /\ ~chan[h].closed /\ chan[h].senders # <<>>
    /\ Receives(h, Head(chan[h].senders))
    /\ UNCHANGED chan

TakeFromSender(h) ==
    /\ chan[h].buffer = <<>> /\ ~chan[h].closed /\ chan[h].senders # <<>>
    /\ Receives(h, Head(chan[h].senders))
    /\ chan' = [chan EXCEPT ![h].senders = Tail(@)]

TakeFromBuffer(h) ==
    /\ chan[h].buffer # <<>>
    /\ Receives(h, Head(chan[h].buffer))
    /\ chan' = [chan EXCEPT ![h].buffer = Tail(@)]

\* Receive and ReceiveNonBlocking, neither of them answered while it yielded.
Receive(c, o) ==
    LET k == Selected(o)  h == k.on  blocking == k.kind = "receive" IN
    /\ Calls(c, o) /\ k.kind \in {"receive", "receiveNB"} /\ ~co[c].woken
    /\ \/ TakeFromBuffer(h) /\ Returns(c, {}, blocking, ~blocking)
       \/ /\ TakeFromSender(h)
          /\ Returns(c, SenderOf(Head(chan[h].senders)), blocking, ~blocking)
       \/ /\ chan[h].buffer = <<>> /\ chan[h].closed
          /\ Returns(c, {}, blocking, FALSE)
          /\ UNCHANGED <<chan, delivered>>
       \/ /\ ~CanReceive(h) /\ ~blocking
          /\ Returns(c, {}, FALSE, FALSE)
          /\ UNCHANGED <<chan, delivered>>
       \/ /\ ~CanReceive(h) /\ blocking
          /\ chan' = IF co[c].waits THEN chan
                     ELSE [chan EXCEPT ![h].receivers = Append(@, c)]
          /\ Yields(c, o, TRUE)
          /\ UNCHANGED delivered
    /\ UNCHANGED <<future, ctx, group, pending, opened>>

\* sentValue or receivedValue was set by the other side.
Answered(c, o) ==
    /\ Calls(c, o) /\ co[c].woken
    /\ Returns(c, {}, TRUE, FALSE)
    /\ UNCHANGED data

\* The callbacks that Close runs are those of coroutines and of timers.
CloseChan(c, o) ==
    LET h == o.on IN
    /\ Calls(c, o) /\ o.kind = "close"
    /\ IF chan[h].senders # <<>>
       THEN Panics(c) /\ chan' = [chan EXCEPT ![h].closed = TRUE]
       ELSE /\ Returns(c, ToSet(chan[h].receivers), FALSE, TRUE)
            /\ chan' = [chan EXCEPT ![h].closed = TRUE, ![h].receivers = <<>>]
    /\ UNCHANGED <<future, ctx, group, pending, opened, delivered>>
-----------------------------------------------------------------------------
(* Select, futures, coroutines, wait groups and error groups.              *)

\* Select with no case ready.
SelectYields(c, o) ==
    /\ Calls(c, o) /\ Selected(o) = NoOp
    /\ Yields(c, o, FALSE)
    /\ UNCHANGED data

SelectDefault(c, o) ==
    /\ Calls(c, o) /\ o.kind = "select" /\ Selected(o) # NoOp
    /\ Selected(o).kind = "default"
    /\ Returns(c, {}, FALSE, FALSE)
    /\ UNCHANGED data

\* Future.Get; a selected future is passed to its handler, which marks nothing.
Get(c, o) ==
    /\ Calls(c, o) /\ Selected(o).kind = "get"
    /\ IF Ready(Selected(o).on) THEN Returns(c, {}, o.kind = "get", FALSE)
       ELSE Yields(c, o, FALSE)
    /\ UNCHANGED data

\* NewCoroutine at the end of the scheduler's list; it runs in this round.
Spawns(c, d, g) ==
    /\ co' = [co EXCEPT ![c].left = @ - 1, ![d] = NewCo(g)]
    /\ coroutines' = Append(coroutines, d)
    /\ UNCHANGED <<turn, allBlocked, progress, quiet, silent, over, outside>>

Go(c, o) ==
    /\ Calls(c, o) /\ o.kind = "go"
    /\ Spawns(c, o.co, NoCtx)
    /\ UNCHANGED data

GroupGo(c, o) ==
    /\ Calls(c, o) /\ o.kind = "goGroup"
    /\ IF group[o.on].waiting THEN Panics(c) /\ UNCHANGED group
       ELSE Spawns(c, o.co, o.on) /\ group' = [group EXCEPT ![o.on].n = @ + 1]
    /\ UNCHANGED <<chan, future, ctx, pending, opened, delivered>>

\* Mutant of Add: no look at whether Wait was called.
AddUnguarded(c, o) ==
    /\ Calls(c, o) /\ o.kind = "add"
    /\ group' = [group EXCEPT ![o.on].n = @ + 1]
    /\ Returns(c, {}, FALSE, FALSE)
    /\ UNCHANGED <<chan, future, ctx, pending, opened, delivered>>

\* WaitGroup.Add(1): misuse when Wait was called and the count was zero.
Add(c, o) ==
    /\ Calls(c, o) /\ o.kind = "add"
    /\ group' = [group EXCEPT ![o.on].n = @ + 1]
    /\ IF group[o.on].waiting /\ group[o.on].n = 0 THEN Panics(c)
       ELSE Returns(c, {}, FALSE, FALSE)
    /\ UNCHANGED <<chan, future, ctx, pending, opened, delivered>>

\* WaitGroup.Done, which is Add(-1).
Done(c, o) ==
    /\ Calls(c, o) /\ o.kind = "done"
    /\ group' = [group EXCEPT ![o.on].n = @ - 1,
                              ![o.on].done = @ \/ group[o.on].n = 1]
    /\ IF group[o.on].n = 0 THEN Panics(c) ELSE Returns(c, {}, FALSE, TRUE)
    /\ UNCHANGED <<chan, future, ctx, pending, opened, delivered>>

\* WaitGroup.Wait and ErrGroup.Wait: the count is looked at once, then the future.
Wait(c, o) ==
    LET w == o.on  passes == ~co[c].waits /\ group[w].n = 0 IN
    /\ Calls(c, o) /\ o.kind = "wait"
    /\ group' = [group EXCEPT ![w].waiting = TRUE]
    /\ CASE passes                    -> Returns(c, {}, FALSE, FALSE)
         [] ~passes /\ group[w].done  -> Returns(c, {}, TRUE, FALSE)
         [] ~passes /\ ~group[w].done -> Yields(c, o, TRUE)
    /\ UNCHANGED <<chan, future, ctx, pending, opened, delivered>>
-----------------------------------------------------------------------------
(* Contexts.                                                               *)

\* The contexts that cancel reaches from x: the live ones below it, which is
\* the least set with x and the live children of its members.
LiveBelow(x) ==
    LET Live(S) == {y \in S : ctx[y].status = "live"}
        Reached(S) == /\ Live({x}) \subseteq S
                      /\ \A y \in S : Live(ctx[y].children) \subseteq S
    IN  {y \in Ctx : \A S \in SUBSET Ctx : Reached(S) => y \in S}

\* Mutant of Canceling: the cancellation stops at the direct children.
CancelingShallow(x) == IF ctx[x].status = "live" THEN {x} \cup ctx[x].children ELSE {}

Canceling(x) == LiveBelow(x)

\* Whose callbacks the closing of the done channels runs.
Notified(x) == UNION {ToSet(chan[y].receivers) : y \in Canceling(x)}

\* cancelCtx.cancel: done channels close, the timers below become canceled.
Cancels(x) ==
    /\ chan' = [h \in Chan |-> IF h \in Canceling(x)
                              THEN [chan[h] EXCEPT !.closed = TRUE, !.receivers = <<>>]
                              ELSE chan[h]]
    /\ future' = [f \in Fut |-> IF f \in Notified(x) /\ ~Ready(f) THEN "canceled"
                               ELSE future[f]]
    /\ ctx' = [y \in Ctx |-> IF y \in Canceling(x)
                             THEN [ctx[y] EXCEPT !.status = "canceled", !.children = {}]
                             ELSE [ctx[y] EXCEPT !.children = @ \ Canceling(x)]]

\* A child of a canceled context is canceled at birth; looking at the parent's
\* done channel marks progress then.
WithCancel(c, o) ==
    LET late == ctx[o.parent].status = "canceled" IN
    /\ Calls(c, o) /\ o.kind = "withCancel"
    /\ ctx' = IF late
              THEN [ctx EXCEPT ![o.on].status = "canceled", ![o.on].parent = o.parent]
              ELSE [ctx EXCEPT ![o.on].status = "live", ![o.on].parent = o.parent,
                               ![o.parent].children = @ \cup {o.on}]
    /\ chan' = [chan EXCEPT ![o.on].closed = late]
    /\ Returns(c, {}, late, FALSE)
    /\ UNCHANGED <<future, group, pending, opened, delivered>>

\* NewDisconnectedContext: registered with no parent.
Disconnect(c, o) ==
    /\ Calls(c, o) /\ o.kind = "disconnect"
    /\ ctx' = [ctx EXCEPT ![o.on].status = "live"]
    /\ Returns(c, {}, FALSE, FALSE)
    /\ UNCHANGED <<chan, future, group, pending, opened, delivered>>

Cancel(c, o) ==
    /\ Calls(c, o) /\ o.kind = "cancel"
    /\ Cancels(o.on)
    /\ Returns(c, Notified(o.on) \cap Co, FALSE, TRUE)
    /\ UNCHANGED <<group, pending, opened, delivered>>

\* ScheduleTimer: the done channel of its context will cancel it.
ScheduleTimer(c, o) ==
    LET late == ctx[o.parent].status = "canceled" IN
    /\ Calls(c, o) /\ o.kind = "timer"
    /\ future' = [future EXCEPT ![o.on] = IF late THEN "canceled" ELSE "pending"]
    /\ chan' = IF late THEN chan
               ELSE [chan EXCEPT ![o.parent].receivers = Append(@, o.on)]
    /\ Returns(c, {}, FALSE, FALSE)
    /\ UNCHANGED <<ctx, group, pending, opened, delivered>>
-----------------------------------------------------------------------------
(* Signals, events and the end of a coroutine.                             *)

\* GetSignalChannel: the signals that came before are sent in reverse order.
SignalChannel(c, o) ==
    LET s == o.on IN
    /\ Calls(c, o) /\ o.kind = "signalChannel"
    /\ opened' = opened \cup {s}
    /\ chan' = [chan EXCEPT ![s].buffer = @ \o Reverse(pending[s])]
    /\ pending' = [pending EXCEPT ![s] = <<>>]
    /\ Returns(c, {}, pending[s] # <<>>, FALSE)
    /\ UNCHANGED <<future, ctx, group, delivered>>

\* The function of the coroutine returns, with an error or without.
Finish(c, err) ==
    LET g == co[c].group
        cancels == g # NoCtx /\ err /\ ~group[g].err
    IN
    /\ Runs(c) /\ co[c].op = NoOp
    /\ err => g # NoCtx
    /\ IF cancels THEN Cancels(g) ELSE UNCHANGED <<chan, future, ctx>>
    /\ co' = [d \in Co |->
                IF d = c THEN [co[d] EXCEPT !.life = "finished"]
                ELSE IF cancels /\ d \in Notified(g) THEN [co[d] EXCEPT !.woken = TRUE]
                ELSE co[d]]
    /\ group' = IF g = NoCtx THEN group
                ELSE [group EXCEPT ![g].n = @ - 1,
                                   ![g].done = @ \/ group[g].n = 1,
                                   ![g].err = @ \/ err]
    /\ EndsTurn
    /\ UNCHANGED <<pending, opened, delivered, over, outside>>

\* A signal is handed to its channel, or lost when that is full, or kept until
\* there is one.  No more are kept here than the channel takes.
ReceiveSignal(s) ==
    LET v == <<Outside, signals>> IN
    /\ Idle /\ ~over /\ signals < MaxSignals /\ ~chan[s].closed
    /\ signals' = signals + 1
    /\ \/ s \in opened /\ HandOver(s, v) /\ UNCHANGED pending
          /\ co' = [co EXCEPT ![Head(chan[s].receivers)].woken = TRUE]
       \/ s \in opened /\ PutInBuffer(s, v) /\ UNCHANGED <<co, pending>>
       \/ s \in opened /\ ~CanSend(s) /\ UNCHANGED <<chan, delivered, co, pending>>
       \/ /\ s \notin opened /\ Len(pending[s]) < Size[s]
          /\ pending' = [pending EXCEPT ![s] = Append(@, v)]
          /\ UNCHANGED <<chan, delivered, co>>
    /\ StartsRound
    /\ UNCHANGED <<menu, future, ctx, group, opened, over>>

\* The first occurrence goes.
RemoveReceiveCallback(s, f) ==
    IF f \in ToSet(s)
    THEN RemoveAt(s, CHOOSE i \in DOMAIN s : s[i] = f /\ \A j \in 1 .. i - 1 : s[j] # f)
    ELSE s

\* The timer fired: its command is done and its cancel callback removed.
TimerFired(f) ==
    /\ Idle /\ ~over /\ future[f] = "pending"
    /\ future' = [future EXCEPT ![f] = "fired"]
    /\ chan' = [h \in Chan |-> [chan[h] EXCEPT !.receivers = RemoveReceiveCallback(@, f)]]
    /\ StartsRound
    /\ UNCHANGED <<co, ctx, group, pending, opened, delivered, over, outside>>

\* The cancellation of the workflow cancels its context.
WorkflowCanceled ==
    /\ Idle /\ ~over /\ ctx[Root].status = "live"
    /\ Cancels(Root)
    /\ co' = [d \in Co |-> IF d \in Notified(Root) THEN [co[d] EXCEPT !.woken = TRUE]
                           ELSE co[d]]
    /\ StartsRound
    /\ UNCHANGED <<group, pending, opened, delivered, over, outside>>

\* Scheduler.Exit: the blocked coroutines are released to finish.
Exit ==
    /\ Idle /\ \E i \in DOMAIN coroutines : co[coroutines[i]].life = "live"
    /\ over' = TRUE
    /\ co' = [c \in Co |-> IF c \in ToSet(coroutines)
                           THEN [co[c] EXCEPT !.life = "finished"] ELSE co[c]]
    /\ UNCHANGED <<scheduling, progress, quiet, data, outside>>

Step(c, o) ==
    \/ Send(c, o) \/ Receive(c, o) \/ Answered(c, o) \/ CloseChan(c, o)
    \/ SelectYields(c, o) \/ SelectDefault(c, o) \/ Get(c, o)
    \/ Go(c, o) \/ GroupGo(c, o)
    \/ Add(c, o) \/ Done(c, o) \/ Wait(c, o)
    \/ WithCancel(c, o) \/ Disconnect(c, o) \/ Cancel(c, o)
    \/ ScheduleTimer(c, o) \/ SignalChannel(c, o)

Next ==
    \/ \E c \in Co, o \in AllCalls : Step(c, o)
    \/ \E c \in Co, err \in BOOLEAN : Finish(c, err)
    \/ \E s \in Signals : ReceiveSignal(s)
    \/ \E f \in Fut : TimerFired(f)
    \/ WorkflowCanceled
    \/ Exit

Spec == Init /\ [][Next]_vars
-----------------------------------------------------------------------------
(* Properties.                                                             *)

\* c has yielded and what it waits for has not happened.
Stuck(c) ==
    LET o == co[c].op IN
    /\ o # NoOp /\ ~co[c].woken
    /\ CASE o.kind = "receive" -> ~CanReceive(o.on)
         [] o.kind = "send"    -> ~CanSend(o.on) /\ ~chan[o.on].closed
         [] o.kind = "select"  -> ReadyCases(o) = {}
         [] o.kind = "get"     -> ~Ready(o.on)
         [] o.kind = "wait"    -> ~group[o.on].done

Blocked == \A i \in DOMAIN coroutines : Stuck(coroutines[i])

(***************************************************************************)
(* When Execute returns, no coroutine can go on (scheduler.go:21), as far  *)
(* as every turn of the last round that enabled another one also marked    *)
(* progress: the next Execute comes only with the next event.              *)
(***************************************************************************)
RoundEndsBlocked == Idle /\ ~over /\ ~silent => Blocked

(***************************************************************************)
(* The channels implement FifoChannels: what waits is the buffer, then the *)
(* values of the blocked senders (trySend, tryReceive).                    *)
(***************************************************************************)
Fifo == INSTANCE FifoChannels WITH
    queue <- [h \in Chan |-> chan[h].buffer \o chan[h].senders],
    shut <- {h \in Chan : chan[h].closed}

FifoSpec == Fifo!Spec

\* As far as nobody blocks in a Send on a buffered channel: one that found room
\* later would leave its value with the senders (channel.go:98).
SendsUnbuffered == \A o \in AllCalls : o.kind = "send" => Size[o.on] = 0

(***************************************************************************)
(* A cancellation reaches every context below, at whatever time it was     *)
(* created; a pending timer is registered with the done channel of exactly *)
(* one context, a live one, and a timer that fired with none.              *)
(***************************************************************************)
CancellationReaches ==
    /\ \A x \in Ctx : LET p == ctx[x].parent IN
         p # NoCtx /\ ctx[p].status = "canceled" => ctx[x].status = "canceled"
    /\ \A f \in Fut : LET at == {x \in Ctx : f \in ToSet(chan[x].receivers)} IN
         IF future[f] = "pending"
         THEN Cardinality(at) = 1 /\ \A x \in at : ctx[x].status = "live"
         ELSE at = {}

(***************************************************************************)
(* A Wait that blocked returns when nothing is running any more: no count  *)
(* that reached zero, and set the future, may rise again before.           *)
(***************************************************************************)
BlockedWaitEndsAtZero ==
    [][\A c \in Co : LET o == co[c].op IN
         o.kind = "wait" /\ co'[c].op = NoOp /\ ~over' => group[o.on].n = 0]_vars
=============================================================================
