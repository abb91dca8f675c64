-------------------------- MODULE CoroutinesProofs --------------------------
(***************************************************************************)
(* The scheduler of workflow code and its primitives, for every number of  *)
(* coroutines, channels, contexts, groups and timers, every capacity and   *)
(* every program: types, what coroutines wait for, cancellation, the end   *)
(* of a round, and the channels as queues.                                 *)
(***************************************************************************)
EXTENDS Coroutines, SequenceTheorems, FiniteSetTheorems, WellFoundedInduction, TLAPS

-----------------------------------------------------------------------------
(* Sequences and calls.                                                    *)

LEMMA Least ==
    ASSUME NEW T \in SUBSET Nat, T # {}
    PROVE  \E x \in T : \A y \in T : x <= y
<1> DEFINE R == {ss \in Nat \X Nat : ss[1] < ss[2]}
<1>1. IsWellFoundedOn(R, Nat)
  BY NatLessThanWellFounded DEF OpToRel
<1>2. \A x, y \in Nat : <<y, x>> \in R <=> y < x
  OBVIOUS
<1> HIDE DEF R
<1>3. PICK x \in T : \A y \in T : <<y, x>> \notin R
  BY <1>1, WFMin
<1>4. \A y \in T : x <= y
  <2> SUFFICES ASSUME NEW y \in T PROVE ~(y < x)
    OBVIOUS
  <2> QED
    BY <1>2, <1>3
<1> QED
  BY <1>4

LEMMA TailElements ==
    ASSUME NEW S, NEW s \in Seq(S), s # <<>>
    PROVE  /\ Head(s) = s[1] /\ Head(s) \in S /\ Tail(s) \in Seq(S)
           /\ 1 \in DOMAIN s /\ DOMAIN s = 1 .. Len(s)
           /\ Len(Tail(s)) = Len(s) - 1 /\ DOMAIN Tail(s) = 1 .. Len(s) - 1
           /\ \A i \in DOMAIN Tail(s) : Tail(s)[i] = s[i + 1] /\ i + 1 \in DOMAIN s
BY HeadTailProperties, EmptySeq

LEMMA RemovedAt ==
    ASSUME NEW S, NEW s \in Seq(S), NEW i \in DOMAIN s
    PROVE  /\ RemoveAt(s, i) \in Seq(S) /\ Len(RemoveAt(s, i)) = Len(s) - 1
           /\ \A j \in 1 .. Len(s) - 1 :
                RemoveAt(s, i)[j] = IF j < i THEN s[j] ELSE s[j + 1]
<1>1. Len(s) \in Nat /\ i \in 1 .. Len(s)
  OBVIOUS
<1> DEFINE a == SubSeq(s, 1, i - 1)
           b == SubSeq(s, i + 1, Len(s))
<1>2. /\ a \in Seq(S) /\ Len(a) = i - 1
      /\ \A j \in 1 .. i - 1 : a[j] = s[j]
  BY <1>1, SubSeqProperties
<1>3. /\ b \in Seq(S) /\ Len(b) = Len(s) - i
      /\ \A j \in 1 .. Len(s) - i : b[j] = s[i + j]
  BY <1>1, SubSeqProperties
<1> HIDE DEF a, b
<1>4. /\ a \o b \in Seq(S) /\ Len(a \o b) = Len(a) + Len(b)
      /\ \A j \in 1 .. Len(a) + Len(b) :
           (a \o b)[j] = IF j <= Len(a) THEN a[j] ELSE b[j - Len(a)]
  BY <1>2, <1>3, ConcatProperties
<1>5. ASSUME NEW j \in 1 .. Len(s) - 1
      PROVE  (a \o b)[j] = IF j < i THEN s[j] ELSE s[j + 1]
  <2>1. j \in 1 .. Len(a) + Len(b)
    BY <1>1, <1>2, <1>3
  <2>2. CASE j < i
    BY <1>1, <1>2, <1>4, <2>1, <2>2
  <2>3. CASE ~(j < i)
    <3>1. (a \o b)[j] = b[j - Len(a)]
      BY <1>1, <1>2, <1>4, <2>1, <2>3
    <3>2. j - Len(a) \in 1 .. Len(s) - i /\ i + (j - Len(a)) = j + 1
      BY <1>1, <1>2, <2>1, <2>3
    <3>3. b[j - Len(a)] = s[i + (j - Len(a))]
      BY <1>3, <3>2
    <3> QED
      BY <2>3, <3>1, <3>2, <3>3
  <2> QED
    BY <2>2, <2>3
<1>6. Len(a \o b) = Len(s) - 1
  BY <1>1, <1>2, <1>3, <1>4
<1>7. RemoveAt(s, i) = a \o b
  BY DEF RemoveAt, a, b
<1> QED
  BY <1>4, <1>5, <1>6, <1>7

LEMMA Removed ==
    ASSUME NEW S, NEW s \in Seq(S), NEW f
    PROVE  /\ RemoveReceiveCallback(s, f) \in Seq(S)
           /\ f \notin ToSet(s) => RemoveReceiveCallback(s, f) = s
           /\ f \in ToSet(s) => \E i \in DOMAIN s :
                                  s[i] = f /\ RemoveReceiveCallback(s, f) = RemoveAt(s, i)
<1> DEFINE T == {i \in DOMAIN s : s[i] = f}
           P(i) == s[i] = f /\ \A j \in 1 .. i - 1 : s[j] # f
<1>1. CASE f \in ToSet(s)
  <2>1. T # {} /\ T \subseteq Nat
    BY <1>1 DEF ToSet
  <2>2. PICK i \in T : \A j \in T : i <= j
    BY <2>1, Least
  <2>3. i \in DOMAIN s /\ P(i)
    BY <2>2
  <2>4. (CHOOSE k \in DOMAIN s : P(k)) \in DOMAIN s /\ P(CHOOSE k \in DOMAIN s : P(k))
    BY <2>3, Zenon
  <2>5. RemoveReceiveCallback(s, f) = RemoveAt(s, CHOOSE k \in DOMAIN s : P(k))
    BY <1>1 DEF RemoveReceiveCallback
  <2> QED
    BY <1>1, <2>4, <2>5, RemovedAt
<1>2. CASE f \notin ToSet(s)
  BY <1>2 DEF RemoveReceiveCallback
<1> QED
  BY <1>1, <1>2

LEMMA CallArguments ==
    ASSUME NEW k, WellFormed(k)
    PROVE  /\ k.kind \in {"send", "sendNB", "close"} => k.on \in Chan \ Ctx
           /\ k.kind \in {"receive", "receiveNB"} => k.on \in Chan
           /\ k.kind = "get" => k.on \in Fut
           /\ k.kind = "go" => k.co \in Co
           /\ k.kind = "goGroup" => k.co \in Co /\ k.on \in Groups \cap Ctx
           /\ k.kind \in {"add", "done"} => k.on \in Groups \ Ctx
           /\ k.kind = "wait" => k.on \in Groups
           /\ k.kind = "cancel" => k.on \in Ctx
           /\ k.kind \in {"withCancel", "disconnect"} => k.on \in Ctx /\ k.parent \in Ctx
           /\ k.kind = "timer" => k.on \in Fut /\ k.parent \in Ctx
           /\ k.kind = "signalChannel" => k.on \in Signals
           /\ k.kind \notin {"none", "default", "select"}
BY DEF WellFormed

\* Select has a case to take when one is ready.
LEMMA FirstCase ==
    ASSUME NEW o \in AllCalls, o.kind = "select", ReadyCases(o) # {}
    PROVE  FirstReady(o) \in ReadyCases(o) /\ Selected(o) # NoOp
<1>1. /\ DOMAIN o.cases = 1 .. Len(o.cases)
      /\ \A i \in DOMAIN o.cases : o.cases[i].kind \in CaseKinds
  BY CallsAssumption
<1>2. ReadyCases(o) \in SUBSET Nat
  BY <1>1 DEF ReadyCases
<1> DEFINE P(i) == \A j \in ReadyCases(o) : i <= j
<1>3. \E i \in ReadyCases(o) : P(i)
  BY <1>2, Least
<1> HIDE DEF P
<1>4. (CHOOSE i \in ReadyCases(o) : P(i)) \in ReadyCases(o)
  BY <1>3
<1>5. FirstReady(o) \in ReadyCases(o)
  BY <1>4 DEF FirstReady, P
<1>6. Selected(o) = o.cases[FirstReady(o)]
  BY DEF Selected
<1>7. o.cases[FirstReady(o)].kind \in CaseKinds
  BY <1>1, <1>5 DEF ReadyCases
<1> QED
  BY <1>5, <1>6, <1>7 DEF CaseKinds, NoOp

\* What Select calls.
LEMMA SelectedCall ==
    ASSUME NEW o \in AllCalls
    PROVE  /\ o.kind # "select" => Selected(o) = o /\ WellFormed(o)
           /\ o.kind = "select" /\ Selected(o) # NoOp =>
                /\ CaseReady(Selected(o)) /\ Selected(o).kind \in CaseKinds
                /\ Selected(o).kind # "default" => WellFormed(Selected(o))
                /\ \E i \in DOMAIN o.cases : Selected(o) = o.cases[i]
           /\ o # NoOp /\ o.kind # "none"
<1>1. CASE o.kind # "select"
  <2>1. WellFormed(o)
    BY <1>1, CallsAssumption
  <2>2. o.kind # "none"
    BY <2>1, CallArguments
  <2> QED
    BY <1>1, <2>1, <2>2 DEF Selected, NoOp
<1>2. CASE o.kind = "select"
  <2>1. /\ DOMAIN o.cases = 1 .. Len(o.cases)
        /\ \A i \in DOMAIN o.cases : /\ o.cases[i].kind \in CaseKinds
                                     /\ o.cases[i].kind # "default" => WellFormed(o.cases[i])
    BY <1>2, CallsAssumption
  <2>2. ReadyCases(o) # {} => FirstReady(o) \in ReadyCases(o)
    BY <1>2, FirstCase
  <2>3. Selected(o) # NoOp => /\ FirstReady(o) \in ReadyCases(o)
                              /\ Selected(o) = o.cases[FirstReady(o)]
    BY <1>2, <2>2 DEF Selected
  <2> QED
    BY <1>2, <2>1, <2>3 DEF ReadyCases, NoOp
<1> QED
  BY <1>1, <1>2

-----------------------------------------------------------------------------
(* Types.  A coroutine waits in the call it has made; channels of signals  *)
(* are used once they are opened, and until then their signals are kept.   *)

Waiting == {"send", "receive", "get", "wait", "select"}

Opened(k) ==
    k.kind \in {"send", "receive", "sendNB", "receiveNB", "close"} /\ k.on \in Signals
      => k.on \in opened

AllOpened(o) ==
    IF o.kind = "select" THEN \A i \in DOMAIN o.cases : Opened(o.cases[i]) ELSE Opened(o)

PendingCalls ==
    \A c \in Co : co[c].op # NoOp =>
      co[c].left > 0 /\ co[c].op.kind \in Waiting /\ AllOpened(co[c].op)

SignalsKept ==
    \A s \in Signals :
      IF s \in opened THEN pending[s] = <<>>
      ELSE chan[s].buffer = <<>> /\ Len(pending[s]) <= Size[s]

Typed == TypeOK /\ PendingCalls /\ SignalsKept

LEMMA NewCoType ==
    ASSUME NEW g \in Groups \cup {NoCtx}
    PROVE  NewCo(g) \in CoState
BY CoroutinesAssumption DEF NewCo, CoState

LEMMA InitTyped == Init => Typed
<1> SUFFICES ASSUME Init PROVE Typed
  OBVIOUS
<1>1. \A S : <<>> \in Seq(S) /\ Len(<<>>) = 0
  BY EmptySeq
<1>2. \A h \in Chan : Size[h] \in Nat
  BY CoroutinesAssumption
<1>3. coroutines \in Seq(Co) /\ Len(coroutines) = 1
  BY CoroutinesAssumption DEF Init
<1>4. co \in [Co -> CoState] /\ \A c \in Co : co[c].op = NoOp
  <2>1. NewCo(NoCtx) \in CoState /\ NewCo(NoCtx).op = NoOp
    BY NewCoType DEF NewCo
  <2>2. Unborn \in CoState /\ Unborn.op = NoOp
    BY <2>1 DEF Unborn, CoState
  <2> QED
    BY <2>1, <2>2 DEF Init
<1>5. chan \in [Chan -> Channel] /\ \A h \in Chan : chan[h].buffer = <<>>
  BY <1>1 DEF Init, Channel
<1>6. ctx \in [Ctx -> Context] /\ group \in [Groups -> Group]
  BY DEF Init, Context, Group
<1>7. TypeOK
  <2>1. turn \in 0 .. Len(coroutines) /\ signals \in 0 .. MaxSignals
    BY <1>3, CoroutinesAssumption DEF Init
  <2>2. \A h \in Chan : Len(chan[h].buffer) <= Size[h]
    BY <1>1, <1>2, <1>5
  <2>3. pending \in [Signals -> Seq(Value)] /\ delivered \in [Chan -> Seq(Value)]
    BY <1>1 DEF Init
  <2>4. future \in [Fut -> {"none", "pending", "fired", "canceled"}]
    BY DEF Init
  <2> QED
    BY <1>3, <1>4, <1>5, <1>6, <2>1, <2>2, <2>3, <2>4 DEF Init, TypeOK
<1> QED
  BY <1>1, <1>2, <1>4, <1>5, <1>7, CoroutinesAssumption
  DEF Init, Typed, PendingCalls, SignalsKept

\* The call that runs.
LEMMA Calling ==
    ASSUME Typed, NEW c \in Co, NEW o, Calls(c, o)
    PROVE  /\ turn \in 1 .. Len(coroutines) /\ coroutines[turn] = c
           /\ o \in AllCalls /\ co[c].left \in 1 .. MaxCalls /\ AllOpened(o)
           /\ o.kind \notin Waiting => co[c].op = NoOp /\ Usable(o)
<1>1. /\ co[c].op \in AllCalls \cup {NoOp} /\ co[c].left \in 0 .. MaxCalls
      /\ turn \in 0 .. Len(coroutines) /\ menu \in Menus /\ MaxCalls \in Nat
      /\ Len(coroutines) \in Nat
  BY CoroutinesAssumption DEF Typed, TypeOK, CoState
<1>2. turn \in 1 .. Len(coroutines) /\ coroutines[turn] = c
  BY <1>1 DEF Calls, Runs
<1>3. CASE co[c].op = NoOp
  <2>1. co[c].left > 0 /\ o \in menu[c] /\ Usable(o)
    BY <1>3 DEF Calls
  <2>2. \A k : Holds(k) => Opened(k)
    BY DEF Holds, Opened
  <2>3. AllOpened(o)
    BY <2>1, <2>2 DEF Usable, AllOpened
  <2> QED
    BY <1>1, <1>2, <1>3, <2>1, <2>3 DEF AllCalls
<1>4. CASE co[c].op # NoOp
  <2>1. o = co[c].op
    BY <1>4 DEF Calls
  <2>2. co[c].left > 0 /\ o.kind \in Waiting /\ AllOpened(o)
    BY <1>4, <2>1 DEF Typed, PendingCalls
  <2> QED
    BY <1>1, <1>2, <1>4, <2>1, <2>2
<1> QED
  BY <1>3, <1>4

-----------------------------------------------------------------------------
(* What calls do to the scheduler and its coroutines.                      *)

Scheduled ==
    /\ coroutines \in Seq(Co) /\ turn \in 0 .. Len(coroutines)
    /\ allBlocked \in BOOLEAN /\ progress \in BOOLEAN
    /\ quiet \in BOOLEAN /\ silent \in BOOLEAN

Control ==
    /\ Scheduled /\ co \in [Co -> CoState] /\ over \in BOOLEAN
    /\ menu \in Menus /\ signals \in 0 .. MaxSignals

CallsKept ==
    \A c \in Co : co'[c].op # NoOp =>
      co'[c].left > 0 /\ co'[c].op.kind \in Waiting /\ AllOpened(co'[c].op)

LEMMA ControlTypes ==
    ASSUME Typed
    PROVE  Control /\ Len(coroutines) \in Nat /\ turn \in Nat /\ MaxCalls \in Nat
BY CoroutinesAssumption DEF Typed, TypeOK, Control, Scheduled

LEMMA MovesControl ==
    ASSUME NEW list \in Seq(Co), NEW i \in 1 .. Len(list) + 1,
           NEW blocked \in BOOLEAN, NEW hushed \in BOOLEAN, MovesTo(i, list, blocked, hushed)
    PROVE  Scheduled'
<1>1. Len(list) \in Nat /\ (list # <<>> => Len(list) > 0)
  BY EmptySeq
<1>2. coroutines' = list /\ progress' = FALSE /\ quiet' = FALSE
  BY DEF MovesTo
<1>3. turn' \in 0 .. Len(list) /\ allBlocked' \in BOOLEAN /\ silent' \in BOOLEAN
  <2>1. \/ turn' = i /\ i <= Len(list) /\ allBlocked' = blocked /\ silent' = hushed
        \/ turn' = 0 /\ allBlocked' = TRUE /\ silent' = hushed
        \/ turn' = 1 /\ list # <<>> /\ allBlocked' = TRUE /\ silent' = FALSE
    BY Zenon DEF MovesTo
  <2>2. turn' \in 0 .. Len(list)
    BY <1>1, <2>1
  <2>3. allBlocked' \in BOOLEAN /\ silent' \in BOOLEAN
    BY <2>1, Zenon
  <2> QED
    BY <2>2, <2>3
<1> QED
  BY <1>2, <1>3 DEF Scheduled

LEMMA ReturnsControl ==
    ASSUME Typed, NEW c \in Co, NEW o, Calls(c, o), NEW W,
           NEW marks \in BOOLEAN, NEW enables \in BOOLEAN, Returns(c, W, marks, enables)
    PROVE  Control' /\ CallsKept
<1>1. Control /\ MaxCalls \in Nat /\ co[c].left \in 1 .. MaxCalls
  BY ControlTypes, Calling
<1>2. ASSUME NEW d \in Co
      PROVE  /\ co'[d] \in CoState
             /\ co'[d].op # NoOp => co'[d].op = co[d].op /\ co'[d].left = co[d].left
  <2>1. co[d] \in CoState
    BY <1>1 DEF Control
  <2>2. CASE d = c
    <3>1. co'[d] = [co[d] EXCEPT !.op = NoOp, !.woken = FALSE, !.waits = FALSE, !.left = @ - 1]
      BY <2>2 DEF Returns
    <3>2. co[d].left - 1 \in 0 .. MaxCalls
      BY <1>1, <2>2
    <3> QED
      BY <2>1, <3>1, <3>2 DEF CoState
  <2>3. CASE d # c
    <3>1. co'[d] \in {co[d], [co[d] EXCEPT !.woken = TRUE]}
      BY <2>3 DEF Returns
    <3> QED
      BY <2>1, <3>1 DEF CoState
  <2> QED
    BY <2>2, <2>3
<1>3. co' \in [Co -> CoState]
  BY <1>2 DEF Returns
<1>4. CallsKept
  BY <1>2 DEF CallsKept, Typed, PendingCalls
<1> QED
  BY <1>1, <1>3, <1>4 DEF Returns, Control, Scheduled, scheduling, outside

LEMMA YieldsControl ==
    ASSUME Typed, NEW c \in Co, NEW o, Calls(c, o), o.kind \in Waiting,
           NEW registers \in BOOLEAN, Yields(c, o, registers)
    PROVE  Control' /\ CallsKept
<1>1. /\ Control /\ MaxCalls \in Nat /\ co[c].left \in 1 .. MaxCalls
      /\ turn \in 1 .. Len(coroutines) /\ Len(coroutines) \in Nat
      /\ o \in AllCalls /\ AllOpened(o)
  BY ControlTypes, Calling
<1>2. Scheduled'
  <2>1. turn + 1 \in 1 .. Len(coroutines) + 1
    BY <1>1
  <2> QED
    BY <1>1, <2>1, MovesControl DEF Yields, YieldsTurn, Control, Scheduled
<1>3. ASSUME NEW d \in Co
      PROVE  /\ co'[d] \in CoState
             /\ d # c => co'[d] = co[d]
             /\ d = c => co'[d].op = o /\ co'[d].left = co[d].left
  <2>1. co \in [Co -> CoState] /\ co[d] \in CoState
    BY <1>1 DEF Control
  <2>2. CASE d # c
    BY <2>1, <2>2 DEF Yields
  <2>3. CASE d = c
    <3> DEFINE w == co[d].waits \/ registers
    <3>1. w \in BOOLEAN
      BY Zenon
    <3>2. co'[d] = [co[d] EXCEPT !.op = o, !.waits = w]
      BY <2>1, <2>3 DEF Yields
    <3> HIDE DEF w
    <3> QED
      BY <1>1, <2>1, <2>3, <3>1, <3>2 DEF CoState
  <2> QED
    BY <2>2, <2>3
<1>4. co' \in [Co -> CoState]
  BY <1>1, <1>3 DEF Yields, Control
<1>5. CallsKept
  BY <1>1, <1>3 DEF CallsKept, Typed, PendingCalls
<1> QED
  BY <1>1, <1>2, <1>4, <1>5 DEF Yields, Control, outside

LEMMA PanicsControl ==
    ASSUME Typed, NEW c \in Co, NEW o, Calls(c, o), Panics(c)
    PROVE  Control' /\ CallsKept
<1>1. Control /\ turn \in 1 .. Len(coroutines)
  BY ControlTypes, Calling
<1>2. coroutines' \in Seq(Co)
  BY <1>1, RemovedAt DEF Panics, Control, Scheduled
<1>3. turn' \in 0 .. Len(coroutines')
  BY <1>2, LenProperties DEF Panics
<1>4. ASSUME NEW d \in Co
      PROVE  co'[d] \in CoState /\ (co'[d].op # NoOp => co'[d] = co[d])
  <2>1. co[d] \in CoState /\ co \in [Co -> CoState]
    BY <1>1 DEF Control
  <2>2. co'[d] = IF d = c THEN [co[d] EXCEPT !.life = "finished", !.op = NoOp] ELSE co[d]
    BY <2>1 DEF Panics
  <2>3. CASE d = c
    <3>1. [co[d] EXCEPT !.life = "finished", !.op = NoOp] \in CoState
      BY <2>1 DEF CoState
    <3>2. [co[d] EXCEPT !.life = "finished", !.op = NoOp].op = NoOp
      BY <2>1 DEF CoState
    <3> QED
      BY <2>2, <2>3, <3>1, <3>2
  <2>4. CASE d # c
    BY <2>1, <2>2, <2>4
  <2> QED
    BY <2>3, <2>4
<1>5. co' \in [Co -> CoState]
  BY <1>1, <1>4 DEF Panics, Control
<1>6. CallsKept
  BY <1>4 DEF CallsKept, Typed, PendingCalls
<1> QED
  BY <1>1, <1>2, <1>3, <1>5, <1>6 DEF Panics, Control, Scheduled, outside

LEMMA SpawnsControl ==
    ASSUME Typed, NEW c \in Co, NEW o, Calls(c, o), o.kind \notin Waiting,
           NEW d \in Co, NEW g \in Groups \cup {NoCtx}, Spawns(c, d, g)
    PROVE  Control' /\ CallsKept
<1>1. /\ Control /\ MaxCalls \in Nat /\ co[c].left \in 1 .. MaxCalls
      /\ turn \in Nat /\ Len(coroutines) \in Nat /\ co[c].op = NoOp
  BY ControlTypes, Calling
<1>2. coroutines' \in Seq(Co) /\ Len(coroutines') = Len(coroutines) + 1
  BY <1>1, AppendProperties DEF Spawns, Control, Scheduled
<1>3. turn' \in 0 .. Len(coroutines')
  BY <1>1, <1>2 DEF Spawns, Control, Scheduled
<1>4. NewCo(g) \in CoState /\ NewCo(g).op = NoOp
  BY NewCoType DEF NewCo
<1>5. ASSUME NEW e \in Co
      PROVE  co'[e] \in CoState /\ (co'[e].op # NoOp => co'[e] = co[e])
  <2>1. co[e] \in CoState /\ co \in [Co -> CoState]
    BY <1>1 DEF Control
  <2>2. CASE e = d
    BY <1>4, <2>1, <2>2 DEF Spawns
  <2>3. CASE e = c /\ c # d
    <3>1. co'[e] = [co[c] EXCEPT !.left = @ - 1]
      BY <2>1, <2>3 DEF Spawns
    <3>2. co[c].left - 1 \in 0 .. MaxCalls
      BY <1>1
    <3> QED
      BY <1>1, <2>1, <2>3, <3>1, <3>2 DEF CoState
  <2>4. CASE e # c /\ e # d
    BY <2>1, <2>4 DEF Spawns
  <2> QED
    BY <2>2, <2>3, <2>4
<1>6. co' \in [Co -> CoState]
  BY <1>1, <1>5 DEF Spawns, Control
<1>7. CallsKept
  BY <1>5 DEF CallsKept, Typed, PendingCalls
<1> QED
  BY <1>1, <1>2, <1>3, <1>6, <1>7 DEF Spawns, Control, Scheduled, outside

-----------------------------------------------------------------------------
(* What calls do to channels.                                              *)

ChannelTypes ==
    /\ chan \in [Chan -> Channel] /\ delivered \in [Chan -> Seq(Value)]
    /\ \A h \in Chan : Len(chan[h].buffer) <= Size[h]
    /\ pending \in [Signals -> Seq(Value)] /\ opened \subseteq Signals
    /\ SignalsKept

LocalTypes ==
    /\ future \in [Fut -> {"none", "pending", "fired", "canceled"}]
    /\ ctx \in [Ctx -> Context] /\ group \in [Groups -> Group]

LEMMA Assembled ==
    ASSUME Control', CallsKept, ChannelTypes', LocalTypes', opened \subseteq opened'
    PROVE  Typed'
<1>1. TypeOK' /\ SignalsKept'
  BY DEF TypeOK, Control, Scheduled, ChannelTypes, LocalTypes
<1>2. \A k : Opened(k) => Opened(k)'
  BY DEF Opened
<1>3. \A o : AllOpened(o) => AllOpened(o)'
  BY <1>2 DEF AllOpened
<1>4. PendingCalls'
  BY <1>3 DEF PendingCalls, CallsKept
<1> QED
  BY <1>1, <1>4 DEF Typed

LEMMA DataTypes ==
    ASSUME Typed
    PROVE  /\ ChannelTypes /\ LocalTypes
           /\ \A h \in Chan :
                /\ chan[h].buffer \in Seq(Value) /\ chan[h].receivers \in Seq(Co \cup Fut)
                /\ chan[h].senders \in Seq(Value) /\ chan[h].closed \in BOOLEAN
                /\ Len(chan[h].buffer) \in Nat /\ Size[h] \in Nat
BY CoroutinesAssumption DEF Typed, TypeOK, ChannelTypes, LocalTypes, Channel

\* One channel changes.
LEMMA ChannelStep ==
    ASSUME Typed, NEW h \in Chan, NEW r \in Channel, chan' = [chan EXCEPT ![h] = r],
           Len(r.buffer) <= Size[h], h \in Signals \ opened => r.buffer = <<>>,
           NEW list \in Seq(Value),
           UNCHANGED delivered \/ delivered' = [delivered EXCEPT ![h] = list],
           UNCHANGED <<pending, opened>>
    PROVE  ChannelTypes' /\ opened \subseteq opened'
<1>1. ChannelTypes
  BY DataTypes
<1>2. chan' \in [Chan -> Channel] /\ chan'[h] = r /\ \A g \in Chan \ {h} : chan'[g] = chan[g]
  BY <1>1 DEF ChannelTypes
<1>3. delivered' \in [Chan -> Seq(Value)]
  BY <1>1 DEF ChannelTypes
<1>4. \A g \in Chan : Len(chan'[g].buffer) <= Size[g]
  BY <1>1, <1>2 DEF ChannelTypes
<1>5. SignalsKept'
  BY <1>1, <1>2, CoroutinesAssumption DEF ChannelTypes, SignalsKept
<1> QED
  BY <1>1, <1>2, <1>3, <1>4, <1>5 DEF ChannelTypes

LEMMA ValueAppended ==
    ASSUME NEW s \in Seq(Value), NEW v \in Value
    PROVE  Append(s, v) \in Seq(Value) /\ Len(Append(s, v)) = Len(s) + 1
BY AppendProperties

LEMMA HandOverTyped ==
    ASSUME Typed, NEW h \in Chan, NEW v \in Value, HandOver(h, v), UNCHANGED <<pending, opened>>
    PROVE  /\ ChannelTypes' /\ opened \subseteq opened'
           /\ Head(chan[h].receivers) \in Co \cup Fut
<1> DEFINE r == [chan[h] EXCEPT !.receivers = Tail(@)]
           list == Append(delivered[h], v)
<1>1. /\ chan[h] \in Channel /\ delivered[h] \in Seq(Value)
      /\ chan[h].receivers \in Seq(Co \cup Fut) /\ chan[h].receivers # <<>>
      /\ Len(chan[h].buffer) <= Size[h] /\ SignalsKept
  BY DataTypes DEF ChannelTypes, HandOver
<1>2. /\ Tail(chan[h].receivers) \in Seq(Co \cup Fut)
      /\ Head(chan[h].receivers) \in Co \cup Fut
  BY <1>1, TailElements
<1>3. r \in Channel /\ r.buffer = chan[h].buffer
  BY <1>1, <1>2 DEF Channel
<1>4. list \in Seq(Value)
  BY <1>1, ValueAppended
<1>5. chan' = [chan EXCEPT ![h] = r] /\ delivered' = [delivered EXCEPT ![h] = list]
  BY DEF HandOver, Receives
<1> HIDE DEF r, list
<1> QED
  BY <1>1, <1>2, <1>3, <1>4, <1>5, ChannelStep DEF SignalsKept

LEMMA PutInBufferTyped ==
    ASSUME Typed, NEW h \in Chan, NEW v \in Value, PutInBuffer(h, v), h \in Signals => h \in opened,
           UNCHANGED <<pending, opened>>
    PROVE  ChannelTypes' /\ opened \subseteq opened'
<1> DEFINE r == [chan[h] EXCEPT !.buffer = Append(@, v)]
<1>1. /\ chan[h] \in Channel /\ chan[h].buffer \in Seq(Value)
      /\ Len(chan[h].buffer) \in Nat /\ Size[h] \in Nat
      /\ Len(chan[h].buffer) < Size[h]
  BY DataTypes DEF ChannelTypes, PutInBuffer, HasCapacity
<1>2. /\ Append(chan[h].buffer, v) \in Seq(Value)
      /\ Len(Append(chan[h].buffer, v)) <= Size[h]
  BY <1>1, ValueAppended
<1>3. r \in Channel /\ r.buffer = Append(chan[h].buffer, v)
  BY <1>1, <1>2 DEF Channel
<1>4. chan' = [chan EXCEPT ![h] = r] /\ UNCHANGED delivered
  BY DEF PutInBuffer
<1> HIDE DEF r
<1> QED
  BY <1>2, <1>3, <1>4, EmptySeq, ChannelStep

LEMMA TakeFromSenderTyped ==
    ASSUME Typed, NEW h \in Chan, TakeFromSender(h), UNCHANGED <<pending, opened>>
    PROVE  ChannelTypes' /\ opened \subseteq opened' /\ Head(chan[h].senders) \in Value
<1> DEFINE r == [chan[h] EXCEPT !.senders = Tail(@)]
           list == Append(delivered[h], Head(chan[h].senders))
<1>1. /\ chan[h] \in Channel /\ delivered[h] \in Seq(Value)
      /\ chan[h].senders \in Seq(Value) /\ chan[h].senders # <<>>
      /\ Len(chan[h].buffer) <= Size[h] /\ SignalsKept
  BY DataTypes DEF ChannelTypes, TakeFromSender
<1>2. Tail(chan[h].senders) \in Seq(Value) /\ Head(chan[h].senders) \in Value
  BY <1>1, TailElements
<1>3. r \in Channel /\ r.buffer = chan[h].buffer
  BY <1>1, <1>2 DEF Channel
<1>4. list \in Seq(Value)
  BY <1>1, <1>2, ValueAppended
<1>5. chan' = [chan EXCEPT ![h] = r] /\ delivered' = [delivered EXCEPT ![h] = list]
  BY DEF TakeFromSender, Receives
<1> HIDE DEF r, list
<1> QED
  BY <1>1, <1>2, <1>3, <1>4, <1>5, ChannelStep DEF SignalsKept

LEMMA TakeFromBufferTyped ==
    ASSUME Typed, NEW h \in Chan, TakeFromBuffer(h), UNCHANGED <<pending, opened>>
    PROVE  ChannelTypes' /\ opened \subseteq opened'
<1> DEFINE r == [chan[h] EXCEPT !.buffer = Tail(@)]
           list == Append(delivered[h], Head(chan[h].buffer))
<1>1. /\ chan[h] \in Channel /\ delivered[h] \in Seq(Value)
      /\ chan[h].buffer \in Seq(Value) /\ chan[h].buffer # <<>>
      /\ Len(chan[h].buffer) \in Nat /\ Size[h] \in Nat
      /\ Len(chan[h].buffer) <= Size[h] /\ (h \in Signals => h \in opened)
  BY DataTypes DEF ChannelTypes, SignalsKept, TakeFromBuffer
<1>2. /\ Tail(chan[h].buffer) \in Seq(Value) /\ Head(chan[h].buffer) \in Value
      /\ Len(Tail(chan[h].buffer)) = Len(chan[h].buffer) - 1
  BY <1>1, TailElements
<1>3. r \in Channel /\ r.buffer = Tail(chan[h].buffer)
  BY <1>1, <1>2 DEF Channel
<1>4. list \in Seq(Value)
  BY <1>1, <1>2, ValueAppended
<1>5. chan' = [chan EXCEPT ![h] = r] /\ delivered' = [delivered EXCEPT ![h] = list]
  BY DEF TakeFromBuffer, Receives
<1>6. Len(r.buffer) <= Size[h]
  BY <1>1, <1>2, <1>3
<1> HIDE DEF r, list
<1> QED
  BY <1>1, <1>3, <1>4, <1>5, <1>6, ChannelStep

LEMMA SameData ==
    ASSUME Typed, UNCHANGED <<chan, pending, opened, delivered>>
    PROVE  ChannelTypes' /\ opened \subseteq opened'
<1>1. ChannelTypes
  BY DataTypes
<1> QED
  BY <1>1 DEF ChannelTypes, SignalsKept

\* The channel of a call, and the value it sends.
LEMMA SelectedChannel ==
    ASSUME Typed, NEW c \in Co, NEW o, Calls(c, o), NEW k, k = Selected(o),
           k.kind \in {"send", "sendNB", "receive", "receiveNB"}
    PROVE  /\ k.on \in Chan /\ (k.kind \in {"send", "sendNB"} => k.on \notin Ctx)
           /\ k.on \in Signals => k.on \in opened
           /\ k.kind \in {"send", "receive"} => o.kind \in Waiting
           /\ o.kind # "select" => k = o
           /\ o.kind = "select" => k.kind \in {"send", "receive"} /\ CaseReady(k)
           /\ Call(c) \in Value
<1>1. o \in AllCalls /\ AllOpened(o) /\ co[c].left \in 1 .. MaxCalls
  BY Calling
<1>2. k # NoOp
  BY DEF NoOp
<1>3. Call(c) \in Value
  BY <1>1, CoroutinesAssumption DEF Call, Value
<1>4. CASE o.kind # "select"
  BY <1>1, <1>3, <1>4, SelectedCall, CallArguments DEF AllOpened, Opened, Waiting
<1>5. CASE o.kind = "select"
  <2>1. /\ CaseReady(k) /\ k.kind \in CaseKinds
        /\ k.kind # "default" => WellFormed(k)
        /\ \E i \in DOMAIN o.cases : k = o.cases[i]
    BY <1>1, <1>2, <1>5, SelectedCall
  <2>2. Opened(k)
    BY <1>1, <1>5, <2>1 DEF AllOpened
  <2> QED
    BY <1>3, <1>5, <2>1, <2>2, CallArguments DEF CaseKinds, Opened, Waiting
<1> QED
  BY <1>4, <1>5

LEMMA SendTyped ==
    ASSUME Typed, NEW c \in Co, NEW o, Send(c, o)
    PROVE  Typed'
<1> DEFINE k == Selected(o)
           h == k.on
           v == Call(c)
           blocking == k.kind = "send"
<1>1. /\ Calls(c, o) /\ k.kind \in {"send", "sendNB"}
      /\ UNCHANGED <<future, ctx, group, pending, opened>>
  BY DEF Send
<1>2. /\ h \in Chan /\ h \notin Ctx /\ v \in Value /\ (h \in Signals => h \in opened)
      /\ k.kind = "send" => o.kind \in Waiting
  BY <1>1, SelectedChannel
<1>3. LocalTypes'
  BY <1>1, DataTypes DEF LocalTypes
<1>4. blocking \in BOOLEAN /\ (~blocking) \in BOOLEAN
  BY Zenon
<1>5. \/ Panics(c) /\ UNCHANGED <<chan, delivered>>
      \/ HandOver(h, v) /\ Returns(c, {Head(chan[h].receivers)}, blocking, ~blocking)
      \/ PutInBuffer(h, v) /\ Returns(c, {}, blocking, ~blocking)
      \/ Returns(c, {}, FALSE, FALSE) /\ UNCHANGED <<chan, delivered>>
      \/ /\ blocking /\ Yields(c, o, TRUE) /\ UNCHANGED delivered
         /\ \/ UNCHANGED chan
            \/ chan' = [chan EXCEPT ![h].senders = Append(@, v)]
  BY DEF Send
<1> HIDE DEF k, h, v, blocking
<1>6. Control' /\ CallsKept
  <2>1. blocking => o.kind \in Waiting
    BY <1>2 DEF blocking
  <2> QED
    BY <1>1, <1>4, <1>5, <2>1, PanicsControl, ReturnsControl, YieldsControl
<1>7. ChannelTypes' /\ opened \subseteq opened'
  <2>1. ASSUME chan' = [chan EXCEPT ![h].senders = Append(@, v)], UNCHANGED delivered
        PROVE  ChannelTypes' /\ opened \subseteq opened'
    <3> DEFINE r == [chan[h] EXCEPT !.senders = Append(@, v)]
    <3>1. /\ chan[h] \in Channel /\ chan[h].senders \in Seq(Value)
          /\ Len(chan[h].buffer) <= Size[h]
      BY <1>2, DataTypes DEF ChannelTypes
    <3>2. r \in Channel /\ r.buffer = chan[h].buffer
      BY <1>2, <3>1, ValueAppended DEF Channel
    <3>3. chan' = [chan EXCEPT ![h] = r]
      BY <2>1
    <3> HIDE DEF r
    <3> QED
      BY <1>1, <1>2, <2>1, <3>1, <3>2, <3>3, EmptySeq, ChannelStep
  <2> QED
    BY <1>1, <1>2, <1>5, <2>1, HandOverTyped, PutInBufferTyped, SameData
<1> QED
  BY <1>3, <1>6, <1>7, Assembled

LEMMA ReceiveTyped ==
    ASSUME Typed, NEW c \in Co, NEW o, Receive(c, o)
    PROVE  Typed'
<1> DEFINE k == Selected(o)
           h == k.on
           blocking == k.kind = "receive"
<1>1. /\ Calls(c, o) /\ k.kind \in {"receive", "receiveNB"}
      /\ UNCHANGED <<future, ctx, group, pending, opened>>
  BY DEF Receive
<1>2. h \in Chan /\ (k.kind = "receive" => o.kind \in Waiting)
  BY <1>1, SelectedChannel
<1>3. LocalTypes'
  BY <1>1, DataTypes DEF LocalTypes
<1>4. blocking \in BOOLEAN /\ (~blocking) \in BOOLEAN
  BY Zenon
<1>5. \/ TakeFromBuffer(h) /\ Returns(c, {}, blocking, ~blocking)
      \/ /\ TakeFromSender(h)
         /\ Returns(c, SenderOf(Head(chan[h].senders)), blocking, ~blocking)
      \/ Returns(c, {}, blocking, FALSE) /\ UNCHANGED <<chan, delivered>>
      \/ Returns(c, {}, FALSE, FALSE) /\ UNCHANGED <<chan, delivered>>
      \/ /\ blocking /\ Yields(c, o, TRUE) /\ UNCHANGED delivered
         /\ \/ UNCHANGED chan
            \/ chan' = [chan EXCEPT ![h].receivers = Append(@, c)]
  BY DEF Receive
<1> HIDE DEF k, h, blocking
<1>6. Control' /\ CallsKept
  <2>1. blocking => o.kind \in Waiting
    BY <1>2 DEF blocking
  <2> QED
    BY <1>1, <1>4, <1>5, <2>1, ReturnsControl, YieldsControl
<1>7. ChannelTypes' /\ opened \subseteq opened'
  <2>1. ASSUME chan' = [chan EXCEPT ![h].receivers = Append(@, c)], UNCHANGED delivered
        PROVE  ChannelTypes' /\ opened \subseteq opened'
    <3> DEFINE r == [chan[h] EXCEPT !.receivers = Append(@, c)]
    <3>1. /\ chan[h] \in Channel /\ chan[h].receivers \in Seq(Co \cup Fut)
          /\ Len(chan[h].buffer) <= Size[h] /\ SignalsKept
      BY <1>2, DataTypes DEF ChannelTypes
    <3>2. r \in Channel /\ r.buffer = chan[h].buffer
      BY <3>1, AppendProperties DEF Channel
    <3>3. chan' = [chan EXCEPT ![h] = r]
      BY <2>1
    <3> HIDE DEF r
    <3> QED
      BY <1>1, <1>2, <2>1, <3>1, <3>2, <3>3, EmptySeq, ChannelStep DEF SignalsKept
  <2> QED
    BY <1>1, <1>2, <1>5, <2>1, TakeFromBufferTyped, TakeFromSenderTyped, SameData
<1> QED
  BY <1>3, <1>6, <1>7, Assembled

\* No buffer changes.
LEMMA BuffersKept ==
    ASSUME Typed, chan' \in [Chan -> Channel],
           \A h \in Chan : chan'[h].buffer = chan[h].buffer,
           UNCHANGED <<pending, opened, delivered>>
    PROVE  ChannelTypes' /\ opened \subseteq opened'
<1>1. ChannelTypes
  BY DataTypes
<1>2. SignalsKept'
  BY <1>1, CoroutinesAssumption DEF ChannelTypes, SignalsKept
<1> QED
  BY <1>1, <1>2 DEF ChannelTypes

LEMMA CloseChanTyped ==
    ASSUME Typed, NEW c \in Co, NEW o, CloseChan(c, o)
    PROVE  Typed'
<1>1. /\ Calls(c, o) /\ o.kind = "close"
      /\ UNCHANGED <<future, ctx, group, pending, opened, delivered>>
  BY DEF CloseChan
<1>2. o.on \in Chan
  BY <1>1, Calling, SelectedCall, CallArguments
<1>3. /\ chan \in [Chan -> Channel]
      /\ \/ Panics(c) /\ chan' = [chan EXCEPT ![o.on].closed = TRUE]
         \/ /\ Returns(c, ToSet(chan[o.on].receivers), FALSE, TRUE)
            /\ chan' = [chan EXCEPT ![o.on].closed = TRUE, ![o.on].receivers = <<>>]
  BY DataTypes DEF ChannelTypes, CloseChan
<1>4. Control' /\ CallsKept
  BY <1>1, <1>3, PanicsControl, ReturnsControl
<1>5. ChannelTypes' /\ opened \subseteq opened'
  <2>1. ASSUME NEW h \in Chan
        PROVE  chan'[h] \in Channel /\ chan'[h].buffer = chan[h].buffer
    <3>1. chan[h] \in Channel /\ <<>> \in Seq(Co \cup Fut)
      BY <1>3, EmptySeq
    <3>2. \/ chan'[h] = chan[h]
          \/ chan'[h] = [chan[h] EXCEPT !.closed = TRUE]
          \/ chan'[h] = [chan[h] EXCEPT !.closed = TRUE, !.receivers = <<>>]
      BY <1>2, <1>3
    <3> QED
      BY <3>1, <3>2 DEF Channel
  <2>2. chan' \in [Chan -> Channel]
    BY <1>3, <2>1
  <2> QED
    BY <1>1, <2>1, <2>2, BuffersKept
<1>6. LocalTypes'
  BY <1>1, DataTypes DEF LocalTypes
<1> QED
  BY <1>4, <1>5, <1>6, Assembled

-----------------------------------------------------------------------------
(* Selectors, futures, coroutines and groups.                              *)

\* Calls that leave the data alone.
LEMMA LeavesDataTyped ==
    ASSUME Typed, NEW c \in Co, NEW o,
           Answered(c, o) \/ SelectYields(c, o) \/ SelectDefault(c, o) \/ Get(c, o) \/ Go(c, o)
    PROVE  Typed'
<1>1. Calls(c, o) /\ UNCHANGED data
  BY DEF Answered, SelectYields, SelectDefault, Get, Go
<1>2. o \in AllCalls
  BY <1>1, Calling
<1>3. (o.kind = "get") \in BOOLEAN
  BY Zenon
<1>4. \/ \E marks \in BOOLEAN : Returns(c, {}, marks, FALSE)
      \/ o.kind \in Waiting /\ Yields(c, o, FALSE)
      \/ o.kind = "go" /\ Spawns(c, o.co, NoCtx)
  <2>1. CASE Answered(c, o)
    BY <2>1 DEF Answered
  <2>2. CASE SelectYields(c, o)
    BY <1>2, <2>2, SelectedCall DEF SelectYields, Waiting
  <2>3. CASE SelectDefault(c, o)
    BY <2>3 DEF SelectDefault
  <2>4. CASE Get(c, o)
    <3>1. o.kind \in Waiting
      BY <1>2, <2>4, SelectedCall DEF Get, Waiting
    <3>2. Returns(c, {}, o.kind = "get", FALSE) \/ Yields(c, o, FALSE)
      BY <2>4, Zenon DEF Get
    <3> QED
      BY <1>3, <3>1, <3>2
  <2>5. CASE Go(c, o)
    BY <2>5 DEF Go
  <2> QED
    BY <2>1, <2>2, <2>3, <2>4, <2>5
<1>5. Control' /\ CallsKept
  <2>1. CASE \E marks \in BOOLEAN : Returns(c, {}, marks, FALSE)
    BY <1>1, <2>1, ReturnsControl
  <2>2. CASE o.kind \in Waiting /\ Yields(c, o, FALSE)
    BY <1>1, <2>2, YieldsControl
  <2>3. CASE o.kind = "go" /\ Spawns(c, o.co, NoCtx)
    <3>1. o.co \in Co /\ o.kind \notin Waiting
      BY <1>2, <2>3, SelectedCall, CallArguments DEF Waiting
    <3> QED
      BY <1>1, <2>3, <3>1, SpawnsControl
  <2> QED
    BY <1>4, <2>1, <2>2, <2>3
<1>6. ChannelTypes' /\ opened \subseteq opened' /\ LocalTypes'
  BY <1>1, DataTypes, SameData DEF data, LocalTypes
<1> QED
  BY <1>5, <1>6, Assembled

\* One group changes.
LEMMA GroupStep ==
    ASSUME Typed, NEW g \in Groups, NEW r \in Group, group' = [group EXCEPT ![g] = r],
           UNCHANGED <<chan, future, ctx, pending, opened, delivered>>
    PROVE  ChannelTypes' /\ opened \subseteq opened' /\ LocalTypes'
BY DataTypes, SameData DEF LocalTypes

LEMMA GroupsTyped ==
    ASSUME Typed, NEW c \in Co, NEW o,
           GroupGo(c, o) \/ Add(c, o) \/ Done(c, o) \/ Wait(c, o)
    PROVE  Typed'
<1>1. /\ Calls(c, o) /\ o.kind \in {"goGroup", "add", "done", "wait"}
      /\ UNCHANGED <<chan, future, ctx, pending, opened, delivered>>
  BY DEF GroupGo, Add, Done, Wait
<1>2. /\ o.on \in Groups /\ (o.kind = "goGroup" => o.co \in Co)
      /\ o.kind = "wait" <=> o.kind \in Waiting
  BY <1>1, Calling, SelectedCall, CallArguments DEF Waiting
<1> DEFINE old == group[o.on]
<1>3. group \in [Groups -> Group] /\ old \in Group
  BY <1>2, DataTypes DEF LocalTypes
<1>4. Control' /\ CallsKept
  <2>1. \/ Panics(c)
        \/ o.kind = "goGroup" /\ Spawns(c, o.co, o.on)
        \/ \E marks \in BOOLEAN, enables \in BOOLEAN : Returns(c, {}, marks, enables)
        \/ o.kind = "wait" /\ Yields(c, o, TRUE)
    <3>1. CASE GroupGo(c, o)
      BY <3>1 DEF GroupGo
    <3>2. CASE Add(c, o)
      BY <3>2 DEF Add
    <3>3. CASE Done(c, o)
      BY <3>3 DEF Done
    <3>4. CASE Wait(c, o)
      BY <3>4, Zenon DEF Wait
    <3> QED
      BY <3>1, <3>2, <3>3, <3>4
  <2>2. CASE Panics(c)
    BY <1>1, <2>2, PanicsControl
  <2>3. CASE o.kind = "goGroup" /\ Spawns(c, o.co, o.on)
    BY <1>1, <1>2, <2>3, SpawnsControl DEF Waiting
  <2>4. CASE \E marks \in BOOLEAN, enables \in BOOLEAN : Returns(c, {}, marks, enables)
    BY <1>1, <2>4, ReturnsControl
  <2>5. CASE o.kind = "wait" /\ Yields(c, o, TRUE)
    BY <1>1, <1>2, <2>5, YieldsControl
  <2> QED
    BY <2>1, <2>2, <2>3, <2>4, <2>5
<1>5. \E r \in Group : group' = [group EXCEPT ![o.on] = r]
  <2>1. ASSUME group' = group PROVE group' = [group EXCEPT ![o.on] = old]
    BY <1>2, <1>3, <2>1
  <2>2. CASE GroupGo(c, o)
    <3>1. [old EXCEPT !.n = @ + 1] \in Group
      BY <1>3 DEF Group
    <3>2. group' = group \/ group' = [group EXCEPT ![o.on] = [old EXCEPT !.n = @ + 1]]
      BY <2>2 DEF GroupGo
    <3> QED
      BY <1>3, <2>1, <3>1, <3>2
  <2>3. CASE Add(c, o)
    <3>1. [old EXCEPT !.n = @ + 1] \in Group
      BY <1>3 DEF Group
    <3>2. group' = [group EXCEPT ![o.on] = [old EXCEPT !.n = @ + 1]]
      BY <2>3 DEF Add
    <3> QED
      BY <3>1, <3>2
  <2>4. CASE Done(c, o)
    <3> DEFINE ends == old.done \/ old.n = 1
    <3>1. ends \in BOOLEAN
      BY Zenon
    <3>2. group' = [group EXCEPT ![o.on] = [old EXCEPT !.n = @ - 1, !.done = ends]]
      BY <2>4 DEF Done
    <3> HIDE DEF ends
    <3>3. ASSUME NEW m \in Int, NEW b \in BOOLEAN
          PROVE  [old EXCEPT !.n = m, !.done = b] \in Group
      BY <1>3 DEF Group
    <3>4. [old EXCEPT !.n = @ - 1, !.done = ends] \in Group
      <4>1. old.n - 1 \in Int
        BY <1>3 DEF Group
      <4>2. [old EXCEPT !.n = old.n - 1, !.done = ends] \in Group
        BY <3>1, <3>3, <4>1
      <4> QED
        BY <4>2
    <3> QED
      BY <3>2, <3>4
  <2>5. CASE Wait(c, o)
    <3>1. [old EXCEPT !.waiting = TRUE] \in Group
      BY <1>3 DEF Group
    <3>2. group' = [group EXCEPT ![o.on] = [old EXCEPT !.waiting = TRUE]]
      BY <2>5 DEF Wait
    <3> QED
      BY <3>1, <3>2
  <2> QED
    BY <2>2, <2>3, <2>4, <2>5
<1>6. ChannelTypes' /\ opened \subseteq opened' /\ LocalTypes'
  BY <1>1, <1>2, <1>5, GroupStep
<1> QED
  BY <1>4, <1>6, Assembled

-----------------------------------------------------------------------------
(* Contexts, timers, signals and the end of a coroutine.                   *)

\* A cancellation closes channels, and changes no buffer.
LEMMA CancelsTyped ==
    ASSUME Typed, NEW x, Cancels(x), UNCHANGED <<pending, opened, delivered>>
    PROVE  /\ ChannelTypes' /\ opened \subseteq opened'
           /\ future' \in [Fut -> {"none", "pending", "fired", "canceled"}]
           /\ ctx' \in [Ctx -> Context]
<1>1. ChannelTypes /\ LocalTypes
  BY DataTypes
<1>2. ASSUME NEW h \in Chan
      PROVE  chan'[h] \in Channel /\ chan'[h].buffer = chan[h].buffer
  <2>1. chan[h] \in Channel /\ <<>> \in Seq(Co \cup Fut)
    BY <1>1, EmptySeq DEF ChannelTypes
  <2>2. chan'[h] = chan[h] \/ chan'[h] = [chan[h] EXCEPT !.closed = TRUE, !.receivers = <<>>]
    BY DEF Cancels
  <2> QED
    BY <2>1, <2>2 DEF Channel
<1>3. chan' \in [Chan -> Channel]
  BY <1>2 DEF Cancels
<1>4. future' \in [Fut -> {"none", "pending", "fired", "canceled"}]
  BY <1>1 DEF Cancels, LocalTypes
<1>5. ASSUME NEW y \in Ctx PROVE ctx'[y] \in Context
  <2>1. ctx[y] \in Context
    BY <1>1 DEF LocalTypes
  <2>2. \/ ctx'[y] = [ctx[y] EXCEPT !.status = "canceled", !.children = {}]
        \/ ctx'[y] = [ctx[y] EXCEPT !.children = @ \ Canceling(x)]
    BY DEF Cancels
  <2> QED
    BY <2>1, <2>2 DEF Context
<1>6. ctx' \in [Ctx -> Context]
  BY <1>5 DEF Cancels
<1> QED
  BY <1>2, <1>3, <1>4, <1>6, BuffersKept

LEMMA WithCancelTyped ==
    ASSUME Typed, NEW c \in Co, NEW o, WithCancel(c, o)
    PROVE  Typed'
<1> DEFINE late == ctx[o.parent].status = "canceled"
<1>1. /\ Calls(c, o) /\ o.kind = "withCancel" /\ Returns(c, {}, late, FALSE)
      /\ chan' = [chan EXCEPT ![o.on].closed = late]
      /\ UNCHANGED <<future, group, pending, opened, delivered>>
      /\ ctx' = IF late
                THEN [ctx EXCEPT ![o.on].status = "canceled", ![o.on].parent = o.parent]
                ELSE [ctx EXCEPT ![o.on].status = "live", ![o.on].parent = o.parent,
                                 ![o.parent].children = @ \cup {o.on}]
  BY DEF WithCancel
<1>2. o.on \in Ctx /\ o.parent \in Ctx
  BY <1>1, Calling, SelectedCall, CallArguments
<1>3. ChannelTypes /\ LocalTypes
  BY DataTypes
<1>4. late \in BOOLEAN
  BY Zenon
<1> HIDE DEF late
<1>5. Control' /\ CallsKept
  BY <1>1, <1>4, ReturnsControl
<1>6. ChannelTypes' /\ opened \subseteq opened'
  <2>1. ASSUME NEW h \in Chan
        PROVE  chan'[h] \in Channel /\ chan'[h].buffer = chan[h].buffer
    <3>1. chan[h] \in Channel
      BY <1>3 DEF ChannelTypes
    <3>2. chan'[h] = chan[h] \/ chan'[h] = [chan[h] EXCEPT !.closed = late]
      BY <1>1, <1>3 DEF ChannelTypes
    <3> QED
      BY <1>4, <3>1, <3>2 DEF Channel
  <2>2. chan' \in [Chan -> Channel]
    BY <1>1, <1>3, <2>1 DEF ChannelTypes
  <2> QED
    BY <1>1, <2>1, <2>2, BuffersKept
<1>7. ctx' \in [Ctx -> Context]
  <2>1. ctx \in [Ctx -> Context]
    BY <1>3 DEF LocalTypes
  <2>2. ASSUME NEW new \in {"live", "canceled"}
        PROVE  [ctx EXCEPT ![o.on].status = new, ![o.on].parent = o.parent]
                 \in [Ctx -> Context]
    BY <1>2, <2>1 DEF Context
  <2> DEFINE born == [ctx EXCEPT ![o.on].status = "live", ![o.on].parent = o.parent]
  <2>3. CASE late
    BY <1>1, <2>2, <2>3
  <2>4. CASE ~late
    <3>1. born \in [Ctx -> Context]
      BY <2>2
    <3>2. ctx' = [born EXCEPT ![o.parent].children = @ \cup {o.on}]
      BY <1>1, <2>4
    <3> HIDE DEF born
    <3> QED
      BY <1>2, <3>1, <3>2 DEF Context
  <2> QED
    BY <2>3, <2>4
<1>8. LocalTypes'
  BY <1>1, <1>3, <1>7 DEF LocalTypes
<1> QED
  BY <1>5, <1>6, <1>8, Assembled

LEMMA DisconnectTyped ==
    ASSUME Typed, NEW c \in Co, NEW o, Disconnect(c, o)
    PROVE  Typed'
<1>1. /\ Calls(c, o) /\ o.kind = "disconnect" /\ Returns(c, {}, FALSE, FALSE)
      /\ UNCHANGED <<chan, future, group, pending, opened, delivered>>
      /\ ctx' = [ctx EXCEPT ![o.on].status = "live"]
  BY DEF Disconnect
<1>2. LocalTypes
  BY DataTypes
<1>3. ctx' \in [Ctx -> Context]
  <2>1. ctx \in [Ctx -> Context]
    BY <1>2 DEF LocalTypes
  <2>2. \A r \in Context : [r EXCEPT !.status = "live"] \in Context
    BY DEF Context
  <2>3. ctx' = [ctx EXCEPT ![o.on] = [ctx[o.on] EXCEPT !.status = "live"]]
    BY <1>1
  <2> QED
    BY <2>1, <2>2, <2>3
<1>4. LocalTypes'
  BY <1>1, <1>2, <1>3 DEF LocalTypes
<1>5. Control' /\ CallsKept
  BY <1>1, ReturnsControl
<1> QED
  BY <1>1, <1>4, <1>5, SameData, Assembled

LEMMA CancelTyped ==
    ASSUME Typed, NEW c \in Co, NEW o, Cancel(c, o)
    PROVE  Typed'
<1>1. /\ Calls(c, o) /\ Cancels(o.on) /\ Returns(c, Notified(o.on) \cap Co, FALSE, TRUE)
      /\ UNCHANGED <<group, pending, opened, delivered>>
  BY DEF Cancel
<1>2. LocalTypes'
  BY <1>1, DataTypes, CancelsTyped DEF LocalTypes
<1> QED
  BY <1>1, <1>2, CancelsTyped, ReturnsControl, Assembled

LEMMA ScheduleTimerTyped ==
    ASSUME Typed, NEW c \in Co, NEW o, ScheduleTimer(c, o)
    PROVE  Typed'
<1>1. /\ Calls(c, o) /\ o.kind = "timer" /\ Returns(c, {}, FALSE, FALSE)
      /\ future' = [future EXCEPT ![o.on] =
                      IF ctx[o.parent].status = "canceled" THEN "canceled" ELSE "pending"]
      /\ UNCHANGED <<ctx, group, pending, opened, delivered>>
      /\ chan' = chan \/ chan' = [chan EXCEPT ![o.parent].receivers = Append(@, o.on)]
  BY DEF ScheduleTimer
<1>2. o.on \in Fut /\ o.parent \in Ctx
  BY <1>1, Calling, SelectedCall, CallArguments
<1>3. ChannelTypes /\ LocalTypes
  BY DataTypes
<1>4. ChannelTypes' /\ opened \subseteq opened'
  <2>1. ASSUME NEW h \in Chan
        PROVE  chan'[h] \in Channel /\ chan'[h].buffer = chan[h].buffer
    <3>1. /\ chan[h] \in Channel /\ chan[h].receivers \in Seq(Co \cup Fut)
          /\ Append(chan[h].receivers, o.on) \in Seq(Co \cup Fut)
      BY <1>2, DataTypes, AppendProperties DEF ChannelTypes
    <3>2. \/ chan'[h] = chan[h]
          \/ chan'[h] = [chan[h] EXCEPT !.receivers = Append(@, o.on)]
      BY <1>1, <1>3 DEF ChannelTypes
    <3> QED
      BY <3>1, <3>2 DEF Channel
  <2>2. chan' \in [Chan -> Channel]
    BY <1>1, <1>3, <2>1 DEF ChannelTypes
  <2> QED
    BY <1>1, <2>1, <2>2, BuffersKept
<1>5. LocalTypes'
  BY <1>1, <1>2, <1>3 DEF LocalTypes
<1> QED
  BY <1>1, <1>4, <1>5, ReturnsControl, Assembled

LEMMA Reversed ==
    ASSUME NEW S, NEW s \in Seq(S)
    PROVE  Reverse(s) \in Seq(S) /\ Len(Reverse(s)) = Len(s)
<1>1. Len(s) \in Nat
  OBVIOUS
<1>2. \A i \in 1 .. Len(s) : s[(Len(s) - i) + 1] \in S
  BY <1>1
<1>3. Reverse(s) = [i \in 1 .. Len(s) |-> s[(Len(s) - i) + 1]]
  BY DEF Reverse
<1> DEFINE r == [i \in 1 .. Len(s) |-> s[(Len(s) - i) + 1]]
<1>4. r \in [1 .. Len(s) -> S]
  BY <1>2
<1>5. r \in Seq(S) /\ Len(r) = Len(s)
  <2> HIDE DEF r
  <2>1. r \in Seq(S)
    BY <1>1, <1>4, IsASeq
  <2>2. DOMAIN r = 1 .. Len(s)
    BY <1>4
  <2> QED
    BY <1>1, <2>1, <2>2, LenProperties
<1> QED
  BY <1>3, <1>5

LEMMA SignalChannelTyped ==
    ASSUME Typed, NEW c \in Co, NEW o, SignalChannel(c, o)
    PROVE  Typed'
<1> DEFINE s == o.on
           kept == Reverse(pending[s])
           r == [chan[s] EXCEPT !.buffer = @ \o kept]
<1>1. /\ Calls(c, o) /\ o.kind = "signalChannel" /\ opened' = opened \cup {s}
      /\ chan' = [chan EXCEPT ![s] = r] /\ pending' = [pending EXCEPT ![s] = <<>>]
      /\ Returns(c, {}, pending[s] # <<>>, FALSE)
      /\ UNCHANGED <<future, ctx, group, delivered>>
  BY DEF SignalChannel
<1>2. s \in Signals
  BY <1>1, Calling, SelectedCall, CallArguments
<1>3. s \in Chan /\ Size[s] \in Nat
  BY <1>2, CoroutinesAssumption
<1>4. ChannelTypes /\ LocalTypes /\ chan[s] \in Channel /\ chan[s].buffer \in Seq(Value)
  BY <1>3, DataTypes DEF ChannelTypes
<1> HIDE DEF s, r
<1>5. Control' /\ CallsKept
  <2>1. (pending[s] # <<>>) \in BOOLEAN
    BY Zenon
  <2> QED
    BY <1>1, <2>1, ReturnsControl
<1>6. r \in Channel /\ Len(r.buffer) <= Size[s]
  <2>1. pending[s] \in Seq(Value)
    BY <1>2, <1>4 DEF ChannelTypes
  <2>2. kept \in Seq(Value) /\ Len(kept) = Len(pending[s])
    BY <2>1, Reversed
  <2> HIDE DEF kept
  <2>3. /\ chan[s].buffer \o kept \in Seq(Value)
        /\ Len(chan[s].buffer \o kept) = Len(chan[s].buffer) + Len(pending[s])
    <3>1. /\ chan[s].buffer \o kept \in Seq(Value)
          /\ Len(chan[s].buffer \o kept) = Len(chan[s].buffer) + Len(kept)
      BY <1>4, <2>2, ConcatProperties
    <3> QED
      BY <2>2, <3>1
  <2>4. Len(chan[s].buffer) + Len(pending[s]) <= Size[s]
    <3>1. Len(pending[s]) \in Nat /\ Len(chan[s].buffer) \in Nat
      BY <1>4, <2>1, LenProperties
    <3>2. CASE s \in opened
      BY <1>2, <1>3, <1>4, <3>1, <3>2, EmptySeq DEF ChannelTypes, SignalsKept
    <3>3. CASE s \notin opened
      BY <1>2, <1>3, <1>4, <3>1, <3>3, EmptySeq DEF ChannelTypes, SignalsKept
    <3> QED
      BY <3>2, <3>3
  <2>5. r \in Channel /\ r.buffer = chan[s].buffer \o kept
    BY <1>4, <2>3 DEF Channel, r
  <2> QED
    BY <2>3, <2>4, <2>5
<1>7. ChannelTypes'
  <2>1. chan' \in [Chan -> Channel] /\ pending' \in [Signals -> Seq(Value)]
    BY <1>1, <1>4, <1>6, EmptySeq DEF ChannelTypes
  <2>2. \A h \in Chan : Len(chan'[h].buffer) <= Size[h]
    BY <1>1, <1>4, <1>6 DEF ChannelTypes
  <2>3. SignalsKept'
    BY <1>1, <1>2, <1>4, CoroutinesAssumption DEF ChannelTypes, SignalsKept
  <2> QED
    BY <1>1, <1>2, <1>4, <2>1, <2>2, <2>3 DEF ChannelTypes
<1>8. LocalTypes'
  BY <1>1, <1>4 DEF LocalTypes
<1>9. opened \subseteq opened'
  BY <1>1
<1> QED
  BY <1>5, <1>7, <1>8, <1>9, Assembled

\* What leaves life, calls and their number alone, or ends a coroutine.
LEMMA CoroutinesKept ==
    ASSUME Typed, co' \in [Co -> CoState],
           \A d \in Co : co'[d].op = co[d].op /\ co'[d].left = co[d].left
    PROVE  CallsKept
BY DEF CallsKept, Typed, PendingCalls

LEMMA FinishTyped ==
    ASSUME Typed, NEW c \in Co, NEW err \in BOOLEAN, Finish(c, err)
    PROVE  Typed'
<1> DEFINE g == co[c].group
           cancels == g # NoCtx /\ err /\ ~group[g].err
<1>1. Control /\ LocalTypes /\ ChannelTypes /\ Len(coroutines) \in Nat
  BY ControlTypes, DataTypes
<1>2. /\ turn \in 1 .. Len(coroutines) /\ coroutines \in Seq(Co) /\ silent \in BOOLEAN
      /\ MovesTo(turn, RemoveAt(coroutines, turn), FALSE, silent)
  <2>1. turn > 0 /\ EndsTurn
    BY DEF Finish, Runs
  <2>2. MovesTo(turn, RemoveAt(coroutines, turn), FALSE, silent)
    BY <2>1 DEF EndsTurn
  <2>3. Scheduled
    BY <1>1 DEF Control
  <2>4. coroutines \in Seq(Co) /\ turn \in 0 .. Len(coroutines) /\ silent \in BOOLEAN
    BY <2>3 DEF Scheduled
  <2>5. turn \in 1 .. Len(coroutines)
    BY <1>1, <2>1, <2>4
  <2> QED
    BY <2>2, <2>4, <2>5, Zenon
<1>3. Scheduled'
  <2>1. /\ RemoveAt(coroutines, turn) \in Seq(Co)
        /\ turn \in 1 .. Len(RemoveAt(coroutines, turn)) + 1
    BY <1>1, <1>2, RemovedAt
  <2> HIDE DEF MovesTo
  <2> QED
    BY <1>2, <2>1, MovesControl
<1>4. ASSUME NEW d \in Co
      PROVE  co'[d] \in CoState /\ co'[d].op = co[d].op /\ co'[d].left = co[d].left
  <2>1. co[d] \in CoState
    BY <1>1 DEF Control
  <2>2. \/ co'[d] = co[d]
        \/ co'[d] = [co[d] EXCEPT !.life = "finished"]
        \/ co'[d] = [co[d] EXCEPT !.woken = TRUE]
    BY DEF Finish
  <2> QED
    BY <2>1, <2>2 DEF CoState
<1>5. co' \in [Co -> CoState]
  BY <1>4 DEF Finish
<1>6. Control' /\ CallsKept
  BY <1>1, <1>3, <1>4, <1>5, CoroutinesKept DEF Control, Finish, outside
<1>7. g \in Groups \cup {NoCtx}
  BY <1>1 DEF Control, CoState
<1>8. group' \in [Groups -> Group]
  <2>1. CASE g = NoCtx
    BY <1>1, <2>1 DEF Finish, LocalTypes
  <2>2. CASE g # NoCtx
    <3> DEFINE old == group[g]
               ends == old.done \/ old.n = 1
               failed == old.err \/ err
    <3>1. ends \in BOOLEAN /\ failed \in BOOLEAN
      BY Zenon
    <3>2. group' = [group EXCEPT ![g] = [old EXCEPT !.n = old.n - 1, !.done = ends,
                                                    !.err = failed]]
      BY <2>2 DEF Finish
    <3>3. old \in Group /\ old.n - 1 \in Int
      BY <1>1, <1>7, <2>2 DEF LocalTypes, Group
    <3> HIDE DEF ends, failed
    <3>4. ASSUME NEW m \in Int, NEW b \in BOOLEAN, NEW f \in BOOLEAN
          PROVE  [old EXCEPT !.n = m, !.done = b, !.err = f] \in Group
      BY <3>3 DEF Group
    <3>5. [old EXCEPT !.n = old.n - 1, !.done = ends, !.err = failed] \in Group
      BY <3>1, <3>3, <3>4
    <3> QED
      BY <1>1, <3>2, <3>5 DEF LocalTypes
  <2> QED
    BY <2>1, <2>2
<1>9. ChannelTypes' /\ opened \subseteq opened'
      /\ ctx' \in [Ctx -> Context]
      /\ future' \in [Fut -> {"none", "pending", "fired", "canceled"}]
  <2>1. UNCHANGED <<pending, opened, delivered>>
    BY DEF Finish
  <2>2. CASE UNCHANGED <<chan, future, ctx>>
    BY <1>1, <2>1, <2>2, SameData DEF LocalTypes
  <2>3. CASE Cancels(g)
    BY <2>1, <2>3, CancelsTyped DEF LocalTypes
  <2>4. UNCHANGED <<chan, future, ctx>> \/ Cancels(g)
    BY Zenon DEF Finish
  <2> QED
    BY <2>2, <2>3, <2>4
<1> QED
  BY <1>6, <1>8, <1>9, Assembled DEF LocalTypes

LEMMA StartsRoundControl ==
    ASSUME Typed, StartsRound
    PROVE  Scheduled'
<1>1. Scheduled /\ Len(coroutines) \in Nat
  BY ControlTypes DEF Control
<1>2. coroutines # <<>> => Len(coroutines) # 0
  BY <1>1, EmptySeq DEF Scheduled
<1>3. turn' \in 0 .. Len(coroutines)
  <2>1. turn' = 0 \/ (turn' = 1 /\ coroutines # <<>>)
    BY DEF StartsRound
  <2> QED
    BY <1>1, <1>2, <2>1
<1> QED
  BY <1>1, <1>3 DEF StartsRound, Scheduled

LEMMA Woken ==
    ASSUME Typed, \A d \in Co : co'[d] \in {co[d], [co[d] EXCEPT !.woken = TRUE],
                                            [co[d] EXCEPT !.life = "finished"]},
           co' = [d \in Co |-> co'[d]]
    PROVE  co' \in [Co -> CoState] /\ CallsKept
<1>1. ASSUME NEW d \in Co
      PROVE  co'[d] \in CoState /\ co'[d].op = co[d].op /\ co'[d].left = co[d].left
  <2>1. co[d] \in CoState
    BY ControlTypes DEF Control
  <2>2. CASE co'[d] = co[d]
    BY <2>1, <2>2
  <2>3. CASE co'[d] = [co[d] EXCEPT !.woken = TRUE]
    BY <2>1, <2>3 DEF CoState
  <2>4. CASE co'[d] = [co[d] EXCEPT !.life = "finished"]
    BY <2>1, <2>4 DEF CoState
  <2> QED
    BY <2>2, <2>3, <2>4
<1>2. co' \in [Co -> CoState]
  BY <1>1
<1> QED
  BY <1>1, <1>2, CoroutinesKept

LEMMA ReceiveSignalTyped ==
    ASSUME Typed, NEW s \in Signals, ReceiveSignal(s)
    PROVE  Typed'
<1> DEFINE v == <<Outside, signals>>
<1>1. /\ Control /\ ChannelTypes /\ LocalTypes /\ s \in Chan /\ Size[s] \in Nat
      /\ MaxSignals \in Nat /\ MaxCalls \in Nat
  BY ControlTypes, DataTypes, CoroutinesAssumption
<1>2. /\ signals < MaxSignals /\ signals' = signals + 1 /\ StartsRound
      /\ UNCHANGED <<menu, future, ctx, group, opened, over>>
  BY DEF ReceiveSignal
<1>3. v \in Value
  BY <1>1, <1>2 DEF Value, Control
<1>4. \/ /\ s \in opened /\ HandOver(s, v) /\ UNCHANGED pending
         /\ co' = [co EXCEPT ![Head(chan[s].receivers)].woken = TRUE]
      \/ s \in opened /\ PutInBuffer(s, v) /\ UNCHANGED <<co, pending>>
      \/ UNCHANGED <<chan, delivered, co, pending>>
      \/ /\ s \notin opened /\ Len(pending[s]) < Size[s]
         /\ pending' = [pending EXCEPT ![s] = Append(@, v)]
         /\ UNCHANGED <<chan, delivered, co>>
  BY DEF ReceiveSignal
<1> HIDE DEF v
<1>5. co' \in [Co -> CoState] /\ CallsKept
  <2>1. co \in [Co -> CoState]
    BY <1>1 DEF Control
  <2>2. \A d \in Co : co'[d] \in {co[d], [co[d] EXCEPT !.woken = TRUE]}
    BY <1>4, <2>1
  <2>3. co' = [d \in Co |-> co'[d]]
    BY <1>4, <2>1
  <2> QED
    BY <2>2, <2>3, Woken
<1>6. Control'
  BY <1>1, <1>2, <1>5, StartsRoundControl DEF Control
<1>7. ChannelTypes'
  <2>1. CASE s \in opened /\ HandOver(s, v) /\ UNCHANGED pending
    BY <1>1, <1>2, <1>3, <2>1, HandOverTyped
  <2>2. CASE s \in opened /\ PutInBuffer(s, v) /\ UNCHANGED pending
    BY <1>1, <1>2, <1>3, <2>2, PutInBufferTyped
  <2>3. CASE UNCHANGED <<chan, delivered, pending>>
    BY <1>2, <2>3, SameData
  <2>4. CASE /\ s \notin opened /\ Len(pending[s]) < Size[s]
             /\ pending' = [pending EXCEPT ![s] = Append(@, v)]
             /\ UNCHANGED <<chan, delivered>>
    <3>1. pending[s] \in Seq(Value) /\ Len(pending[s]) \in Nat
      BY <1>1 DEF ChannelTypes
    <3>2. Append(pending[s], v) \in Seq(Value) /\ Len(Append(pending[s], v)) <= Size[s]
      BY <1>1, <1>3, <2>4, <3>1, ValueAppended
    <3>3. pending' \in [Signals -> Seq(Value)]
      BY <1>1, <2>4, <3>2 DEF ChannelTypes
    <3>4. SignalsKept'
      BY <1>1, <1>2, <2>4, <3>2 DEF ChannelTypes, SignalsKept
    <3> QED
      BY <1>1, <1>2, <2>4, <3>3, <3>4 DEF ChannelTypes
  <2> QED
    BY <1>4, <2>1, <2>2, <2>3, <2>4
<1>8. LocalTypes' /\ opened \subseteq opened'
  BY <1>1, <1>2 DEF LocalTypes
<1> QED
  BY <1>5, <1>6, <1>7, <1>8, Assembled

LEMMA TimerFiredTyped ==
    ASSUME Typed, NEW f \in Fut, TimerFired(f)
    PROVE  Typed'
<1>1. /\ StartsRound /\ future' = [future EXCEPT ![f] = "fired"]
      /\ chan' = [h \in Chan |-> [chan[h] EXCEPT !.receivers = RemoveReceiveCallback(@, f)]]
      /\ UNCHANGED <<co, ctx, group, pending, opened, delivered, over, menu, signals>>
  BY DEF TimerFired, outside
<1>2. Control /\ ChannelTypes /\ LocalTypes
  BY ControlTypes, DataTypes
<1>3. Control' /\ CallsKept
  BY <1>1, <1>2, StartsRoundControl, CoroutinesKept DEF Control
<1>4. ChannelTypes'
  <2>1. ASSUME NEW h \in Chan
        PROVE  chan'[h] \in Channel /\ chan'[h].buffer = chan[h].buffer
    <3>1. /\ chan[h] \in Channel
          /\ RemoveReceiveCallback(chan[h].receivers, f) \in Seq(Co \cup Fut)
      BY <1>2, DataTypes, Removed DEF ChannelTypes
    <3>2. chan'[h] = [chan[h] EXCEPT !.receivers = RemoveReceiveCallback(@, f)]
      BY <1>1
    <3> QED
      BY <3>1, <3>2 DEF Channel
  <2>2. chan' \in [Chan -> Channel]
    BY <1>1, <2>1
  <2> QED
    BY <1>1, <2>1, <2>2, BuffersKept
<1>5. LocalTypes' /\ opened \subseteq opened'
  BY <1>1, <1>2 DEF LocalTypes
<1> QED
  BY <1>3, <1>4, <1>5, Assembled

LEMMA WorkflowCanceledTyped ==
    ASSUME Typed, WorkflowCanceled
    PROVE  Typed'
<1>1. /\ StartsRound /\ Cancels(Root)
      /\ co' = [d \in Co |-> IF d \in Notified(Root) THEN [co[d] EXCEPT !.woken = TRUE]
                             ELSE co[d]]
      /\ UNCHANGED <<group, pending, opened, delivered, over, menu, signals>>
  BY DEF WorkflowCanceled, outside
<1>2. Control /\ LocalTypes
  BY ControlTypes, DataTypes
<1>3. co' \in [Co -> CoState] /\ CallsKept
  <2>1. \A d \in Co : co'[d] \in {co[d], [co[d] EXCEPT !.woken = TRUE]}
    BY <1>1
  <2>2. co' = [d \in Co |-> co'[d]]
    BY <1>1
  <2> QED
    BY <2>1, <2>2, Woken
<1>4. Control'
  BY <1>1, <1>2, <1>3, StartsRoundControl DEF Control
<1>5. LocalTypes'
  BY <1>1, <1>2, CancelsTyped DEF LocalTypes
<1> QED
  BY <1>1, <1>3, <1>4, <1>5, CancelsTyped, Assembled

LEMMA ExitTyped ==
    ASSUME Typed, Exit
    PROVE  Typed'
<1>1. /\ over' = TRUE
      /\ co' = [c \in Co |-> IF c \in ToSet(coroutines)
                             THEN [co[c] EXCEPT !.life = "finished"] ELSE co[c]]
      /\ UNCHANGED <<scheduling, progress, quiet, data, outside>>
  BY DEF Exit
<1>2. Control /\ LocalTypes
  BY ControlTypes, DataTypes
<1>3. co' \in [Co -> CoState] /\ CallsKept
  <2>1. \A d \in Co : co'[d] \in {co[d], [co[d] EXCEPT !.life = "finished"]}
    BY <1>1
  <2>2. co' = [d \in Co |-> co'[d]]
    BY <1>1
  <2> QED
    BY <2>1, <2>2, Woken
<1>4. Control'
  BY <1>1, <1>2, <1>3 DEF Control, Scheduled, scheduling, outside
<1>5. ChannelTypes' /\ opened \subseteq opened' /\ LocalTypes'
  BY <1>1, <1>2, SameData DEF LocalTypes, data
<1> QED
  BY <1>3, <1>4, <1>5, Assembled

LEMMA NextTyped == Typed /\ [Next]_vars => Typed'
<1> SUFFICES ASSUME Typed, [Next]_vars PROVE Typed'
  OBVIOUS
<1>1. ASSUME NEW c \in Co, NEW o \in AllCalls, Step(c, o) PROVE Typed'
  BY <1>1, SendTyped, ReceiveTyped, CloseChanTyped, LeavesDataTyped, GroupsTyped,
     WithCancelTyped, DisconnectTyped, CancelTyped, ScheduleTimerTyped, SignalChannelTyped
  DEF Step
<1>2. CASE UNCHANGED vars
  <2>1. Control' /\ CallsKept
    BY <1>2, ControlTypes, CoroutinesKept
    DEF vars, Control, Scheduled
  <2>2. ChannelTypes' /\ LocalTypes' /\ opened \subseteq opened'
    BY <1>2, DataTypes, SameData DEF vars, LocalTypes
  <2> QED
    BY <2>1, <2>2, Assembled
<1> QED
  BY <1>1, <1>2, FinishTyped, ReceiveSignalTyped, TimerFiredTyped, WorkflowCanceledTyped,
     ExitTyped DEF Next

\* The state of the scheduler and of every primitive has its type; no buffer
\* holds more than its channel takes, also not when the signals kept for a
\* channel are sent on it (signals.go), which is why as many are kept.
THEOREM TypeCorrect == Spec => []TypeOK
<1>1. Typed => TypeOK
  BY DEF Typed
<1> QED
  BY InitTyped, NextTyped, <1>1, PTL DEF Spec

-----------------------------------------------------------------------------
(* Cancellation.  A live context is among the children of its parent, which *)
(* is live too: the cancellation of the parent finds it there.  A pending   *)
(* timer is registered once, with one live context.                         *)

At(f) == {x \in Ctx : f \in ToSet(chan[x].receivers)}

Tree ==
    \A x \in Ctx : LET p == ctx[x].parent IN
      p # NoCtx =>
        /\ ctx[x].status # "none" /\ ctx[p].status # "none"
        /\ ctx[p].status = "canceled" => ctx[x].status = "canceled"
        /\ ctx[x].status = "live" => x \in ctx[p].children

Registered ==
    \A f \in Fut :
      IF future[f] = "pending"
      THEN \E x \in Ctx : ctx[x].status = "live" /\ At(f) = {x}
      ELSE At(f) = {}

RegisteredOnce ==
    \A x \in Ctx, f \in Fut : \A i, j \in DOMAIN chan[x].receivers :
      chan[x].receivers[i] = f /\ chan[x].receivers[j] = f => i = j

Reaching == Tree /\ Registered /\ RegisteredOnce

LEMMA ReachingReaches == Reaching => CancellationReaches
<1> SUFFICES ASSUME Reaching PROVE CancellationReaches
  OBVIOUS
<1>1. \A x \in Ctx : LET p == ctx[x].parent IN
        p # NoCtx /\ ctx[p].status = "canceled" => ctx[x].status = "canceled"
  BY DEF Reaching, Tree
<1>2. ASSUME NEW f \in Fut
      PROVE  LET at == {x \in Ctx : f \in ToSet(chan[x].receivers)} IN
             IF future[f] = "pending"
             THEN Cardinality(at) = 1 /\ \A x \in at : ctx[x].status = "live"
             ELSE at = {}
  <2>1. CASE future[f] = "pending"
    <3>1. PICK x \in Ctx : ctx[x].status = "live" /\ At(f) = {x}
      BY <2>1 DEF Reaching, Registered
    <3>2. Cardinality({x}) = 1
      BY FS_Singleton
    <3> QED
      BY <2>1, <3>1, <3>2 DEF At
  <2>2. CASE future[f] # "pending"
    BY <2>2 DEF Reaching, Registered, At
  <2> QED
    BY <2>1, <2>2
<1> QED
  BY <1>1, <1>2 DEF CancellationReaches

LEMMA InitReaching == Init => Reaching
<1> SUFFICES ASSUME Init PROVE Reaching
  OBVIOUS
<1>1. \A x \in Ctx : chan[x].receivers = <<>> /\ ctx[x].parent = NoCtx
  BY CoroutinesAssumption DEF Init
<1>2. ToSet(<<>>) = {} /\ DOMAIN <<>> = {}
  BY EmptySeq DEF ToSet
<1>3. \A f \in Fut : future[f] # "pending" /\ At(f) = {}
  BY <1>1, <1>2 DEF Init, At
<1> QED
  BY <1>1, <1>2, <1>3 DEF Reaching, Tree, Registered, RegisteredOnce

\* Coroutines register with done channels, contexts and timers stay.
LEMMA ReceiversAppended ==
    ASSUME Typed, Reaching, UNCHANGED <<future, ctx>>,
           \A x \in Ctx : \/ chan'[x].receivers = chan[x].receivers
                          \/ \E c \in Co : chan'[x].receivers = Append(chan[x].receivers, c)
    PROVE  Reaching'
<1>1. ASSUME NEW x \in Ctx, NEW f \in Fut
      PROVE  /\ f \in ToSet(chan'[x].receivers) <=> f \in ToSet(chan[x].receivers)
             /\ \A i, j \in DOMAIN chan'[x].receivers :
                  chan'[x].receivers[i] = f /\ chan'[x].receivers[j] = f => i = j
  <2> DEFINE s == chan[x].receivers
  <2>1. x \in Chan
    BY CoroutinesAssumption
  <2>2. s \in Seq(Co \cup Fut)
    BY <2>1, DataTypes
  <2>3. \A i, j \in DOMAIN s : s[i] = f /\ s[j] = f => i = j
    BY DEF Reaching, RegisteredOnce
  <2>4. CASE chan'[x].receivers = s
    BY <2>3, <2>4
  <2>5. CASE \E c \in Co : chan'[x].receivers = Append(s, c)
    <3> PICK c \in Co : chan'[x].receivers = Append(s, c)
      BY <2>5
    <3> DEFINE t == Append(s, c)
    <3>1. /\ Len(s) \in Nat /\ DOMAIN s = 1 .. Len(s) /\ DOMAIN t = 1 .. Len(s) + 1
          /\ t[Len(s) + 1] = c /\ \A i \in 1 .. Len(s) : t[i] = s[i]
      BY <2>2, AppendProperties, LenProperties
    <3>2. c # f
      BY CoroutinesAssumption
    <3> HIDE DEF s, t
    <3>3. \A i \in DOMAIN t : t[i] = f => i \in DOMAIN s /\ s[i] = f
      BY <3>1, <3>2
    <3>4. \A i \in DOMAIN s : i \in DOMAIN t /\ t[i] = s[i]
      BY <3>1
    <3>5. f \in ToSet(t) <=> f \in ToSet(s)
      BY <3>3, <3>4 DEF ToSet
    <3>6. \A i, j \in DOMAIN t : t[i] = f /\ t[j] = f => i = j
      BY <2>3, <3>3
    <3> QED
      BY <3>5, <3>6 DEF s, t
  <2> QED
    BY <2>4, <2>5
<1>2. \A f \in Fut : At(f)' = At(f)
  BY <1>1 DEF At
<1> QED
  BY <1>1, <1>2 DEF Reaching, Tree, Registered, RegisteredOnce

\* What a cancellation reaches is closed under live children.
LEMMA BelowClosed ==
    ASSUME Typed, NEW x, NEW y \in LiveBelow(x), NEW z \in ctx[y].children,
           ctx[z].status = "live"
    PROVE  y \in Ctx /\ z \in LiveBelow(x)
<1>1. y \in Ctx
  BY DEF LiveBelow
<1>2. ctx[y].children \subseteq Ctx
  BY <1>1, DataTypes DEF LocalTypes, Context
<1>3. z \in Ctx
  BY <1>2
<1> DEFINE Live(S) == {w \in S : ctx[w].status = "live"}
           Reached(S) == Live({x}) \subseteq S /\ \A w \in S : Live(ctx[w].children) \subseteq S
<1>4. ASSUME NEW S \in SUBSET Ctx, Reached(S) PROVE z \in S
  <2>1. y \in S
    BY <1>4 DEF LiveBelow
  <2>2. z \in Live(ctx[y].children)
    OBVIOUS
  <2> QED
    BY <1>4, <2>1, <2>2
<1> QED
  BY <1>1, <1>3, <1>4 DEF LiveBelow

LEMMA CancelsReaching ==
    ASSUME Typed, Reaching, NEW x, Cancels(x)
    PROVE  Reaching'
<1> DEFINE C == Canceling(x)
<1>1. /\ ChannelTypes /\ LocalTypes /\ C \subseteq Ctx /\ Ctx \subseteq Chan /\ NoCtx \notin Ctx
  BY DataTypes, CoroutinesAssumption DEF Canceling, LiveBelow
<1>2. ASSUME NEW y \in Ctx
      PROVE  /\ ctx'[y].parent = ctx[y].parent
             /\ y \in C => ctx'[y].status = "canceled" /\ chan'[y].receivers = <<>>
             /\ y \notin C => /\ ctx'[y].status = ctx[y].status
                              /\ ctx'[y].children = ctx[y].children \ C
                              /\ chan'[y] = chan[y]
  <2>1. ctx[y] \in Context /\ chan[y] \in Channel
    BY <1>1 DEF ChannelTypes, LocalTypes
  <2>2. CASE y \in C
    <3>1. /\ ctx'[y] = [ctx[y] EXCEPT !.status = "canceled", !.children = {}]
          /\ chan'[y] = [chan[y] EXCEPT !.closed = TRUE, !.receivers = <<>>]
      BY <1>1, <2>2 DEF Cancels
    <3> QED
      BY <2>1, <2>2, <3>1 DEF Context, Channel
  <2>3. CASE y \notin C
    <3>1. ctx'[y] = [ctx[y] EXCEPT !.children = @ \ C] /\ chan'[y] = chan[y]
      BY <1>1, <2>3 DEF Cancels
    <3> QED
      BY <2>1, <2>3, <3>1 DEF Context
  <2> QED
    BY <2>2, <2>3
<1>3. \A y \in C : \A z \in ctx[y].children : ctx[z].status = "live" => z \in C
  BY BelowClosed DEF Canceling
<1>4. Tree'
  <2> SUFFICES ASSUME NEW y \in Ctx, ctx'[y].parent # NoCtx
               PROVE  /\ ctx'[y].status # "none" /\ ctx'[ctx'[y].parent].status # "none"
                      /\ ctx'[ctx'[y].parent].status = "canceled" => ctx'[y].status = "canceled"
                      /\ ctx'[y].status = "live" => y \in ctx'[ctx'[y].parent].children
    BY DEF Tree
  <2> DEFINE p == ctx[y].parent
  <2>1. ctx'[y].parent = p /\ p \in Ctx
    BY <1>1, <1>2 DEF LocalTypes, Context
  <2>2. /\ ctx[y].status # "none" /\ ctx[p].status # "none"
        /\ ctx[p].status = "canceled" => ctx[y].status = "canceled"
        /\ ctx[y].status = "live" => y \in ctx[p].children
    BY <2>1 DEF Reaching, Tree
  <2>3. ctx[y].status \in {"none", "live", "canceled"}
    BY <1>1 DEF LocalTypes, Context
  <2> HIDE DEF p, C
  <2> QED
    BY <1>2, <1>3, <2>1, <2>2, <2>3
<1>5. ToSet(<<>>) = {} /\ DOMAIN <<>> = {}
  BY EmptySeq DEF ToSet
<1>6. \A f \in Fut : At(f)' = At(f) \ C
  BY <1>2, <1>5 DEF At
<1>7. ASSUME NEW f \in Fut
      PROVE  future'[f] = IF At(f) \cap C # {} /\ ~Ready(f) THEN "canceled" ELSE future[f]
  <2>1. f \in Notified(x) <=> At(f) \cap C # {}
    BY <1>1 DEF Notified, At
  <2> QED
    BY <2>1 DEF Cancels
<1>8. Registered'
  <2> SUFFICES ASSUME NEW f \in Fut
               PROVE  IF future'[f] = "pending"
                      THEN \E y \in Ctx : ctx'[y].status = "live" /\ At(f)' = {y}
                      ELSE At(f)' = {}
    BY DEF Registered
  <2>1. CASE future[f] = "pending"
    <3>1. PICK y \in Ctx : ctx[y].status = "live" /\ At(f) = {y}
      BY <2>1 DEF Reaching, Registered
    <3>2. CASE y \in C
      <4>1. ~Ready(f)
        BY <2>1 DEF Ready
      <4>2. future'[f] = "canceled" /\ At(f)' = {}
        BY <1>6, <1>7, <3>1, <3>2, <4>1
      <4> QED
        BY <4>2
    <3>3. CASE y \notin C
      <4>1. future'[f] = "pending" /\ At(f)' = {y} /\ ctx'[y].status = "live"
        BY <1>2, <1>6, <1>7, <2>1, <3>1, <3>3
      <4> QED
        BY <4>1
    <3> QED
      BY <3>2, <3>3
  <2>2. CASE future[f] # "pending"
    <3>1. At(f) = {}
      BY <2>2 DEF Reaching, Registered
    <3> QED
      BY <1>6, <1>7, <2>2, <3>1
  <2> QED
    BY <2>1, <2>2
<1>9. RegisteredOnce'
  BY <1>2, <1>5 DEF Reaching, RegisteredOnce
<1> QED
  BY <1>4, <1>8, <1>9 DEF Reaching

\* New contexts and timers are new, and made from contexts that exist.
LEMMA NewUnderParent ==
    ASSUME Typed, NEW c \in Co, NEW o, Calls(c, o),
           o.kind \in {"withCancel", "disconnect", "timer"}
    PROVE  /\ o.parent \in Ctx /\ ctx[o.parent].status # "none"
           /\ o.kind = "timer" => o.on \in Fut /\ future[o.on] = "none"
           /\ o.kind # "timer" => o.on \in Ctx /\ ctx[o.on].status = "none"
<1>1. o \in AllCalls /\ Usable(o)
  BY Calling DEF Waiting
<1>2. WellFormed(o)
  BY <1>1, SelectedCall
<1>3. Holds(o)
  BY <1>1 DEF Usable
<1> QED
  BY <1>2, <1>3, CallArguments DEF Holds

LEMMA WithCancelReaching ==
    ASSUME Typed, Reaching, NEW c \in Co, NEW o, WithCancel(c, o)
    PROVE  Reaching'
<1> DEFINE n == o.on
           q == o.parent
           late == ctx[q].status = "canceled"
<1>1. /\ Calls(c, o) /\ o.kind = "withCancel"
      /\ chan' = [chan EXCEPT ![n].closed = late] /\ UNCHANGED future
      /\ ctx' = IF late
                THEN [ctx EXCEPT ![n].status = "canceled", ![n].parent = q]
                ELSE [ctx EXCEPT ![n].status = "live", ![n].parent = q,
                                 ![q].children = @ \cup {n}]
  BY DEF WithCancel
<1>2. /\ n \in Ctx /\ q \in Ctx /\ ctx[n].status = "none" /\ ctx[q].status # "none"
      /\ n # q /\ q # NoCtx /\ NoCtx \notin Ctx
  BY <1>1, NewUnderParent, CoroutinesAssumption
<1>3. /\ chan \in [Chan -> Channel] /\ ctx \in [Ctx -> Context] /\ Ctx \subseteq Chan
      /\ \A x \in Ctx : /\ ctx[x].status \in {"none", "live", "canceled"}
                        /\ ctx[x].parent \in Ctx \cup {NoCtx} /\ ctx[x].children \subseteq Ctx
  BY DataTypes, CoroutinesAssumption DEF ChannelTypes, LocalTypes, Context
<1> HIDE DEF n, q
<1>4. ASSUME NEW x \in Ctx
      PROVE  chan'[x].receivers = chan[x].receivers
  BY <1>1, <1>3 DEF Channel
<1>5. ASSUME NEW x \in Ctx
      PROVE  /\ x # n => /\ ctx'[x].status = ctx[x].status
                         /\ ctx'[x].parent = ctx[x].parent
                         /\ ctx[x].children \subseteq ctx'[x].children
             /\ x = n => /\ ctx'[x].parent = q
                         /\ ctx'[x].status = IF late THEN "canceled" ELSE "live"
             /\ x = q /\ ~late => n \in ctx'[x].children
  <2>1. ctx[x] \in Context
    BY <1>3
  <2> DEFINE old == ctx[x]
  <2>2. CASE late
    <3>1. CASE x = n
      <4>1. ctx'[x] = [old EXCEPT !.status = "canceled", !.parent = q]
        BY <1>1, <1>3, <2>2, <3>1
      <4> QED
        BY <1>2, <2>1, <2>2, <3>1, <4>1 DEF Context
    <3>2. CASE x # n
      <4>1. ctx'[x] = old
        BY <1>1, <1>3, <2>2, <3>2
      <4> QED
        BY <2>2, <3>2, <4>1
    <3> QED
      BY <3>1, <3>2
  <2>3. CASE ~late
    <3>1. CASE x = n
      <4>1. ctx'[x] = [old EXCEPT !.status = "live", !.parent = q]
        BY <1>1, <1>2, <1>3, <2>3, <3>1
      <4> QED
        BY <1>2, <2>1, <2>3, <3>1, <4>1 DEF Context
    <3>2. CASE x = q
      <4>1. ctx'[x] = [old EXCEPT !.children = @ \cup {n}]
        BY <1>1, <1>2, <1>3, <2>3, <3>2
      <4> QED
        BY <1>2, <2>1, <2>3, <3>2, <4>1 DEF Context
    <3>3. CASE x # n /\ x # q
      <4>1. ctx'[x] = old
        BY <1>1, <1>3, <2>3, <3>3
      <4> QED
        BY <3>3, <4>1
    <3> QED
      BY <3>1, <3>2, <3>3
  <2> QED
    BY <2>2, <2>3
<1>6. Tree'
  <2> SUFFICES ASSUME NEW x \in Ctx, ctx'[x].parent # NoCtx
               PROVE  /\ ctx'[x].status # "none" /\ ctx'[ctx'[x].parent].status # "none"
                      /\ ctx'[ctx'[x].parent].status = "canceled" => ctx'[x].status = "canceled"
                      /\ ctx'[x].status = "live" => x \in ctx'[ctx'[x].parent].children
    BY DEF Tree
  <2>1. CASE x = n
    <3>1. ctx'[x].parent = q /\ ctx'[q].status = ctx[q].status
      BY <1>2, <1>5, <2>1
    <3>2. CASE late
      <4>1. ctx'[x].status = "canceled"
        BY <1>5, <2>1, <3>2
      <4> QED
        BY <1>2, <3>1, <4>1
    <3>3. CASE ~late
      <4>1. ctx'[x].status = "live" /\ n \in ctx'[q].children
        BY <1>2, <1>5, <2>1, <3>3
      <4>2. ctx'[q].status # "canceled"
        BY <3>1, <3>3
      <4> QED
        BY <1>2, <2>1, <3>1, <4>1, <4>2
    <3> QED
      BY <3>2, <3>3
  <2>2. CASE x # n
    <3> DEFINE p == ctx[x].parent
    <3>1. ctx'[x].parent = p /\ ctx'[x].status = ctx[x].status
      BY <1>5, <2>2
    <3>2. /\ p \in Ctx /\ ctx[x].status # "none" /\ ctx[p].status # "none"
          /\ ctx[p].status = "canceled" => ctx[x].status = "canceled"
          /\ ctx[x].status = "live" => x \in ctx[p].children
      BY <1>3, <3>1 DEF Reaching, Tree
    <3>3. p # n
      BY <1>2, <3>2
    <3> HIDE DEF p
    <3> QED
      BY <1>5, <3>1, <3>2, <3>3
  <2> QED
    BY <2>1, <2>2
<1>7. \A f \in Fut : At(f)' = At(f)
  BY <1>4 DEF At
<1>8. Registered'
  <2>1. \A x \in Ctx : ctx[x].status = "live" => ctx'[x].status = "live"
    BY <1>2, <1>5
  <2> QED
    BY <1>1, <1>7, <2>1 DEF Reaching, Registered
<1>9. RegisteredOnce'
  BY <1>4 DEF Reaching, RegisteredOnce
<1> QED
  BY <1>6, <1>8, <1>9 DEF Reaching

LEMMA DisconnectReaching ==
    ASSUME Typed, Reaching, NEW c \in Co, NEW o, Disconnect(c, o)
    PROVE  Reaching'
<1>1. /\ Calls(c, o) /\ o.kind = "disconnect" /\ UNCHANGED <<chan, future>>
      /\ ctx' = [ctx EXCEPT ![o.on].status = "live"]
  BY DEF Disconnect
<1>2. o.on \in Ctx /\ ctx[o.on].status = "none"
  BY <1>1, NewUnderParent
<1>3. ctx \in [Ctx -> Context] /\ NoCtx \notin Ctx
  BY DataTypes, CoroutinesAssumption DEF LocalTypes
<1>4. ASSUME NEW x \in Ctx
      PROVE  /\ ctx'[x].parent = ctx[x].parent /\ ctx'[x].children = ctx[x].children
             /\ ctx'[x].status = IF x = o.on THEN "live" ELSE ctx[x].status
  BY <1>1, <1>3 DEF Context
<1>5. \A x \in Ctx : ctx[x].parent \in Ctx \cup {NoCtx}
  BY <1>3 DEF Context
<1>6. Tree'
  BY <1>2, <1>4, <1>5 DEF Reaching, Tree
<1>7. Registered'
  <2>1. \A f \in Fut : At(f)' = At(f)
    BY <1>1 DEF At
  <2>2. \A x \in Ctx : ctx[x].status = "live" => ctx'[x].status = "live"
    BY <1>4
  <2> QED
    BY <1>1, <2>1, <2>2 DEF Reaching, Registered
<1>8. RegisteredOnce'
  BY <1>1 DEF Reaching, RegisteredOnce
<1> QED
  BY <1>6, <1>7, <1>8 DEF Reaching

LEMMA ScheduleTimerReaching ==
    ASSUME Typed, Reaching, NEW c \in Co, NEW o, ScheduleTimer(c, o)
    PROVE  Reaching'
<1> DEFINE n == o.on
           q == o.parent
           late == ctx[q].status = "canceled"
<1>1. /\ Calls(c, o) /\ o.kind = "timer" /\ UNCHANGED ctx
      /\ future' = [future EXCEPT ![n] = IF late THEN "canceled" ELSE "pending"]
      /\ chan' = IF late THEN chan ELSE [chan EXCEPT ![q].receivers = Append(@, n)]
  BY DEF ScheduleTimer
<1>2. n \in Fut /\ q \in Ctx /\ future[n] = "none" /\ ctx[q].status # "none"
  BY <1>1, NewUnderParent
<1>3. /\ chan \in [Chan -> Channel] /\ ctx \in [Ctx -> Context] /\ Ctx \subseteq Chan
      /\ future \in [Fut -> {"none", "pending", "fired", "canceled"}]
      /\ \A x \in Ctx : ctx[x].status \in {"none", "live", "canceled"}
      /\ \A x \in Ctx : chan[x].receivers \in Seq(Co \cup Fut)
  BY DataTypes, CoroutinesAssumption DEF ChannelTypes, LocalTypes, Context
<1>4. At(n) = {}
  BY <1>2 DEF Reaching, Registered
<1> HIDE DEF n, q
<1>5. Tree'
  BY <1>1 DEF Reaching, Tree
<1>6. CASE late
  <2>1. UNCHANGED chan /\ future' = [future EXCEPT ![n] = "canceled"]
    BY <1>1, <1>6
  <2>2. \A f \in Fut : At(f)' = At(f)
    BY <2>1 DEF At
  <2>3. Registered'
    BY <1>1, <1>2, <1>3, <1>4, <2>1, <2>2 DEF Reaching, Registered
  <2>4. RegisteredOnce'
    BY <2>1 DEF Reaching, RegisteredOnce
  <2> QED
    BY <1>5, <2>3, <2>4 DEF Reaching
<1>7. CASE ~late
  <2> DEFINE s == chan[q].receivers
             t == Append(s, n)
  <2>1. ctx[q].status = "live" /\ future' = [future EXCEPT ![n] = "pending"]
    <3>1. ctx[q].status = "live"
      BY <1>2, <1>3, <1>7
    <3>2. future' = [future EXCEPT ![n] = "pending"]
      BY <1>1, <1>7
    <3> QED
      BY <3>1, <3>2
  <2>2. ASSUME NEW x \in Ctx
        PROVE  chan'[x].receivers = IF x = q THEN t ELSE chan[x].receivers
    BY <1>1, <1>2, <1>3, <1>7 DEF Channel
  <2>3. /\ Len(s) \in Nat /\ DOMAIN s = 1 .. Len(s) /\ DOMAIN t = 1 .. Len(s) + 1
        /\ t[Len(s) + 1] = n /\ \A i \in 1 .. Len(s) : t[i] = s[i]
    <3>1. s \in Seq(Co \cup Fut) /\ n \in Co \cup Fut
      BY <1>2, <1>3
    <3> HIDE DEF s
    <3> QED
      BY <3>1, AppendProperties, LenProperties
  <2>4. n \notin ToSet(s)
    BY <1>2, <1>4 DEF At
  <2> HIDE DEF s, t
  <2>5. ASSUME NEW f PROVE f \in ToSet(t) <=> f \in ToSet(s) \/ f = n
    <3>1. \A i \in DOMAIN t : t[i] = n \/ (i \in DOMAIN s /\ t[i] = s[i])
      BY <2>3
    <3>2. \A i \in DOMAIN s : i \in DOMAIN t /\ t[i] = s[i]
      BY <2>3
    <3>3. \E i \in DOMAIN t : t[i] = n
      BY <2>3
    <3> QED
      BY <3>1, <3>2, <3>3 DEF ToSet
  <2>6. \A f \in Fut : At(f)' = IF f = n THEN {q} ELSE At(f)
    <3>1. \A x \in Ctx : x # q => chan'[x].receivers = chan[x].receivers
      BY <2>2
    <3>2. chan'[q].receivers = t /\ chan[q].receivers = s
      BY <1>2, <2>2 DEF s
    <3>3. n \notin ToSet(s) /\ \A x \in Ctx : n \notin ToSet(chan[x].receivers)
      BY <1>4, <2>4 DEF At
    <3> QED
      BY <1>2, <2>5, <3>1, <3>2, <3>3 DEF At
  <2>7. Registered'
    <3> SUFFICES ASSUME NEW f \in Fut
                 PROVE  IF future'[f] = "pending"
                        THEN \E y \in Ctx : ctx'[y].status = "live" /\ At(f)' = {y}
                        ELSE At(f)' = {}
      BY DEF Registered
    <3>1. CASE f = n
      BY <1>1, <1>2, <1>3, <2>1, <2>6, <3>1
    <3>2. CASE f # n
      BY <1>1, <1>3, <2>1, <2>6, <3>2 DEF Reaching, Registered
    <3> QED
      BY <3>1, <3>2
  <2>8. RegisteredOnce'
    <3> SUFFICES ASSUME NEW x \in Ctx, NEW f \in Fut,
                        NEW i \in DOMAIN chan'[x].receivers,
                        NEW j \in DOMAIN chan'[x].receivers,
                        chan'[x].receivers[i] = f, chan'[x].receivers[j] = f
                 PROVE  i = j
      BY DEF RegisteredOnce
    <3>1. CASE x # q
      BY <2>2, <3>1 DEF Reaching, RegisteredOnce
    <3>2. CASE x = q
      <4>1. \A k, l \in DOMAIN s : s[k] = f /\ s[l] = f => k = l
        BY <1>2 DEF Reaching, RegisteredOnce, s
      <4>2. \A k \in DOMAIN s : s[k] # n
        BY <2>4 DEF ToSet
      <4>3. i \in DOMAIN t /\ j \in DOMAIN t /\ t[i] = f /\ t[j] = f
        BY <2>2, <3>2
      <4> QED
        BY <2>3, <4>1, <4>2, <4>3
    <3> QED
      BY <3>1, <3>2
  <2> QED
    BY <1>5, <2>7, <2>8 DEF Reaching
<1> QED
  BY <1>6, <1>7

\* What is registered once is gone when it is removed, and nothing else is.
LEMMA RemovedOnce ==
    ASSUME NEW S, NEW s \in Seq(S), NEW f,
           \A i, j \in DOMAIN s : s[i] = f /\ s[j] = f => i = j
    PROVE  LET r == RemoveReceiveCallback(s, f) IN
           /\ f \notin ToSet(r)
           /\ \A g : g # f => (g \in ToSet(r) <=> g \in ToSet(s))
           /\ \A g : (\A i, j \in DOMAIN s : s[i] = g /\ s[j] = g => i = j) =>
                     \A i, j \in DOMAIN r : r[i] = g /\ r[j] = g => i = j
<1> DEFINE r == RemoveReceiveCallback(s, f)
<1>1. CASE f \notin ToSet(s)
  BY <1>1, Removed
<1>2. CASE f \in ToSet(s)
  <2>1. PICK k \in DOMAIN s : s[k] = f /\ r = RemoveAt(s, k)
    BY <1>2, Removed
  <2>2. /\ r \in Seq(S) /\ Len(r) = Len(s) - 1 /\ DOMAIN r = 1 .. Len(s) - 1
        /\ \A j \in 1 .. Len(s) - 1 : r[j] = IF j < k THEN s[j] ELSE s[j + 1]
    BY <2>1, RemovedAt, LenProperties
  <2>3. DOMAIN s = 1 .. Len(s) /\ Len(s) \in Nat /\ k \in 1 .. Len(s)
    BY LenProperties
  <2> HIDE DEF r
  <2> DEFINE at(j) == IF j < k THEN j ELSE j + 1
  <2>4. \A j \in DOMAIN r : at(j) \in DOMAIN s /\ at(j) # k /\ r[j] = s[at(j)]
    BY <2>2, <2>3
  <2>5. \A i, j \in DOMAIN r : at(i) = at(j) => i = j
    BY <2>2, <2>3
  <2>6. \A i \in DOMAIN s : i # k => \E j \in DOMAIN r : r[j] = s[i]
    <3> TAKE i \in DOMAIN s
    <3> HAVE i # k
    <3>1. CASE i < k
      BY <2>2, <2>3, <3>1
    <3>2. CASE i > k
      <4>1. i - 1 \in DOMAIN r /\ ~(i - 1 < k) /\ (i - 1) + 1 = i
        BY <2>2, <2>3, <3>2
      <4> QED
        BY <2>2, <4>1
    <3> QED
      BY <2>3, <3>1, <3>2
  <2> HIDE DEF at
  <2>7. f \notin ToSet(r)
    BY <2>1, <2>4 DEF ToSet
  <2>8. \A g : g # f => (g \in ToSet(r) <=> g \in ToSet(s))
    BY <2>1, <2>4, <2>6 DEF ToSet
  <2>9. \A g : (\A i, j \in DOMAIN s : s[i] = g /\ s[j] = g => i = j) =>
               \A i, j \in DOMAIN r : r[i] = g /\ r[j] = g => i = j
    BY <2>4, <2>5
  <2> QED
    BY <2>7, <2>8, <2>9 DEF r
<1> QED
  BY <1>1, <1>2

LEMMA TimerFiredReaching ==
    ASSUME Typed, Reaching, NEW f \in Fut, TimerFired(f)
    PROVE  Reaching'
<1>1. /\ future' = [future EXCEPT ![f] = "fired"] /\ UNCHANGED ctx
      /\ chan' = [h \in Chan |-> [chan[h] EXCEPT !.receivers = RemoveReceiveCallback(@, f)]]
  BY DEF TimerFired
<1>2. ASSUME NEW x \in Ctx
      PROVE  /\ chan[x].receivers \in Seq(Co \cup Fut)
             /\ chan'[x].receivers = RemoveReceiveCallback(chan[x].receivers, f)
  <2>1. x \in Chan /\ chan[x] \in Channel
    BY DataTypes, CoroutinesAssumption DEF ChannelTypes
  <2> QED
    BY <1>1, <2>1 DEF Channel
<1>3. ASSUME NEW x \in Ctx
      PROVE  /\ f \notin ToSet(chan'[x].receivers)
             /\ \A g : g # f => (g \in ToSet(chan'[x].receivers) <=> g \in ToSet(chan[x].receivers))
             /\ \A g \in Fut : \A i, j \in DOMAIN chan'[x].receivers :
                  chan'[x].receivers[i] = g /\ chan'[x].receivers[j] = g => i = j
  <2> DEFINE s == chan[x].receivers
  <2>1. \A g \in Fut : \A i, j \in DOMAIN s : s[i] = g /\ s[j] = g => i = j
    BY DEF Reaching, RegisteredOnce
  <2>2. s \in Seq(Co \cup Fut) /\ chan'[x].receivers = RemoveReceiveCallback(s, f)
    BY <1>2
  <2> HIDE DEF s
  <2>3. /\ f \notin ToSet(RemoveReceiveCallback(s, f))
        /\ \A g : g # f => (g \in ToSet(RemoveReceiveCallback(s, f)) <=> g \in ToSet(s))
        /\ \A g : (\A i, j \in DOMAIN s : s[i] = g /\ s[j] = g => i = j) =>
             \A i, j \in DOMAIN RemoveReceiveCallback(s, f) :
               RemoveReceiveCallback(s, f)[i] = g /\ RemoveReceiveCallback(s, f)[j] = g => i = j
    BY <2>1, <2>2, RemovedOnce
  <2> QED
    BY <2>1, <2>2, <2>3 DEF s
<1>4. \A g \in Fut : At(g)' = IF g = f THEN {} ELSE At(g)
  BY <1>3 DEF At
<1>5. Registered'
  <2>1. future \in [Fut -> {"none", "pending", "fired", "canceled"}]
    BY DataTypes DEF LocalTypes
  <2> SUFFICES ASSUME NEW g \in Fut
               PROVE  IF future'[g] = "pending"
                      THEN \E y \in Ctx : ctx'[y].status = "live" /\ At(g)' = {y}
                      ELSE At(g)' = {}
    BY DEF Registered
  <2>2. CASE g = f
    BY <1>1, <1>4, <2>1, <2>2
  <2>3. CASE g # f
    BY <1>1, <1>4, <2>1, <2>3 DEF Reaching, Registered
  <2> QED
    BY <2>2, <2>3
<1>6. Tree' /\ RegisteredOnce'
  BY <1>1, <1>3 DEF Reaching, Tree, RegisteredOnce
<1> QED
  BY <1>5, <1>6 DEF Reaching

\* Only coroutines come into the list of a done channel in other steps.
LEMMA ChannelsReaching ==
    ASSUME Typed, Reaching, NEW c \in Co, NEW o,
           Send(c, o) \/ Receive(c, o) \/ CloseChan(c, o) \/ SignalChannel(c, o)
    PROVE  Reaching'
<1>1. /\ chan \in [Chan -> Channel] /\ Ctx \subseteq Chan /\ Signals \cap Ctx = {}
      /\ \A h \in Chan : chan[h] \in Channel
  BY DataTypes, CoroutinesAssumption DEF ChannelTypes
<1>2. UNCHANGED <<future, ctx>>
  BY DEF Send, Receive, CloseChan, SignalChannel
<1>3. ASSUME NEW x \in Ctx
      PROVE  \/ chan'[x].receivers = chan[x].receivers
             \/ \E d \in Co : chan'[x].receivers = Append(chan[x].receivers, d)
  <2>1. CASE Send(c, o)
    <3> DEFINE h == Selected(o).on
    <3>1. h \notin Ctx
      BY <2>1, SelectedChannel DEF Send
    <3>2. \/ chan' = chan
          \/ chan' = [chan EXCEPT ![h].receivers = Tail(@)]
          \/ \E v : chan' = [chan EXCEPT ![h].buffer = Append(@, v)]
          \/ \E v : chan' = [chan EXCEPT ![h].senders = Append(@, v)]
      BY <2>1 DEF Send, HandOver, PutInBuffer
    <3> HIDE DEF h
    <3> QED
      BY <1>1, <3>1, <3>2
  <2>2. CASE Receive(c, o)
    <3> DEFINE h == Selected(o).on
    <3>1. \/ chan' = chan
          \/ chan' = [chan EXCEPT ![h].senders = Tail(@)]
          \/ chan' = [chan EXCEPT ![h].buffer = Tail(@)]
          \/ chan' = [chan EXCEPT ![h].receivers = Append(@, c)]
      BY <2>2 DEF Receive, TakeFromSender, TakeFromBuffer
    <3> HIDE DEF h
    <3>2. \/ chan'[x] = chan[x]
          \/ chan'[x] = [chan[x] EXCEPT !.senders = Tail(@)]
          \/ chan'[x] = [chan[x] EXCEPT !.buffer = Tail(@)]
          \/ chan'[x] = [chan[x] EXCEPT !.receivers = Append(@, c)]
      BY <1>1, <3>1
    <3> QED
      BY <1>1, <3>2 DEF Channel
  <2>3. CASE CloseChan(c, o)
    <3>1. Calls(c, o) /\ o.kind = "close"
      BY <2>3 DEF CloseChan
    <3>2. o.on \in Chan \ Ctx
      BY <3>1, Calling, SelectedCall, CallArguments
    <3>3. chan'[x] = chan[x]
      BY <1>1, <2>3, <3>2 DEF CloseChan
    <3> QED
      BY <3>3
  <2>4. CASE SignalChannel(c, o)
    <3>1. Calls(c, o) /\ o.kind = "signalChannel"
      BY <2>4 DEF SignalChannel
    <3>2. o.on \in Signals
      BY <3>1, Calling, SelectedCall, CallArguments
    <3>3. chan'[x] = chan[x]
      BY <1>1, <2>4, <3>2 DEF SignalChannel
    <3> QED
      BY <3>3
  <2> QED
    BY <2>1, <2>2, <2>3, <2>4
<1> QED
  BY <1>2, <1>3, ReceiversAppended

LEMMA ReceiveSignalReaching ==
    ASSUME Typed, Reaching, NEW s \in Signals, ReceiveSignal(s)
    PROVE  Reaching'
<1>1. chan \in [Chan -> Channel] /\ Ctx \subseteq Chan /\ s \notin Ctx
  BY DataTypes, CoroutinesAssumption DEF ChannelTypes
<1>2. UNCHANGED <<future, ctx>>
  BY DEF ReceiveSignal
<1>3. \/ chan' = chan
      \/ chan' = [chan EXCEPT ![s].receivers = Tail(@)]
      \/ \E v : chan' = [chan EXCEPT ![s].buffer = Append(@, v)]
  BY DEF ReceiveSignal, HandOver, PutInBuffer
<1>4. \A x \in Ctx : chan'[x].receivers = chan[x].receivers
  BY <1>1, <1>3
<1> QED
  BY <1>2, <1>4, ReceiversAppended

LEMMA OthersReaching ==
    ASSUME Typed, Reaching, UNCHANGED <<chan, future, ctx>>
    PROVE  Reaching'
BY ReceiversAppended

LEMMA NextReaching == Typed /\ Reaching /\ [Next]_vars => Reaching'
<1> SUFFICES ASSUME Typed, Reaching, [Next]_vars PROVE Reaching'
  OBVIOUS
<1>1. ASSUME NEW c \in Co, NEW o \in AllCalls, Step(c, o) PROVE Reaching'
  <2>1. CASE \/ Answered(c, o) \/ SelectYields(c, o) \/ SelectDefault(c, o) \/ Get(c, o)
             \/ Go(c, o) \/ GroupGo(c, o) \/ Add(c, o) \/ Done(c, o) \/ Wait(c, o)
    <3>1. UNCHANGED <<chan, future, ctx>>
      BY <2>1 DEF Answered, SelectYields, SelectDefault, Get, Go, GroupGo, Add, Done, Wait, data
    <3> QED
      BY <3>1, OthersReaching
  <2>2. CASE Send(c, o) \/ Receive(c, o) \/ CloseChan(c, o) \/ SignalChannel(c, o)
    BY <2>2, ChannelsReaching
  <2>3. CASE WithCancel(c, o) \/ Disconnect(c, o) \/ ScheduleTimer(c, o)
    BY <2>3, WithCancelReaching, DisconnectReaching, ScheduleTimerReaching
  <2>4. CASE Cancel(c, o)
    BY <2>4, CancelsReaching DEF Cancel
  <2> QED
    BY <1>1, <2>1, <2>2, <2>3, <2>4 DEF Step
<1>2. ASSUME NEW c \in Co, NEW err \in BOOLEAN, Finish(c, err) PROVE Reaching'
  <2>1. Cancels(co[c].group) \/ UNCHANGED <<chan, future, ctx>>
    BY <1>2, Zenon DEF Finish
  <2> QED
    BY <2>1, CancelsReaching, OthersReaching
<1>3. CASE WorkflowCanceled
  BY <1>3, CancelsReaching DEF WorkflowCanceled
<1>4. CASE Exit \/ UNCHANGED vars
  BY <1>4, OthersReaching DEF Exit, data, vars
<1> QED
  BY <1>1, <1>2, <1>3, <1>4, ReceiveSignalReaching, TimerFiredReaching DEF Next

\* Whatever is derived from a canceled context is canceled, also what was made
\* during or after the cancellation (context.go, propagateCancel), and a timer
\* is canceled with its context until it fires (timer.go).
THEOREM CancellationReachesAll == Spec => []CancellationReaches
<1>1. Init => Typed /\ Reaching
  BY InitTyped, InitReaching
<1>2. Typed /\ Reaching /\ [Next]_vars => Typed' /\ Reaching'
  BY NextTyped, NextReaching
<1> QED
  BY <1>1, <1>2, ReachingReaches, PTL DEF Spec

-----------------------------------------------------------------------------
(* Who waits for what.  A coroutine is in the list of a channel while it is *)
(* in the Receive that put it there and has no answer; a channel with such  *)
(* a list has nothing to receive.  A value offered by a sender is that of   *)
(* the pending Send, or of a call that is over.  A coroutine in Wait is     *)
(* woken by the group alone, whose count stays zero once it has been.  All  *)
(* of it holds until a panic or the end of the scheduler.                   *)

Entries(h) == ToSet(chan[h].receivers)
Offers(h) == ToSet(chan[h].senders)

ReceivingOnce ==
    \A h \in Chan : \A i, j \in DOMAIN chan[h].receivers :
      chan[h].receivers[i] \in Co /\ chan[h].receivers[i] = chan[h].receivers[j] => i = j

ReceiversFirst ==
    \A h \in Chan : chan[h].receivers # <<>> =>
      chan[h].buffer = <<>> /\ chan[h].senders = <<>> /\ ~chan[h].closed

DoneChannels ==
    /\ \A x \in Ctx : /\ chan[x].senders = <<>>
                      /\ chan[x].closed => ctx[x].status = "canceled"
                      /\ ctx[x].status = "none" => chan[x].receivers = <<>>
    /\ \A h \in Chan \ Ctx : Entries(h) \subseteq Co

Lists == ReceivingOnce /\ ReceiversFirst /\ DoneChannels

Resting ==
    \A c \in Co :
      /\ co[c].op = NoOp => ~co[c].woken
      /\ co[c].op.kind \in {"receive", "wait"} => co[c].waits
      /\ co[c].life = "none" => co[c].op = NoOp

Awaiting ==
    \A h \in Chan, c \in Co : c \in Entries(h) =>
      co[c].op.kind = "receive" /\ co[c].op.on = h /\ ~co[c].woken

Offered ==
    \A h \in Chan : \A v \in Offers(h) :
      /\ v[1] \in Co /\ co[v[1]].life # "none"
      /\ v[2] > co[v[1]].left \/ (v[2] = co[v[1]].left /\ co[v[1]].op.kind = "send")

Waited ==
    \A c \in Co : co[c].op.kind = "wait" =>
      /\ ~co[c].woken /\ group[co[c].op.on].waiting
      /\ group[co[c].op.on].done => group[co[c].op.on].n = 0

Listed ==
    \A i \in DOMAIN coroutines :
      /\ co[coroutines[i]].life = "live"
      /\ \A j \in DOMAIN coroutines : coroutines[i] = coroutines[j] => i = j

Members(g) == {c \in Co : co[c].life = "live" /\ co[c].group = g}

Counted ==
    /\ \A c \in Co : co[c].group \in (Groups \cap Ctx) \cup {NoCtx}
    /\ \A g \in Groups \cap Ctx : group[g].n = Cardinality(Members(g))

Linked == Lists /\ Resting /\ Awaiting /\ Offered
Grouped == Waited /\ Listed /\ Counted

\* One channel changes.
LEMMA ListsStep ==
    ASSUME Typed, Lists, UNCHANGED ctx, NEW h \in Chan, NEW r, chan' = [chan EXCEPT ![h] = r],
           \A i, j \in DOMAIN r.receivers :
             r.receivers[i] \in Co /\ r.receivers[i] = r.receivers[j] => i = j,
           r.receivers # <<>> => r.buffer = <<>> /\ r.senders = <<>> /\ ~r.closed,
           h \in Ctx => /\ r.senders = <<>>
                        /\ r.closed => ctx[h].status = "canceled"
                        /\ ctx[h].status = "none" => r.receivers = <<>>,
           h \notin Ctx => ToSet(r.receivers) \subseteq Co
    PROVE  Lists'
<1>1. chan \in [Chan -> Channel] /\ Ctx \subseteq Chan
  BY DataTypes, CoroutinesAssumption DEF ChannelTypes
<1>2. chan'[h] = r /\ \A g \in Chan \ {h} : chan'[g] = chan[g]
  BY <1>1
<1>3. ReceivingOnce'
  <2> SUFFICES ASSUME NEW g \in Chan
               PROVE  \A i, j \in DOMAIN chan'[g].receivers :
                        chan'[g].receivers[i] \in Co
                        /\ chan'[g].receivers[i] = chan'[g].receivers[j] => i = j
    BY DEF ReceivingOnce
  <2>1. CASE g = h
    BY <1>2, <2>1
  <2>2. CASE g # h
    BY <1>2, <2>2 DEF Lists, ReceivingOnce
  <2> QED
    BY <2>1, <2>2
<1>4. ReceiversFirst'
  BY <1>2 DEF Lists, ReceiversFirst
<1>5. DoneChannels'
  <2>1. ASSUME NEW x \in Ctx
        PROVE  /\ chan'[x].senders = <<>>
               /\ chan'[x].closed => ctx'[x].status = "canceled"
               /\ ctx'[x].status = "none" => chan'[x].receivers = <<>>
    <3>1. CASE x = h
      BY <1>2, <3>1
    <3>2. CASE x # h
      <4>1. chan'[x] = chan[x]
        BY <1>1, <1>2, <3>2
      <4> QED
        BY <4>1 DEF Lists, DoneChannels
    <3> QED
      BY <3>1, <3>2
  <2>2. ASSUME NEW g \in Chan \ Ctx PROVE ToSet(chan'[g].receivers) \subseteq Co
    <3>1. CASE g = h
      BY <1>2, <3>1
    <3>2. CASE g # h
      BY <1>2, <3>2 DEF Lists, DoneChannels, Entries
    <3> QED
      BY <3>1, <3>2
  <2> QED
    BY <2>1, <2>2 DEF DoneChannels, Entries
<1> QED
  BY <1>3, <1>4, <1>5 DEF Lists

\* No list of receivers and no list of senders grows.
NoneJoins ==
    \A h \in Chan : Entries(h)' \cap Co \subseteq Entries(h) /\ Offers(h)' \subseteq Offers(h)

LEMMA TailSet ==
    ASSUME NEW S, NEW s \in Seq(S), s # <<>>
    PROVE  /\ ToSet(Tail(s)) \subseteq ToSet(s) /\ Head(s) \in ToSet(s)
           /\ \A i \in DOMAIN Tail(s) : Tail(s)[i] = s[i + 1] /\ i + 1 \in DOMAIN s
           /\ Head(s) = s[1] /\ 1 \in DOMAIN s
           /\ DOMAIN s \subseteq Nat /\ DOMAIN Tail(s) \subseteq Nat \ {0}
BY TailElements DEF ToSet

LEMMA AppendSet ==
    ASSUME NEW S, NEW s \in Seq(S), NEW e \in S
    PROVE  /\ ToSet(Append(s, e)) = ToSet(s) \cup {e}
           /\ Append(s, e) # <<>>
           /\ \A i \in DOMAIN Append(s, e) :
                \/ i \in DOMAIN s /\ Append(s, e)[i] = s[i]
                \/ i = Len(s) + 1 /\ Append(s, e)[i] = e
<1> DEFINE t == Append(s, e)
<1>1. /\ Len(s) \in Nat /\ DOMAIN s = 1 .. Len(s) /\ DOMAIN t = 1 .. Len(s) + 1
      /\ t[Len(s) + 1] = e /\ \A i \in 1 .. Len(s) : t[i] = s[i]
  BY AppendProperties, LenProperties
<1> HIDE DEF t
<1>2. \A i \in DOMAIN t : (i \in DOMAIN s /\ t[i] = s[i]) \/ (i = Len(s) + 1 /\ t[i] = e)
  BY <1>1
<1>3. \A i \in DOMAIN s : i \in DOMAIN t /\ t[i] = s[i]
  BY <1>1
<1>4. Len(s) + 1 \in DOMAIN t
  BY <1>1
<1>5. ToSet(t) = ToSet(s) \cup {e}
  BY <1>1, <1>2, <1>3, <1>4 DEF ToSet
<1>6. t # <<>>
  BY <1>4, EmptySeq
<1> QED
  BY <1>2, <1>5, <1>6 DEF t

LEMMA ChannelShrinks ==
    ASSUME Typed, NEW h \in Chan, NEW r, chan' = [chan EXCEPT ![h] = r],
           ToSet(r.receivers) \cap Co \subseteq Entries(h), ToSet(r.senders) \subseteq Offers(h)
    PROVE  NoneJoins
<1>1. chan \in [Chan -> Channel]
  BY DataTypes DEF ChannelTypes
<1>2. chan'[h] = r /\ \A g \in Chan \ {h} : chan'[g] = chan[g]
  BY <1>1
<1> QED
  BY <1>2 DEF NoneJoins, Entries, Offers

LEMMA HandOverLists ==
    ASSUME Typed, Lists, UNCHANGED ctx, NEW h \in Chan, NEW v, HandOver(h, v)
    PROVE  /\ Lists' /\ NoneJoins /\ Head(chan[h].receivers) \in Entries(h)
           /\ Head(chan[h].receivers) \in Co => Head(chan[h].receivers) \notin Entries(h)'
<1> DEFINE s == chan[h].receivers
           r == [chan[h] EXCEPT !.receivers = Tail(@)]
<1>1. /\ chan \in [Chan -> Channel] /\ chan[h] \in Channel
      /\ s \in Seq(Co \cup Fut) /\ s # <<>> /\ chan' = [chan EXCEPT ![h] = r]
  BY DataTypes DEF ChannelTypes, HandOver
<1>2. /\ r.receivers = Tail(s) /\ r.buffer = chan[h].buffer
      /\ r.senders = chan[h].senders /\ r.closed = chan[h].closed
  BY <1>1 DEF Channel
<1>3. /\ ToSet(Tail(s)) \subseteq ToSet(s) /\ Head(s) \in ToSet(s)
      /\ \A i \in DOMAIN Tail(s) : Tail(s)[i] = s[i + 1] /\ i + 1 \in DOMAIN s
      /\ Head(s) = s[1] /\ 1 \in DOMAIN s
      /\ DOMAIN s \subseteq Nat /\ DOMAIN Tail(s) \subseteq Nat \ {0}
  BY <1>1, TailSet
<1>4. \A i, j \in DOMAIN s : s[i] \in Co /\ s[i] = s[j] => i = j
  BY DEF Lists, ReceivingOnce
<1>5. /\ chan[h].buffer = <<>> /\ chan[h].senders = <<>> /\ ~chan[h].closed
      /\ h \in Ctx /\ ctx[h].status = "none" => s = <<>>
      /\ h \notin Ctx => ToSet(s) \subseteq Co
  BY <1>1 DEF Lists, ReceiversFirst, DoneChannels, Entries
<1> HIDE DEF s, r
<1>6. Lists'
  <2>1. \A i, j \in DOMAIN Tail(s) : Tail(s)[i] \in Co /\ Tail(s)[i] = Tail(s)[j] => i = j
    <3> TAKE i, j \in DOMAIN Tail(s)
    <3> HAVE Tail(s)[i] \in Co /\ Tail(s)[i] = Tail(s)[j]
    <3>1. i + 1 = j + 1
      BY <1>3, <1>4
    <3> QED
      BY <1>3, <3>1
  <2>2. h \in Ctx => ctx[h].status # "none"
    BY <1>1, <1>5
  <2> QED
    BY <1>1, <1>2, <1>3, <1>5, <2>1, <2>2, ListsStep
<1>7. NoneJoins
  BY <1>1, <1>2, <1>3, ChannelShrinks DEF Entries, Offers, s
<1>8. chan'[h].receivers = Tail(s)
  BY <1>1, <1>2
<1>9. Head(s) \in Co => Head(s) \notin ToSet(Tail(s))
  <2> SUFFICES ASSUME Head(s) \in Co, NEW i \in DOMAIN Tail(s), Tail(s)[i] = Head(s)
               PROVE  FALSE
    BY DEF ToSet
  <2>1. i + 1 = 1
    BY <1>3, <1>4
  <2> QED
    BY <1>3, <2>1
<1> QED
  BY <1>3, <1>6, <1>7, <1>8, <1>9 DEF Entries, s

\* Values come and go while nobody waits for them.
LEMMA ValuesLists ==
    ASSUME Typed, Lists, UNCHANGED ctx, NEW h \in Chan,
           \/ \E v : PutInBuffer(h, v)
           \/ TakeFromSender(h)
           \/ TakeFromBuffer(h)
    PROVE  Lists' /\ NoneJoins /\ chan[h].receivers = <<>>
<1>1. /\ chan \in [Chan -> Channel] /\ chan[h] \in Channel /\ chan[h].senders \in Seq(Value)
  BY DataTypes DEF ChannelTypes
<1>2. chan[h].receivers = <<>>
  BY DEF PutInBuffer, TakeFromSender, TakeFromBuffer, Lists, ReceiversFirst
<1>3. \E r : /\ chan' = [chan EXCEPT ![h] = r]
             /\ r.receivers = <<>> /\ r.closed = chan[h].closed
             /\ r.senders = chan[h].senders
                \/ (chan[h].senders # <<>> /\ r.senders = Tail(chan[h].senders))
  <2>1. CASE \E v : PutInBuffer(h, v)
    <3> PICK v : PutInBuffer(h, v)
      BY <2>1
    <3> DEFINE r == [chan[h] EXCEPT !.buffer = Append(@, v)]
    <3>1. chan' = [chan EXCEPT ![h] = r]
      BY DEF PutInBuffer
    <3>2. /\ r.receivers = <<>> /\ r.closed = chan[h].closed
          /\ r.senders = chan[h].senders
      BY <1>1, <1>2 DEF Channel
    <3> HIDE DEF r
    <3> QED
      BY <3>1, <3>2
  <2>2. CASE TakeFromSender(h)
    <3> DEFINE r == [chan[h] EXCEPT !.senders = Tail(@)]
    <3>1. chan' = [chan EXCEPT ![h] = r] /\ chan[h].senders # <<>>
      BY <2>2 DEF TakeFromSender
    <3>2. /\ r.receivers = <<>> /\ r.closed = chan[h].closed
          /\ r.senders = Tail(chan[h].senders)
      BY <1>1, <1>2 DEF Channel
    <3> HIDE DEF r
    <3> QED
      BY <3>1, <3>2
  <2>3. CASE TakeFromBuffer(h)
    <3> DEFINE r == [chan[h] EXCEPT !.buffer = Tail(@)]
    <3>1. chan' = [chan EXCEPT ![h] = r]
      BY <2>3 DEF TakeFromBuffer
    <3>2. /\ r.receivers = <<>> /\ r.closed = chan[h].closed
          /\ r.senders = chan[h].senders
      BY <1>1, <1>2 DEF Channel
    <3> HIDE DEF r
    <3> QED
      BY <3>1, <3>2
  <2> QED
    BY <2>1, <2>2, <2>3
<1>4. PICK r : /\ chan' = [chan EXCEPT ![h] = r]
               /\ r.receivers = <<>> /\ r.closed = chan[h].closed
               /\ r.senders = chan[h].senders
                  \/ (chan[h].senders # <<>> /\ r.senders = Tail(chan[h].senders))
  BY <1>3
<1>5. ToSet(<<>>) = {} /\ DOMAIN <<>> = {}
  BY EmptySeq DEF ToSet
<1>6. Lists'
  <2>1. h \in Ctx => /\ r.senders = <<>>
                     /\ r.closed => ctx[h].status = "canceled"
    BY <1>4 DEF Lists, DoneChannels
  <2> QED
    BY <1>4, <1>5, <2>1, ListsStep
<1>7. NoneJoins
  <2>1. ToSet(r.senders) \subseteq Offers(h)
    BY <1>1, <1>4, TailSet DEF Offers
  <2> QED
    BY <1>4, <1>5, <2>1, ChannelShrinks
<1> QED
  BY <1>2, <1>6, <1>7

LEMMA OffersLists ==
    ASSUME Typed, Lists, UNCHANGED ctx, NEW h \in Chan \ Ctx, NEW v \in Value,
           ~chan[h].closed, ~CanSend(h), chan' = [chan EXCEPT ![h].senders = Append(@, v)]
    PROVE  /\ Lists' /\ Offers(h)' = Offers(h) \cup {v}
           /\ \A g \in Chan : Entries(g)' = Entries(g) /\ (g # h => Offers(g)' = Offers(g))
<1> DEFINE r == [chan[h] EXCEPT !.senders = Append(@, v)]
<1>1. /\ chan \in [Chan -> Channel] /\ chan[h] \in Channel /\ chan[h].senders \in Seq(Value)
      /\ chan' = [chan EXCEPT ![h] = r]
  BY DataTypes DEF ChannelTypes
<1>2. chan[h].receivers = <<>>
  BY DEF CanSend
<1>3. r.receivers = <<>> /\ r.closed = chan[h].closed /\ r.senders = Append(chan[h].senders, v)
  BY <1>1, <1>2 DEF Channel
<1> HIDE DEF r
<1>4. ToSet(<<>>) = {} /\ DOMAIN <<>> = {}
  BY EmptySeq DEF ToSet
<1>5. Lists'
  BY <1>1, <1>3, <1>4, ListsStep
<1>6. chan'[h] = r /\ \A g \in Chan \ {h} : chan'[g] = chan[g]
  BY <1>1
<1>7. ToSet(r.senders) = ToSet(chan[h].senders) \cup {v}
  BY <1>1, <1>3, AppendSet
<1> QED
  BY <1>2, <1>3, <1>5, <1>6, <1>7 DEF Entries, Offers

\* c becomes the last of those that wait for h.
Joins(c, h) ==
    /\ Entries(h)' = Entries(h) \cup {c}
    /\ \A g \in Chan : Offers(g)' = Offers(g) /\ (g # h => Entries(g)' = Entries(g))

LEMMA JoinsLists ==
    ASSUME Typed, Lists, UNCHANGED ctx, NEW h \in Chan, NEW c \in Co \cup Fut,
           c \in Co => c \notin Entries(h), ~CanReceive(h), c \in Fut => h \in Ctx,
           h \in Ctx => ctx[h].status # "none",
           chan' = [chan EXCEPT ![h].receivers = Append(@, c)]
    PROVE  Lists' /\ Joins(c, h)
<1> DEFINE s == chan[h].receivers
           t == Append(s, c)
           r == [chan[h] EXCEPT !.receivers = Append(@, c)]
<1>1. /\ chan \in [Chan -> Channel] /\ chan[h] \in Channel /\ s \in Seq(Co \cup Fut)
      /\ chan' = [chan EXCEPT ![h] = r]
  BY DataTypes DEF ChannelTypes
<1>2. chan[h].buffer = <<>> /\ chan[h].senders = <<>> /\ ~chan[h].closed
  BY DEF CanReceive
<1>3. /\ r.receivers = t /\ r.buffer = chan[h].buffer
      /\ r.senders = chan[h].senders /\ r.closed = chan[h].closed
  BY <1>1 DEF Channel
<1>4. /\ \A i, j \in DOMAIN s : s[i] \in Co /\ s[i] = s[j] => i = j
      /\ h \notin Ctx => ToSet(s) \subseteq Co
      /\ c \in Co => c \notin ToSet(s)
  BY DEF Lists, ReceivingOnce, DoneChannels, Entries
<1> HIDE DEF r, s
<1>5. /\ ToSet(t) = ToSet(s) \cup {c}
      /\ \A i \in DOMAIN t : \/ i \in DOMAIN s /\ t[i] = s[i]
                             \/ i = Len(s) + 1 /\ t[i] = c
  BY <1>1, AppendSet
<1> HIDE DEF t
<1>6. \A i, j \in DOMAIN t : t[i] \in Co /\ t[i] = t[j] => i = j
  BY <1>4, <1>5 DEF ToSet
<1>7. h \notin Ctx => c \in Co
  OBVIOUS
<1>8. Lists'
  <2>1. /\ \A i, j \in DOMAIN r.receivers :
             r.receivers[i] \in Co /\ r.receivers[i] = r.receivers[j] => i = j
        /\ r.receivers # <<>> => r.buffer = <<>> /\ r.senders = <<>> /\ ~r.closed
    BY <1>2, <1>3, <1>6
  <2>2. h \in Ctx => /\ r.senders = <<>>
                     /\ r.closed => ctx[h].status = "canceled"
                     /\ ctx[h].status = "none" => r.receivers = <<>>
    BY <1>2, <1>3
  <2>3. h \notin Ctx => ToSet(r.receivers) \subseteq Co
    BY <1>3, <1>4, <1>5, <1>7
  <2> QED
    BY <1>1, <2>1, <2>2, <2>3, ListsStep
<1>9. chan'[h] = r /\ \A g \in Chan \ {h} : chan'[g] = chan[g]
  BY <1>1
<1> QED
  BY <1>3, <1>5, <1>8, <1>9 DEF Entries, Offers, Joins, s

LEMMA ClosesLists ==
    ASSUME Typed, Lists, UNCHANGED ctx, NEW h \in Chan \ Ctx,
           chan' = [chan EXCEPT ![h].closed = TRUE, ![h].receivers = <<>>]
    PROVE  Lists' /\ NoneJoins /\ Entries(h)' = {}
<1> DEFINE r == [chan[h] EXCEPT !.closed = TRUE, !.receivers = <<>>]
<1>1. /\ chan \in [Chan -> Channel] /\ chan[h] \in Channel /\ chan' = [chan EXCEPT ![h] = r]
  BY DataTypes DEF ChannelTypes
<1>2. r.receivers = <<>> /\ r.senders = chan[h].senders
  BY <1>1 DEF Channel
<1> HIDE DEF r
<1>3. ToSet(<<>>) = {} /\ DOMAIN <<>> = {}
  BY EmptySeq DEF ToSet
<1>4. Lists' /\ NoneJoins
  BY <1>1, <1>2, <1>3, ListsStep, ChannelShrinks DEF Offers
<1>5. chan'[h] = r
  BY <1>1
<1> QED
  BY <1>2, <1>3, <1>4, <1>5 DEF Entries

LEMMA CancelsLists ==
    ASSUME Typed, Lists, NEW x, Cancels(x)
    PROVE  /\ Lists' /\ NoneJoins
           /\ \A h \in Chan : \/ Entries(h)' = {} /\ Entries(h) \subseteq Notified(x)
                              \/ Entries(h)' = Entries(h)
           /\ \A h \in Chan : Offers(h)' = Offers(h)
           /\ \A d \in Notified(x) : \E h \in Chan : d \in Entries(h) /\ Entries(h)' = {}
<1> DEFINE C == Canceling(x)
<1>1. /\ chan \in [Chan -> Channel] /\ ctx \in [Ctx -> Context] /\ C \subseteq Ctx
      /\ Ctx \subseteq Chan
  BY DataTypes, CoroutinesAssumption DEF ChannelTypes, LocalTypes, Canceling, LiveBelow
<1> HIDE DEF C
<1>2. ASSUME NEW h \in Chan
      PROVE  /\ chan'[h].senders = chan[h].senders
             /\ h \in C => chan'[h].receivers = <<>>
             /\ h \notin C => chan'[h] = chan[h]
  <2>1. chan[h] \in Channel
    BY <1>1
  <2>2. chan'[h] = IF h \in C THEN [chan[h] EXCEPT !.closed = TRUE, !.receivers = <<>>]
                   ELSE chan[h]
    BY DEF Cancels, C
  <2> QED
    BY <2>1, <2>2 DEF Channel
<1>3. ASSUME NEW y \in Ctx
      PROVE  ctx'[y].status = IF y \in C THEN "canceled" ELSE ctx[y].status
  <2>1. ctx[y] \in Context
    BY <1>1
  <2>2. ctx'[y] = IF y \in C THEN [ctx[y] EXCEPT !.status = "canceled", !.children = {}]
                  ELSE [ctx[y] EXCEPT !.children = @ \ C]
    BY DEF Cancels, C
  <2> QED
    BY <2>1, <2>2 DEF Context
<1>4. ToSet(<<>>) = {} /\ DOMAIN <<>> = {}
  BY EmptySeq DEF ToSet
<1>5. ASSUME NEW h \in Chan
      PROVE  /\ Offers(h)' = Offers(h)
             /\ Entries(h)' = IF h \in C THEN {} ELSE Entries(h)
  BY <1>2, <1>4 DEF Entries, Offers
<1>6. Notified(x) = UNION {Entries(y) : y \in C}
  BY DEF Notified, Entries, C
<1>7. ReceivingOnce'
  <2> SUFFICES ASSUME NEW h \in Chan
               PROVE  \A i, j \in DOMAIN chan'[h].receivers :
                        chan'[h].receivers[i] \in Co
                        /\ chan'[h].receivers[i] = chan'[h].receivers[j] => i = j
    BY DEF ReceivingOnce
  <2>1. CASE h \in C
    BY <1>2, <1>4, <2>1
  <2>2. CASE h \notin C
    BY <1>2, <2>2 DEF Lists, ReceivingOnce
  <2> QED
    BY <2>1, <2>2
<1>8. ReceiversFirst'
  BY <1>2 DEF Lists, ReceiversFirst
<1>9. DoneChannels'
  <2>1. ASSUME NEW y \in Ctx
        PROVE  /\ chan'[y].senders = <<>>
               /\ chan'[y].closed => ctx'[y].status = "canceled"
               /\ ctx'[y].status = "none" => chan'[y].receivers = <<>>
    <3>1. CASE y \in C
      BY <1>1, <1>2, <1>3, <3>1 DEF Lists, DoneChannels
    <3>2. CASE y \notin C
      <4>1. chan'[y] = chan[y] /\ ctx'[y].status = ctx[y].status
        BY <1>1, <1>2, <1>3, <3>2
      <4> QED
        BY <4>1 DEF Lists, DoneChannels
    <3> QED
      BY <3>1, <3>2
  <2>2. \A h \in Chan \ Ctx : Entries(h)' \subseteq Co
    BY <1>5 DEF Lists, DoneChannels
  <2> QED
    BY <2>1, <2>2 DEF DoneChannels
<1>10. NoneJoins
  BY <1>5 DEF NoneJoins
<1> QED
  BY <1>1, <1>5, <1>6, <1>7, <1>8, <1>9, <1>10 DEF Lists

LEMMA WithCancelLists ==
    ASSUME Typed, Lists, NEW c \in Co, NEW o, WithCancel(c, o)
    PROVE  Lists' /\ NoneJoins
<1> DEFINE n == o.on
           q == o.parent
           late == ctx[q].status = "canceled"
<1>1. /\ Calls(c, o) /\ o.kind = "withCancel"
      /\ chan' = [chan EXCEPT ![n].closed = late]
      /\ ctx' = IF late
                THEN [ctx EXCEPT ![n].status = "canceled", ![n].parent = q]
                ELSE [ctx EXCEPT ![n].status = "live", ![n].parent = q,
                                 ![q].children = @ \cup {n}]
  BY DEF WithCancel
<1>2. n \in Ctx /\ q \in Ctx /\ ctx[n].status = "none" /\ ctx[q].status # "none" /\ n # q
  BY <1>1, NewUnderParent
<1>3. /\ chan \in [Chan -> Channel] /\ ctx \in [Ctx -> Context] /\ Ctx \subseteq Chan
  BY DataTypes, CoroutinesAssumption DEF ChannelTypes, LocalTypes
<1> HIDE DEF n, q
<1>4. ASSUME NEW h \in Chan
      PROVE  /\ chan'[h].receivers = chan[h].receivers /\ chan'[h].buffer = chan[h].buffer
             /\ chan'[h].senders = chan[h].senders
             /\ h # n => chan'[h].closed = chan[h].closed
             /\ h = n => (chan'[h].closed <=> late)
  <2>1. chan[h] \in Channel
    BY <1>3
  <2>2. CASE h # n
    BY <1>1, <1>3, <2>2
  <2>3. CASE h = n
    <3>1. chan'[h] = [chan[h] EXCEPT !.closed = late]
      BY <1>1, <1>3, <2>3
    <3> HIDE DEF late
    <3> QED
      BY <2>1, <2>3, <3>1 DEF Channel
  <2> QED
    BY <2>2, <2>3
<1>5. ASSUME NEW x \in Ctx
      PROVE  /\ x # n => ctx'[x].status = ctx[x].status
             /\ x = n => ctx'[x].status = IF late THEN "canceled" ELSE "live"
  <2>1. ctx[x] \in Context
    BY <1>3
  <2>2. CASE late
    BY <1>1, <1>2, <1>3, <2>1, <2>2 DEF Context
  <2>3. CASE ~late
    <3>1. CASE x = n
      <4>1. ctx'[x] = [ctx[x] EXCEPT !.status = "live", !.parent = q]
        BY <1>1, <1>2, <1>3, <2>3, <3>1
      <4> QED
        BY <2>1, <2>3, <3>1, <4>1 DEF Context
    <3>2. CASE x = q
      <4>1. ctx'[x] = [ctx[x] EXCEPT !.children = @ \cup {n}]
        BY <1>1, <1>2, <1>3, <2>3, <3>2
      <4> QED
        BY <1>2, <2>1, <3>2, <4>1 DEF Context
    <3>3. CASE x # n /\ x # q
      BY <1>1, <1>3, <2>3, <3>3
    <3> QED
      BY <3>1, <3>2, <3>3
  <2> QED
    BY <2>2, <2>3
<1>6. chan[n].receivers = <<>>
  BY <1>2 DEF Lists, DoneChannels
<1>7. ReceivingOnce' /\ ReceiversFirst'
  BY <1>4, <1>6 DEF Lists, ReceivingOnce, ReceiversFirst
<1>8. DoneChannels'
  <2>1. ASSUME NEW x \in Ctx
        PROVE  /\ chan'[x].senders = <<>>
               /\ chan'[x].closed => ctx'[x].status = "canceled"
               /\ ctx'[x].status = "none" => chan'[x].receivers = <<>>
    <3>0. x \in Chan
      BY <1>3
    <3>1. CASE x = n
      BY <1>4, <1>5, <1>6, <3>0, <3>1 DEF Lists, DoneChannels
    <3>2. CASE x # n
      BY <1>4, <1>5, <3>0, <3>2 DEF Lists, DoneChannels
    <3> QED
      BY <3>1, <3>2
  <2>2. \A h \in Chan \ Ctx : Entries(h)' \subseteq Co
    BY <1>4 DEF Lists, DoneChannels, Entries
  <2> QED
    BY <2>1, <2>2 DEF DoneChannels
<1>9. NoneJoins
  BY <1>4 DEF NoneJoins, Entries, Offers
<1> QED
  BY <1>7, <1>8, <1>9 DEF Lists

LEMMA DisconnectLists ==
    ASSUME Typed, Lists, NEW c \in Co, NEW o, Disconnect(c, o)
    PROVE  Lists' /\ NoneJoins
<1>1. /\ Calls(c, o) /\ o.kind = "disconnect" /\ UNCHANGED chan
      /\ ctx' = [ctx EXCEPT ![o.on].status = "live"]
  BY DEF Disconnect
<1>2. o.on \in Ctx /\ ctx[o.on].status = "none"
  BY <1>1, NewUnderParent
<1>3. ctx \in [Ctx -> Context]
  BY DataTypes DEF LocalTypes
<1>4. ASSUME NEW x \in Ctx
      PROVE  ctx'[x].status = IF x = o.on THEN "live" ELSE ctx[x].status
  BY <1>1, <1>3 DEF Context
<1>5. ReceivingOnce' /\ ReceiversFirst' /\ NoneJoins
  BY <1>1 DEF Lists, ReceivingOnce, ReceiversFirst, NoneJoins, Entries, Offers
<1>6. DoneChannels'
  BY <1>1, <1>2, <1>4 DEF Lists, DoneChannels, Entries
<1> QED
  BY <1>5, <1>6 DEF Lists

LEMMA TimerFiredLists ==
    ASSUME Typed, Lists, Reaching, NEW f \in Fut, TimerFired(f)
    PROVE  Lists' /\ NoneJoins
<1>1. /\ UNCHANGED ctx
      /\ chan' = [h \in Chan |-> [chan[h] EXCEPT !.receivers = RemoveReceiveCallback(@, f)]]
  BY DEF TimerFired
<1>2. f \notin Co /\ Ctx \subseteq Chan
  BY CoroutinesAssumption
<1>3. ASSUME NEW h \in Chan
      PROVE  /\ chan[h].receivers \in Seq(Co \cup Fut)
             /\ chan'[h].receivers = RemoveReceiveCallback(chan[h].receivers, f)
             /\ chan'[h].senders = chan[h].senders /\ chan'[h].buffer = chan[h].buffer
             /\ chan'[h].closed = chan[h].closed
  <2>1. chan[h] \in Channel
    BY DataTypes DEF ChannelTypes
  <2> QED
    BY <1>1, <2>1 DEF Channel
<1>4. ASSUME NEW h \in Chan
      PROVE  /\ Entries(h)' \subseteq Entries(h)
             /\ chan[h].receivers = <<>> => chan'[h].receivers = <<>>
             /\ \A i, j \in DOMAIN chan'[h].receivers :
                  chan'[h].receivers[i] \in Co
                  /\ chan'[h].receivers[i] = chan'[h].receivers[j] => i = j
  <2> DEFINE s == chan[h].receivers
             r == RemoveReceiveCallback(s, f)
  <2>1. \A i, j \in DOMAIN s : s[i] = f /\ s[j] = f => i = j
    <3>1. CASE h \in Ctx
      BY <3>1 DEF Reaching, RegisteredOnce
    <3>2. CASE h \notin Ctx
      <4>1. f \notin ToSet(s)
        BY <1>2, <3>2 DEF Lists, DoneChannels, Entries
      <4> QED
        BY <4>1 DEF ToSet
    <3> QED
      BY <3>1, <3>2
  <2>2. /\ s \in Seq(Co \cup Fut) /\ chan'[h].receivers = r
        /\ \A i, j \in DOMAIN s : s[i] \in Co /\ s[i] = s[j] => i = j
    BY <1>3 DEF Lists, ReceivingOnce
  <2> HIDE DEF s
  <2>3. /\ f \notin ToSet(r)
        /\ \A g : g # f => (g \in ToSet(r) <=> g \in ToSet(s))
        /\ \A g : (\A i, j \in DOMAIN s : s[i] = g /\ s[j] = g => i = j) =>
                  \A i, j \in DOMAIN r : r[i] = g /\ r[j] = g => i = j
    <3> HIDE DEF r
    <3> QED
      BY <2>1, <2>2, RemovedOnce DEF r
  <2>4. s = <<>> => r = <<>>
    <3>1. s = <<>> => f \notin ToSet(s)
      BY EmptySeq DEF ToSet
    <3> QED
      BY <2>2, <3>1, Removed
  <2> HIDE DEF r
  <2>5. ToSet(r) \subseteq ToSet(s)
    BY <2>3
  <2>6. \A i, j \in DOMAIN r : r[i] \in Co /\ r[i] = r[j] => i = j
    <3> TAKE i, j \in DOMAIN r
    <3> HAVE r[i] \in Co /\ r[i] = r[j]
    <3>1. \A k, l \in DOMAIN s : s[k] = r[i] /\ s[l] = r[i] => k = l
      BY <2>2
    <3> QED
      BY <2>3, <3>1
  <2> QED
    BY <2>2, <2>4, <2>5, <2>6 DEF Entries, s
<1>5. ReceivingOnce'
  BY <1>4 DEF ReceivingOnce
<1>6. ReceiversFirst'
  BY <1>3, <1>4 DEF Lists, ReceiversFirst
<1>7. DoneChannels'
  BY <1>1, <1>2, <1>3, <1>4 DEF Lists, DoneChannels
<1>8. NoneJoins
  BY <1>3, <1>4 DEF NoneJoins, Offers
<1> QED
  BY <1>5, <1>6, <1>7, <1>8 DEF Lists

\* Signals are kept while nobody waits for them.
LEMMA SignalChannelLists ==
    ASSUME Typed, Linked, NEW c \in Co, NEW o, SignalChannel(c, o)
    PROVE  Lists' /\ NoneJoins
<1> DEFINE s == o.on
           kept == Reverse(pending[s])
           r == [chan[s] EXCEPT !.buffer = @ \o kept]
<1>1. /\ Calls(c, o) /\ o.kind = "signalChannel"
      /\ chan' = [chan EXCEPT ![s] = r] /\ UNCHANGED ctx
  BY DEF SignalChannel
<1>2. s \in Signals /\ s \in Chan \ Ctx
  BY <1>1, Calling, SelectedCall, CallArguments, CoroutinesAssumption
<1>3. chan[s] \in Channel /\ pending[s] \in Seq(Value) /\ SignalsKept
  BY <1>2, DataTypes DEF ChannelTypes
<1>4. kept \in Seq(Value) /\ Len(kept) = Len(pending[s])
  BY <1>3, Reversed
<1>5. /\ r.receivers = chan[s].receivers /\ r.senders = chan[s].senders
      /\ r.closed = chan[s].closed /\ r.buffer = chan[s].buffer \o kept
  BY <1>3 DEF Channel
<1> HIDE DEF r, kept, s
<1>6. CASE chan[s].receivers = <<>>
  <2>1. ToSet(<<>>) = {} /\ DOMAIN <<>> = {}
    BY EmptySeq DEF ToSet
  <2>2. Lists
    BY DEF Linked
  <2> QED
    BY <1>1, <1>2, <1>5, <1>6, <2>1, <2>2, ListsStep, ChannelShrinks DEF Offers
<1>7. CASE chan[s].receivers # <<>>
  <2>1. s \in opened
    <3>1. chan[s].receivers \in Seq(Co \cup Fut)
      BY <1>3 DEF Channel
    <3>2. PICK d : d \in Entries(s)
      BY <1>7, <3>1, TailSet DEF Entries
    <3>3. d \in Co
      BY <1>2, <3>2 DEF Linked, Lists, DoneChannels
    <3>4. co[d].op.kind = "receive" /\ co[d].op.on = s
      BY <1>2, <3>2, <3>3 DEF Linked, Awaiting
    <3>5. Opened(co[d].op)
      BY <3>3, <3>4 DEF Typed, PendingCalls, AllOpened, NoOp
    <3> QED
      BY <1>2, <3>4, <3>5 DEF Opened
  <2>2. pending[s] = <<>>
    BY <1>2, <1>3, <2>1 DEF SignalsKept
  <2>3. kept = <<>>
    BY <1>4, <2>2, EmptySeq
  <2>4. chan[s].buffer = <<>> /\ chan[s].senders = <<>> /\ ~chan[s].closed
    BY <1>2, <1>7 DEF Linked, Lists, ReceiversFirst
  <2>5. r.buffer = <<>>
    BY <1>5, <2>3, <2>4, ConcatEmptySeq
  <2>6. /\ \A i, j \in DOMAIN r.receivers :
             r.receivers[i] \in Co /\ r.receivers[i] = r.receivers[j] => i = j
        /\ ToSet(r.receivers) \subseteq Co
    BY <1>2, <1>5 DEF Linked, Lists, ReceivingOnce, DoneChannels, Entries
  <2> QED
    BY <1>1, <1>2, <1>5, <2>4, <2>5, <2>6, ListsStep, ChannelShrinks
    DEF Linked, Entries, Offers
<1> QED
  BY <1>6, <1>7

\* What the end and the suspension of a call change.
LEMMA ReturnsEffect ==
    ASSUME Typed, NEW c \in Co, NEW W, NEW marks, NEW enables, Returns(c, W, marks, enables)
    PROVE  /\ UNCHANGED <<coroutines, over>>
           /\ \A d \in Co :
                /\ co'[d].life = co[d].life /\ co'[d].group = co[d].group
                /\ d = c => /\ co'[d].op = NoOp /\ ~co'[d].woken
                            /\ co'[d].left = co[d].left - 1
                /\ d # c => /\ co'[d].op = co[d].op /\ co'[d].waits = co[d].waits
                            /\ co'[d].left = co[d].left
                /\ d # c /\ d \notin W => co'[d].woken = co[d].woken
<1>1. UNCHANGED <<coroutines, over>>
  BY DEF Returns, scheduling
<1>2. ASSUME NEW d \in Co
      PROVE  /\ co'[d].life = co[d].life /\ co'[d].group = co[d].group
             /\ d = c => /\ co'[d].op = NoOp /\ ~co'[d].woken
                         /\ co'[d].left = co[d].left - 1
             /\ d # c => /\ co'[d].op = co[d].op /\ co'[d].waits = co[d].waits
                         /\ co'[d].left = co[d].left
             /\ d # c /\ d \notin W => co'[d].woken = co[d].woken
  <2>1. co[d] \in CoState
    BY ControlTypes DEF Control
  <2>2. CASE d = c
    <3>1. co'[d] = [co[d] EXCEPT !.op = NoOp, !.woken = FALSE, !.waits = FALSE, !.left = @ - 1]
      BY <2>2 DEF Returns
    <3> QED
      BY <2>1, <2>2, <3>1 DEF CoState
  <2>3. CASE d # c /\ d \in W
    <3>1. co'[d] = [co[d] EXCEPT !.woken = TRUE]
      BY <2>3 DEF Returns
    <3> QED
      BY <2>1, <2>3, <3>1 DEF CoState
  <2>4. CASE d # c /\ d \notin W
    BY <2>4 DEF Returns
  <2> QED
    BY <2>2, <2>3, <2>4
<1> QED
  BY <1>1, <1>2

LEMMA YieldsEffect ==
    ASSUME Typed, NEW c \in Co, NEW o, NEW registers \in BOOLEAN, Yields(c, o, registers)
    PROVE  /\ UNCHANGED <<coroutines, over>>
           /\ \A d \in Co : d # c => co'[d] = co[d]
           /\ co'[c].life = co[c].life /\ co'[c].group = co[c].group
           /\ co'[c].op = o /\ co'[c].woken = co[c].woken /\ co'[c].left = co[c].left
           /\ co'[c].waits <=> co[c].waits \/ registers
<1>1. UNCHANGED <<coroutines, over>>
  BY DEF Yields, YieldsTurn, MovesTo
<1>2. co \in [Co -> CoState] /\ co[c] \in CoState
  BY ControlTypes DEF Control
<1> DEFINE w == co[c].waits \/ registers
<1>3. w \in BOOLEAN
  BY Zenon
<1>4. co' = [co EXCEPT ![c] = [co[c] EXCEPT !.op = o, !.waits = w]]
  BY DEF Yields
<1> HIDE DEF w
<1>5. /\ \A d \in Co : d # c => co'[d] = co[d]
      /\ co'[c] = [co[c] EXCEPT !.op = o, !.waits = w]
  BY <1>2, <1>4
<1>6. /\ co'[c].life = co[c].life /\ co'[c].group = co[c].group
      /\ co'[c].op = o /\ co'[c].woken = co[c].woken /\ co'[c].left = co[c].left
      /\ co'[c].waits = w
  BY <1>2, <1>5 DEF CoState
<1> QED
  BY <1>1, <1>5, <1>6 DEF w

\* Whoever is still in a list is in the same call as before, or in a Receive.
LEMMA LinksKept ==
    ASSUME Typed, Awaiting, Offered,
           \A h \in Chan, d \in Co : d \in Entries(h)' =>
             \/ d \in Entries(h) /\ co'[d].op = co[d].op /\ co'[d].woken = co[d].woken
             \/ co'[d].op.kind = "receive" /\ co'[d].op.on = h /\ ~co'[d].woken,
           \A h \in Chan : \A v \in Offers(h)' :
             \/ v \in Offers(h)
             \/ /\ v[1] \in Co /\ co'[v[1]].life # "none"
                /\ v[2] = co'[v[1]].left /\ co'[v[1]].op.kind = "send",
           \A d \in Co : co[d].life # "none" =>
             /\ co'[d].life # "none"
             /\ \/ /\ co'[d].left = co[d].left
                   /\ co[d].op.kind = "send" => co'[d].op.kind = "send"
                \/ co'[d].left = co[d].left - 1
    PROVE  Awaiting' /\ Offered'
<1>1. Awaiting'
  BY DEF Awaiting
<1>2. ASSUME NEW h \in Chan, NEW v \in Offers(h)', v \in Offers(h)
      PROVE  /\ v[1] \in Co /\ co'[v[1]].life # "none"
             /\ v[2] > co'[v[1]].left
                \/ (v[2] = co'[v[1]].left /\ co'[v[1]].op.kind = "send")
  <2> DEFINE d == v[1]
  <2>1. /\ d \in Co /\ co[d].life # "none"
        /\ v[2] > co[d].left \/ (v[2] = co[d].left /\ co[d].op.kind = "send")
    BY <1>2 DEF Offered
  <2>2. chan[h].senders \in Seq(Value)
    BY DataTypes
  <2>3. v \in Value
    BY <1>2, <2>2 DEF Offers, ToSet
  <2>4. v[2] \in Int /\ co[d].left \in Int
    BY <2>1, <2>3, ControlTypes, CoroutinesAssumption DEF Value, Control, CoState
  <2>5. /\ co'[d].life # "none"
        /\ \/ /\ co'[d].left = co[d].left
              /\ co[d].op.kind = "send" => co'[d].op.kind = "send"
           \/ co'[d].left = co[d].left - 1
    BY <2>1
  <2> HIDE DEF d
  <2>6. v[2] > co'[d].left \/ (v[2] = co'[d].left /\ co'[d].op.kind = "send")
    BY <2>1, <2>4, <2>5
  <2> QED
    BY <2>1, <2>5, <2>6 DEF d
<1>3. Offered'
  <2> SUFFICES ASSUME NEW h \in Chan, NEW v \in Offers(h)'
               PROVE  /\ v[1] \in Co /\ co'[v[1]].life # "none"
                      /\ v[2] > co'[v[1]].left
                         \/ (v[2] = co'[v[1]].left /\ co'[v[1]].op.kind = "send")
    BY DEF Offered
  <2>1. CASE v \in Offers(h)
    BY <1>2, <2>1
  <2>2. CASE v \notin Offers(h)
    BY <2>2
  <2> QED
    BY <2>1, <2>2
<1> QED
  BY <1>1, <1>3

\* The running call leaves every list, and so does whoever it wakes.
LEMMA ReturnsLinks ==
    ASSUME Typed, Linked, NEW c \in Co, co[c].life # "none",
           NEW W, NEW marks, NEW enables, Returns(c, W, marks, enables),
           NoneJoins, Lists',
           \A h \in Chan : c \notin Entries(h)',
           \A d \in W : d \in Co /\ d # c =>
             co[d].op.kind \in {"send", "receive"} /\ \A h \in Chan : d \notin Entries(h)'
    PROVE  Linked'
<1>1. \A d \in Co :
        /\ co'[d].life = co[d].life
        /\ d = c => /\ co'[d].op = NoOp /\ ~co'[d].woken
                    /\ co'[d].left = co[d].left - 1
        /\ d # c => /\ co'[d].op = co[d].op /\ co'[d].waits = co[d].waits
                    /\ co'[d].left = co[d].left
        /\ d # c /\ d \notin W => co'[d].woken = co[d].woken
  BY ReturnsEffect
<1>2. Resting'
  <2> SUFFICES ASSUME NEW d \in Co
               PROVE  /\ co'[d].op = NoOp => ~co'[d].woken
                      /\ co'[d].op.kind \in {"receive", "wait"} => co'[d].waits
                      /\ co'[d].life = "none" => co'[d].op = NoOp
    BY DEF Resting
  <2>1. NoOp.kind = "none"
    BY DEF NoOp
  <2>2. CASE d = c
    BY <1>1, <2>1, <2>2
  <2>3. CASE d # c /\ d \notin W
    BY <1>1, <2>3 DEF Linked, Resting
  <2>4. CASE d # c /\ d \in W
    <3>1. co[d].op # NoOp
      BY <2>1, <2>4
    <3> QED
      BY <1>1, <2>4, <3>1 DEF Linked, Resting
  <2> QED
    BY <2>2, <2>3, <2>4
<1>3. Awaiting' /\ Offered'
  <2>1. \A h \in Chan, d \in Co : d \in Entries(h)' =>
          d \in Entries(h) /\ co'[d].op = co[d].op /\ co'[d].woken = co[d].woken
    BY <1>1 DEF NoneJoins
  <2>2. \A h \in Chan : \A v \in Offers(h)' : v \in Offers(h)
    BY DEF NoneJoins
  <2>3. \A d \in Co : co[d].life # "none" =>
          /\ co'[d].life # "none"
          /\ \/ co'[d].left = co[d].left /\ co'[d].op = co[d].op
             \/ co'[d].left = co[d].left - 1
    BY <1>1
  <2> QED
    BY <2>1, <2>2, <2>3, LinksKept DEF Linked
<1> QED
  BY <1>2, <1>3 DEF Linked

\* The running call is suspended, in no list or in one.
LEMMA YieldsLinks ==
    ASSUME Typed, Linked, NEW c \in Co, NEW o, Calls(c, o), co[c].life # "none",
           NEW registers \in BOOLEAN, Yields(c, o, registers), Lists',
           o.kind \in {"receive", "wait"} => registers,
           \/ NoneJoins
           \/ /\ o.kind = "receive" /\ o.on \in Chan /\ ~co[c].woken
              /\ Joins(c, o.on)
           \/ /\ o.kind = "send" /\ o.on \in Chan
              /\ Offers(o.on)' = Offers(o.on) \cup {Call(c)}
              /\ \A g \in Chan : Entries(g)' = Entries(g) /\ (g # o.on => Offers(g)' = Offers(g))
    PROVE  Linked'
<1>1. /\ \A d \in Co : d # c => co'[d] = co[d]
      /\ co'[c].life = co[c].life
      /\ co'[c].op = o /\ co'[c].woken = co[c].woken /\ co'[c].left = co[c].left
      /\ co'[c].waits <=> co[c].waits \/ registers
  BY YieldsEffect
<1>2. o # NoOp /\ (co[c].op = NoOp \/ co[c].op = o) /\ NoOp.kind = "none"
  <2>1. o \in AllCalls
    BY Calling
  <2> QED
    BY <2>1, SelectedCall, Zenon DEF Calls, NoOp
<1>3. Resting'
  <2> SUFFICES ASSUME NEW d \in Co
               PROVE  /\ co'[d].op = NoOp => ~co'[d].woken
                      /\ co'[d].op.kind \in {"receive", "wait"} => co'[d].waits
                      /\ co'[d].life = "none" => co'[d].op = NoOp
    BY DEF Resting
  <2>1. CASE d = c
    BY <1>1, <1>2, <2>1
  <2>2. CASE d # c
    BY <1>1, <2>2 DEF Linked, Resting
  <2> QED
    BY <2>1, <2>2
<1>4. \A h \in Chan : c \in Entries(h) => co[c].op = o
  BY <1>2 DEF Linked, Awaiting
<1>5. \A d \in Co : co[d].life # "none" =>
        /\ co'[d].life # "none" /\ co'[d].left = co[d].left
        /\ co[d].op.kind = "send" => co'[d].op.kind = "send"
  BY <1>1, <1>2
<1>6. Awaiting' /\ Offered'
  <2>1. CASE NoneJoins
    <3>1. \A h \in Chan, d \in Co : d \in Entries(h)' =>
            d \in Entries(h) /\ co'[d].op = co[d].op /\ co'[d].woken = co[d].woken
      BY <1>1, <1>4, <2>1 DEF NoneJoins
    <3>2. \A h \in Chan : \A v \in Offers(h)' : v \in Offers(h)
      BY <2>1 DEF NoneJoins
    <3> QED
      BY <1>5, <3>1, <3>2, LinksKept DEF Linked
  <2>2. CASE /\ o.kind = "receive" /\ o.on \in Chan /\ ~co[c].woken
             /\ Joins(c, o.on)
    <3>1. \A h \in Chan, d \in Co : d \in Entries(h)' =>
            \/ d \in Entries(h) /\ co'[d].op = co[d].op /\ co'[d].woken = co[d].woken
            \/ co'[d].op.kind = "receive" /\ co'[d].op.on = h /\ ~co'[d].woken
      <4> TAKE h \in Chan, d \in Co
      <4> HAVE d \in Entries(h)'
      <4>1. d \in Entries(h) \/ (h = o.on /\ d = c)
        BY <2>2 DEF Joins
      <4> QED
        BY <1>1, <1>4, <2>2, <4>1
    <3>2. \A h \in Chan : \A v \in Offers(h)' : v \in Offers(h)
      BY <2>2 DEF Joins
    <3> QED
      BY <1>5, <3>1, <3>2, LinksKept DEF Linked
  <2>3. CASE /\ o.kind = "send" /\ o.on \in Chan
             /\ Offers(o.on)' = Offers(o.on) \cup {Call(c)}
             /\ \A g \in Chan : Entries(g)' = Entries(g) /\ (g # o.on => Offers(g)' = Offers(g))
    <3>1. \A h \in Chan, d \in Co : d \in Entries(h)' =>
            d \in Entries(h) /\ co'[d].op = co[d].op /\ co'[d].woken = co[d].woken
      BY <1>1, <1>4, <2>3
    <3>2. \A h \in Chan : \A v \in Offers(h)' : v \in Offers(h) \/ v = Call(c)
      BY <2>3
    <3>3. /\ Call(c)[1] = c /\ Call(c)[2] = co'[c].left
          /\ co'[c].life # "none" /\ co'[c].op.kind = "send"
      BY <1>1, <2>3 DEF Call
    <3> QED
      BY <1>5, <3>1, <3>2, <3>3, LinksKept DEF Linked
  <2> QED
    BY <2>1, <2>2, <2>3
<1> QED
  BY <1>3, <1>6 DEF Linked

\* Coroutines wake up, or end, outside of a call.
LEMMA WakesLinks ==
    ASSUME Typed, Linked, NoneJoins, Lists',
           \A d \in Co :
             \/ co'[d] = co[d]
             \/ /\ co'[d] = [co[d] EXCEPT !.woken = TRUE]
                /\ co[d].op.kind \in {"send", "receive"} /\ \A h \in Chan : d \notin Entries(h)'
             \/ co'[d] = [co[d] EXCEPT !.life = "finished"] /\ co[d].op = NoOp
    PROVE  Linked'
<1>1. ASSUME NEW d \in Co
      PROVE  /\ co'[d].op = co[d].op /\ co'[d].waits = co[d].waits /\ co'[d].left = co[d].left
             /\ \/ co'[d].woken = co[d].woken
                \/ co[d].op # NoOp /\ \A h \in Chan : d \notin Entries(h)'
             /\ co'[d].life = co[d].life
                \/ (co'[d].life = "finished" /\ co[d].op = NoOp /\ co'[d].woken = co[d].woken)
  <2>1. co[d] \in CoState /\ NoOp.kind = "none"
    BY ControlTypes DEF Control, NoOp
  <2>2. CASE co'[d] = co[d]
    BY <2>2
  <2>3. CASE /\ co'[d] = [co[d] EXCEPT !.woken = TRUE]
             /\ co[d].op.kind \in {"send", "receive"} /\ \A h \in Chan : d \notin Entries(h)'
    <3>1. co[d].op # NoOp
      BY <2>1, <2>3
    <3> QED
      BY <2>1, <2>3, <3>1 DEF CoState
  <2>4. CASE co'[d] = [co[d] EXCEPT !.life = "finished"] /\ co[d].op = NoOp
    BY <2>1, <2>4 DEF CoState
  <2> QED
    BY <2>2, <2>3, <2>4
<1>2. Resting'
  <2> SUFFICES ASSUME NEW d \in Co
               PROVE  /\ co'[d].op = NoOp => ~co'[d].woken
                      /\ co'[d].op.kind \in {"receive", "wait"} => co'[d].waits
                      /\ co'[d].life = "none" => co'[d].op = NoOp
    BY DEF Resting
  <2> QED
    BY <1>1 DEF Linked, Resting
<1>3. \A h \in Chan, d \in Co : d \in Entries(h)' =>
        d \in Entries(h) /\ co'[d].op = co[d].op /\ co'[d].woken = co[d].woken
  BY <1>1 DEF NoneJoins
<1>4. \A h \in Chan : \A v \in Offers(h)' : v \in Offers(h)
  BY DEF NoneJoins
<1>5. \A d \in Co : co[d].life # "none" =>
        /\ co'[d].life # "none" /\ co'[d].left = co[d].left /\ co'[d].op = co[d].op
  BY <1>1
<1>6. Awaiting' /\ Offered'
  BY <1>3, <1>4, <1>5, LinksKept DEF Linked
<1> QED
  BY <1>2, <1>6 DEF Linked

\* The group of a Wait.
LEMMA WaitGroup ==
    ASSUME Typed, NEW c \in Co, co[c].op.kind = "wait"
    PROVE  co[c].op.on \in Groups /\ co[c].op \in AllCalls
<1>1. co[c].op \in AllCalls
  BY ControlTypes DEF Control, CoState, NoOp
<1> QED
  BY <1>1, SelectedCall, CallArguments

\* No count that has set its future while somebody waits rises again.
Settled(g) == group[g].waiting /\ (group[g].done => group[g].n = 0)
SettledThen(g) == group'[g].waiting /\ (group'[g].done => group'[g].n = 0)

LEMMA WaitedKept ==
    ASSUME Typed, Waited, \A g \in Groups : Settled(g) => SettledThen(g),
           \A d \in Co : co'[d].op.kind = "wait" =>
             \/ co'[d].op = co[d].op /\ co'[d].woken = co[d].woken
             \/ ~co'[d].woken /\ SettledThen(co'[d].op.on)
    PROVE  Waited'
<1> SUFFICES ASSUME NEW d \in Co, co'[d].op.kind = "wait"
             PROVE  ~co'[d].woken /\ SettledThen(co'[d].op.on)
  BY DEF Waited, SettledThen
<1>1. CASE co'[d].op = co[d].op /\ co'[d].woken = co[d].woken
  <2>1. ~co[d].woken /\ Settled(co[d].op.on)
    BY <1>1 DEF Waited, Settled
  <2>2. co[d].op.on \in Groups
    BY <1>1, WaitGroup
  <2>3. SettledThen(co[d].op.on)
    BY <2>1, <2>2
  <2>4. SettledThen(co'[d].op.on)
    BY <1>1, <2>3
  <2> QED
    BY <1>1, <2>1, <2>4
<1>2. CASE ~co'[d].woken /\ SettledThen(co'[d].op.on)
  BY <1>2
<1> QED
  BY <1>1, <1>2

LEMMA GroupedKept ==
    ASSUME Typed, Grouped, UNCHANGED coroutines,
           \A d \in Co : co'[d].life = co[d].life /\ co'[d].group = co[d].group,
           \A g \in Groups \cap Ctx : group'[g].n = group[g].n,
           Waited'
    PROVE  Grouped'
<1>1. \A g : Members(g)' = Members(g)
  BY DEF Members
<1>2. Counted'
  BY <1>1 DEF Grouped, Counted
<1>3. \A i \in DOMAIN coroutines : coroutines[i] \in Co
  BY ControlTypes DEF Control, Scheduled
<1>4. Listed'
  BY <1>3 DEF Grouped, Listed
<1> QED
  BY <1>2, <1>4 DEF Grouped

LEMMA ReturnsGrouped ==
    ASSUME Typed, Grouped, NEW c \in Co,
           NEW W, NEW marks, NEW enables, Returns(c, W, marks, enables),
           \A d \in W : d \in Co /\ d # c => co[d].op.kind \in {"send", "receive"},
           \A g \in Groups : Settled(g) => SettledThen(g),
           \A g \in Groups \cap Ctx : group'[g].n = group[g].n
    PROVE  Grouped'
<1>1. /\ UNCHANGED coroutines
      /\ \A d \in Co :
           /\ co'[d].life = co[d].life /\ co'[d].group = co[d].group
           /\ d = c => co'[d].op = NoOp
           /\ d # c => co'[d].op = co[d].op
           /\ d # c /\ d \notin W => co'[d].woken = co[d].woken
  BY ReturnsEffect
<1>2. \A d \in Co : co'[d].op.kind = "wait" =>
        co'[d].op = co[d].op /\ co'[d].woken = co[d].woken
  BY <1>1 DEF NoOp
<1>3. Waited'
  BY <1>2, WaitedKept DEF Grouped
<1> QED
  BY <1>1, <1>3, GroupedKept

LEMMA YieldsGrouped ==
    ASSUME Typed, Grouped, NEW c \in Co, NEW o, NEW registers \in BOOLEAN,
           Yields(c, o, registers),
           o.kind = "wait" => ~co[c].woken /\ SettledThen(o.on),
           \A g \in Groups : Settled(g) => SettledThen(g),
           \A g \in Groups \cap Ctx : group'[g].n = group[g].n
    PROVE  Grouped'
<1>1. /\ UNCHANGED coroutines
      /\ \A d \in Co : d # c => co'[d] = co[d]
      /\ co'[c].life = co[c].life /\ co'[c].group = co[c].group
      /\ co'[c].op = o /\ co'[c].woken = co[c].woken
  BY YieldsEffect
<1>2. ASSUME NEW d \in Co, co'[d].op.kind = "wait"
      PROVE  \/ co'[d].op = co[d].op /\ co'[d].woken = co[d].woken
             \/ ~co'[d].woken /\ SettledThen(co'[d].op.on)
  <2>1. CASE d = c
    <3>1. ~co'[d].woken /\ SettledThen(o.on)
      BY <1>1, <1>2, <2>1
    <3>2. SettledThen(co'[d].op.on)
      BY <1>1, <2>1, <3>1
    <3> QED
      BY <3>1, <3>2
  <2>2. CASE d # c
    BY <1>1, <2>2
  <2> QED
    BY <2>1, <2>2
<1>3. Waited'
  BY <1>2, WaitedKept DEF Grouped
<1> QED
  BY <1>1, <1>3, GroupedKept

-----------------------------------------------------------------------------
(* Every step keeps who waits for what, unless it panics or exits.         *)

LEMMA Running ==
    ASSUME Typed, Grouped, NEW c \in Co, Runs(c)
    PROVE  co[c].life = "live" /\ turn \in DOMAIN coroutines /\ coroutines[turn] = c
<1>1. /\ turn > 0 /\ coroutines[turn] = c /\ turn \in 0 .. Len(coroutines)
      /\ Len(coroutines) \in Nat /\ DOMAIN coroutines = 1 .. Len(coroutines)
  BY ControlTypes DEF Runs, Control, Scheduled
<1>2. turn \in DOMAIN coroutines
  BY <1>1
<1> QED
  BY <1>1, <1>2 DEF Grouped, Listed

LEMMA NotReceiving ==
    ASSUME Typed, Linked, NEW c \in Co, NEW o, Calls(c, o)
    PROVE  \A h \in Chan : c \in Entries(h) => o.kind = "receive" /\ o.on = h /\ o = co[c].op
<1>1. co[c].op = NoOp \/ o = co[c].op
  BY Zenon DEF Calls
<1> QED
  BY <1>1 DEF Linked, Awaiting, NoOp

SameGroups ==
    /\ \A g \in Groups : Settled(g) => SettledThen(g)
    /\ \A g \in Groups \cap Ctx : group'[g].n = group[g].n

LEMMA GroupsSame ==
    ASSUME UNCHANGED group
    PROVE  SameGroups
BY DEF SameGroups, Settled, SettledThen

LEMMA Returning ==
    ASSUME Typed, Linked, Grouped, NEW c \in Co, NEW o, Calls(c, o),
           \A h \in Chan : c \notin Entries(h),
           NEW W, NEW marks, NEW enables, Returns(c, W, marks, enables),
           NoneJoins, Lists', SameGroups,
           \A d \in W : d \in Co /\ d # c =>
             co[d].op.kind \in {"send", "receive"} /\ \A h \in Chan : d \notin Entries(h)'
    PROVE  Linked' /\ Grouped'
<1>1. co[c].life # "none"
  BY Running DEF Calls
<1>2. \A h \in Chan : c \notin Entries(h)'
  BY DEF NoneJoins
<1> QED
  BY <1>1, <1>2, ReturnsLinks, ReturnsGrouped DEF SameGroups

LEMMA ReturningAlone ==
    ASSUME Typed, Linked, Grouped, NEW c \in Co, NEW o, Calls(c, o),
           \A h \in Chan : c \notin Entries(h),
           \E marks, enables : Returns(c, {}, marks, enables),
           NoneJoins, Lists', SameGroups
    PROVE  Linked' /\ Grouped'
<1>1. PICK marks, enables : Returns(c, {}, marks, enables)
  OBVIOUS
<1> QED
  BY <1>1, Returning

\* The first in the list of h is in no other.
LEMMA FirstLeaves ==
    ASSUME Typed, Linked, NoneJoins, NEW h \in Chan, NEW d \in Entries(h), d \in Co,
           d \notin Entries(h)'
    PROVE  co[d].op.kind = "receive" /\ \A g \in Chan : d \notin Entries(g)'
<1>1. co[d].op.kind = "receive" /\ co[d].op.on = h
  BY DEF Linked, Awaiting
<1>2. \A g \in Chan : d \in Entries(g) => g = h
  BY <1>1 DEF Linked, Awaiting
<1> QED
  BY <1>1, <1>2 DEF NoneJoins

LEMMA SameChannels ==
    ASSUME Typed, Lists, UNCHANGED <<chan, ctx>>
    PROVE  Lists' /\ NoneJoins
BY DEF Lists, ReceivingOnce, ReceiversFirst, DoneChannels, NoneJoins, Entries, Offers

LEMMA SendLinked ==
    ASSUME Typed, Linked, Grouped, NEW c \in Co, NEW o, Send(c, o), ~over'
    PROVE  Linked' /\ Grouped'
<1> PICK k, v : k = Selected(o) /\ v = Call(c)
  OBVIOUS
<1> DEFINE h == k.on
           blocking == k.kind = "send"
<1>1. /\ Calls(c, o) /\ k.kind \in {"send", "sendNB"} /\ ~co[c].woken
      /\ UNCHANGED ctx /\ UNCHANGED group
  BY DEF Send
<1>2. /\ h \in Chan \ Ctx /\ v \in Value
      /\ o.kind # "select" => k = o
      /\ o.kind = "select" => k.kind = "send" /\ CaseReady(k)
  BY <1>1, SelectedChannel
<1>3. \A g \in Chan : c \notin Entries(g)
  BY <1>1, <1>2, NotReceiving
<1>4. Lists /\ SameGroups
  BY <1>1, GroupsSame DEF Linked
<1>5. \/ HandOver(h, v) /\ Returns(c, {Head(chan[h].receivers)}, blocking, ~blocking)
      \/ PutInBuffer(h, v) /\ Returns(c, {}, blocking, ~blocking)
      \/ UNCHANGED chan /\ Returns(c, {}, FALSE, FALSE)
      \/ /\ ~chan[h].closed /\ ~CanSend(h) /\ blocking /\ Yields(c, o, TRUE)
         /\ chan' = IF co[c].waits THEN chan
                    ELSE [chan EXCEPT ![h].senders = Append(@, v)]
  BY DEF Send, Panics
<1> HIDE DEF h
<1>6. CASE HandOver(h, v) /\ Returns(c, {Head(chan[h].receivers)}, blocking, ~blocking)
  <2> DEFINE d == Head(chan[h].receivers)
  <2>1. /\ Lists' /\ NoneJoins /\ d \in Entries(h)
        /\ d \in Co => d \notin Entries(h)'
    BY <1>1, <1>2, <1>4, <1>6, HandOverLists
  <2> HIDE DEF d
  <2>2. d \in Co => co[d].op.kind = "receive" /\ \A g \in Chan : d \notin Entries(g)'
    BY <1>2, <2>1, FirstLeaves
  <2>3. Returns(c, {d}, blocking, ~blocking)
    BY <1>6 DEF d
  <2> HIDE DEF blocking
  <2> QED
    BY <1>1, <1>3, <1>4, <2>1, <2>2, <2>3, Returning
<1>7. CASE PutInBuffer(h, v) /\ Returns(c, {}, blocking, ~blocking)
  <2>1. Lists' /\ NoneJoins
    BY <1>1, <1>2, <1>4, <1>7, ValuesLists
  <2> HIDE DEF blocking
  <2> QED
    BY <1>1, <1>3, <1>4, <1>7, <2>1, ReturningAlone
<1>8. CASE UNCHANGED chan /\ Returns(c, {}, FALSE, FALSE)
  <2>1. Lists' /\ NoneJoins
    BY <1>1, <1>4, <1>8, SameChannels
  <2>2. \E marks, enables : Returns(c, {}, marks, enables)
    BY <1>8
  <2> QED
    BY <1>1, <1>3, <1>4, <2>1, <2>2, ReturningAlone
<1>9. CASE /\ ~chan[h].closed /\ ~CanSend(h) /\ blocking /\ Yields(c, o, TRUE)
           /\ chan' = IF co[c].waits THEN chan
                      ELSE [chan EXCEPT ![h].senders = Append(@, v)]
  <2>1. k = o /\ o.kind = "send" /\ h = o.on
    <3>1. o.kind # "select"
      BY <1>2, <1>9 DEF CaseReady, blocking, h
    <3> QED
      BY <1>2, <1>9, <3>1 DEF blocking, h
  <2>2. \/ NoneJoins
        \/ /\ Offers(h)' = Offers(h) \cup {v}
           /\ \A g \in Chan : Entries(g)' = Entries(g) /\ (g # h => Offers(g)' = Offers(g))
    <3>1. CASE co[c].waits
      BY <1>1, <1>4, <1>9, <3>1, SameChannels
    <3>2. CASE ~co[c].waits
      BY <1>1, <1>2, <1>4, <1>9, <3>2, OffersLists
    <3> QED
      BY <3>1, <3>2
  <2>3. Lists'
    <3>1. CASE co[c].waits
      BY <1>1, <1>4, <1>9, <3>1, SameChannels
    <3>2. CASE ~co[c].waits
      BY <1>1, <1>2, <1>4, <1>9, <3>2, OffersLists
    <3> QED
      BY <3>1, <3>2
  <2>4. co[c].life # "none"
    BY <1>1, Running DEF Calls
  <2>5. Linked'
    BY <1>1, <1>2, <1>9, <2>1, <2>2, <2>3, <2>4, YieldsLinks
  <2>6. Grouped'
    BY <1>4, <1>9, <2>1, YieldsGrouped DEF SameGroups
  <2> QED
    BY <2>5, <2>6
<1> QED
  BY <1>5, <1>6, <1>7, <1>8, <1>9

LEMMA ReceiveLinked ==
    ASSUME Typed, Linked, Grouped, NEW c \in Co, NEW o, Receive(c, o), ~over'
    PROVE  Linked' /\ Grouped'
<1> PICK k : k = Selected(o)
  OBVIOUS
<1> DEFINE h == k.on
           blocking == k.kind = "receive"
<1>1. /\ Calls(c, o) /\ k.kind \in {"receive", "receiveNB"} /\ ~co[c].woken
      /\ UNCHANGED ctx /\ UNCHANGED group
  BY DEF Receive
<1>2. /\ h \in Chan
      /\ o.kind # "select" => k = o
      /\ o.kind = "select" => k.kind = "receive" /\ CaseReady(k)
  BY <1>1, SelectedChannel
<1>3. Lists /\ SameGroups
  BY <1>1, GroupsSame DEF Linked
<1>4. \/ TakeFromBuffer(h) /\ Returns(c, {}, blocking, ~blocking)
      \/ /\ TakeFromSender(h)
         /\ Returns(c, SenderOf(Head(chan[h].senders)), blocking, ~blocking)
      \/ chan[h].closed /\ UNCHANGED chan /\ Returns(c, {}, blocking, FALSE)
      \/ ~blocking /\ UNCHANGED chan /\ Returns(c, {}, FALSE, FALSE)
      \/ /\ ~CanReceive(h) /\ blocking /\ Yields(c, o, TRUE)
         /\ chan' = IF co[c].waits THEN chan
                    ELSE [chan EXCEPT ![h].receivers = Append(@, c)]
  BY DEF Receive
<1> HIDE DEF h
<1>5. ASSUME \/ chan[h].buffer # <<>> \/ chan[h].senders # <<>> \/ chan[h].closed
             \/ ~blocking
      PROVE  \A g \in Chan : c \notin Entries(g)
  <2> SUFFICES ASSUME NEW g \in Chan, c \in Entries(g) PROVE FALSE
    OBVIOUS
  <2>1. o.kind = "receive" /\ o.on = g
    BY <1>1, NotReceiving
  <2>2. h = g /\ blocking
    BY <1>2, <2>1 DEF h
  <2>3. chan[h].receivers # <<>>
    BY <2>2, EmptySeq DEF Entries, ToSet
  <2> QED
    BY <1>2, <1>5, <2>2, <2>3 DEF Linked, Lists, ReceiversFirst
<1>6. CASE TakeFromBuffer(h) /\ Returns(c, {}, blocking, ~blocking)
  <2>1. Lists' /\ NoneJoins
    BY <1>1, <1>2, <1>3, <1>6, ValuesLists
  <2>2. \A g \in Chan : c \notin Entries(g)
    BY <1>5, <1>6 DEF TakeFromBuffer
  <2> HIDE DEF blocking
  <2> QED
    BY <1>1, <1>3, <1>6, <2>1, <2>2, ReturningAlone
<1>7. CASE /\ TakeFromSender(h)
           /\ Returns(c, SenderOf(Head(chan[h].senders)), blocking, ~blocking)
  <2>1. Lists' /\ NoneJoins
    BY <1>1, <1>2, <1>3, <1>7, ValuesLists
  <2>2. \A g \in Chan : c \notin Entries(g)
    BY <1>5, <1>7 DEF TakeFromSender
  <2> PICK v : v = Head(chan[h].senders)
    OBVIOUS
  <2>3. v \in Offers(h)
    BY <1>2, <1>7, DataTypes, TailSet DEF TakeFromSender, Offers
  <2>4. ASSUME NEW d \in SenderOf(v), d \in Co
        PROVE  co[d].op.kind = "send" /\ \A g \in Chan : d \notin Entries(g)'
    <3>1. d = v[1] /\ co[d].op # NoOp /\ co[d].left = v[2]
      BY <2>4 DEF SenderOf, Call
    <3>2. co[d].left \in Int
      BY <2>4, ControlTypes DEF Control, CoState
    <3>3. co[d].op.kind = "send"
      BY <1>2, <2>3, <3>1, <3>2 DEF Linked, Offered
    <3>4. \A g \in Chan : d \notin Entries(g)
      BY <2>4, <3>3 DEF Linked, Awaiting
    <3> QED
      BY <2>1, <2>4, <3>3, <3>4 DEF NoneJoins
  <2>5. Returns(c, SenderOf(v), blocking, ~blocking)
    BY <1>7
  <2> HIDE DEF blocking
  <2> QED
    BY <1>1, <1>3, <2>1, <2>2, <2>4, <2>5, Returning
<1>8. CASE chan[h].closed /\ UNCHANGED chan /\ Returns(c, {}, blocking, FALSE)
  <2>1. Lists' /\ NoneJoins
    BY <1>1, <1>3, <1>8, SameChannels
  <2>2. \A g \in Chan : c \notin Entries(g)
    BY <1>5, <1>8
  <2>3. \E marks, enables : Returns(c, {}, marks, enables)
    BY <1>8
  <2> QED
    BY <1>1, <1>3, <2>1, <2>2, <2>3, ReturningAlone
<1>9. CASE ~blocking /\ UNCHANGED chan /\ Returns(c, {}, FALSE, FALSE)
  <2>1. Lists' /\ NoneJoins
    BY <1>1, <1>3, <1>9, SameChannels
  <2>2. \A g \in Chan : c \notin Entries(g)
    BY <1>5, <1>9
  <2>3. \E marks, enables : Returns(c, {}, marks, enables)
    BY <1>9
  <2> QED
    BY <1>1, <1>3, <2>1, <2>2, <2>3, ReturningAlone
<1>10. CASE /\ ~CanReceive(h) /\ blocking /\ Yields(c, o, TRUE)
            /\ chan' = IF co[c].waits THEN chan
                       ELSE [chan EXCEPT ![h].receivers = Append(@, c)]
  <2>1. k = o /\ o.kind = "receive" /\ h = o.on
    <3>1. o.kind # "select"
      BY <1>2, <1>10 DEF CaseReady, h
    <3> QED
      BY <1>2, <1>10, <3>1 DEF h
  <2>2. Lists' /\ (NoneJoins \/ Joins(c, h))
    <3>1. CASE co[c].waits
      BY <1>1, <1>3, <1>10, <3>1, SameChannels
    <3>2. CASE ~co[c].waits
      <4>1. co[c].op.kind # "receive"
        BY <3>2 DEF Linked, Resting
      <4>2. c \notin Entries(h) /\ c \notin Fut
        BY <1>2, <4>1, CoroutinesAssumption DEF Linked, Awaiting
      <4>3. h \in Ctx => ctx[h].status # "none"
        <5>1. co[c].op = NoOp
          BY <1>1, <2>1, <4>1, Zenon DEF Calls
        <5>2. Usable(o)
          BY <1>1, <5>1 DEF Calls
        <5> QED
          BY <2>1, <5>2 DEF Usable, Holds
      <4>4. chan' = [chan EXCEPT ![h].receivers = Append(@, c)]
        BY <1>10, <3>2
      <4> QED
        BY <1>1, <1>2, <1>3, <1>10, <4>2, <4>3, <4>4, JoinsLists
    <3> QED
      BY <3>1, <3>2
  <2>3. co[c].life # "none"
    BY <1>1, Running DEF Calls
  <2>4. Linked'
    BY <1>1, <1>2, <1>10, <2>1, <2>2, <2>3, YieldsLinks
  <2>5. Grouped'
    BY <1>3, <1>10, <2>1, YieldsGrouped DEF SameGroups
  <2> QED
    BY <2>4, <2>5
<1> QED
  BY <1>4, <1>6, <1>7, <1>8, <1>9, <1>10

\* A step that leaves the channels and groups alone.
LEMMA SameDataLinks ==
    ASSUME Typed, Linked, UNCHANGED data
    PROVE  Lists' /\ NoneJoins /\ SameGroups
<1>1. UNCHANGED <<chan, ctx>> /\ UNCHANGED group
  BY DEF data
<1> QED
  BY <1>1, SameChannels, GroupsSame DEF Linked

LEMMA AnsweredLinked ==
    ASSUME Typed, Linked, Grouped, NEW c \in Co, NEW o, Answered(c, o)
    PROVE  Linked' /\ Grouped'
<1>1. Calls(c, o) /\ co[c].woken /\ UNCHANGED data
  BY DEF Answered
<1>2. \A h \in Chan : c \notin Entries(h)
  BY <1>1 DEF Linked, Awaiting
<1>3. \E marks, enables : Returns(c, {}, marks, enables)
  BY DEF Answered
<1> QED
  BY <1>1, <1>2, <1>3, SameDataLinks, ReturningAlone

LEMMA SelectDefaultLinked ==
    ASSUME Typed, Linked, Grouped, NEW c \in Co, NEW o, SelectDefault(c, o)
    PROVE  Linked' /\ Grouped'
<1>1. Calls(c, o) /\ o.kind = "select" /\ UNCHANGED data
  BY DEF SelectDefault
<1>2. \A h \in Chan : c \notin Entries(h)
  BY <1>1, NotReceiving
<1>3. \E marks, enables : Returns(c, {}, marks, enables)
  BY DEF SelectDefault
<1> QED
  BY <1>1, <1>2, <1>3, SameDataLinks, ReturningAlone

\* Select and Get register nowhere.
LEMMA PollingLinked ==
    ASSUME Typed, Linked, Grouped, NEW c \in Co, NEW o, Calls(c, o), UNCHANGED data,
           o.kind \in {"select", "get"}, Yields(c, o, FALSE)
    PROVE  Linked' /\ Grouped'
<1>1. co[c].life # "none"
  BY Running DEF Calls
<1>2. Lists' /\ NoneJoins /\ SameGroups
  BY SameDataLinks
<1>3. Linked'
  BY <1>1, <1>2, YieldsLinks
<1>4. Grouped'
  BY <1>2, YieldsGrouped DEF SameGroups
<1> QED
  BY <1>3, <1>4

LEMMA SelectYieldsLinked ==
    ASSUME Typed, Linked, Grouped, NEW c \in Co, NEW o, SelectYields(c, o)
    PROVE  Linked' /\ Grouped'
<1>1. Calls(c, o) /\ Selected(o) = NoOp /\ Yields(c, o, FALSE) /\ UNCHANGED data
  BY DEF SelectYields
<1>2. o.kind = "select"
  BY <1>1, Calling, SelectedCall
<1> QED
  BY <1>1, <1>2, PollingLinked

LEMMA GetLinked ==
    ASSUME Typed, Linked, Grouped, NEW c \in Co, NEW o, Get(c, o)
    PROVE  Linked' /\ Grouped'
<1>1. Calls(c, o) /\ Selected(o).kind = "get" /\ UNCHANGED data
  BY DEF Get
<1>2. o.kind \in {"select", "get"}
  BY <1>1, Calling, SelectedCall
<1>3. \A h \in Chan : c \notin Entries(h)
  BY <1>1, <1>2, NotReceiving
<1>4. \/ \E marks, enables : Returns(c, {}, marks, enables)
      \/ Yields(c, o, FALSE)
  BY DEF Get
<1> QED
  BY <1>1, <1>2, <1>3, <1>4, SameDataLinks, ReturningAlone, PollingLinked

\* Whoever waits in a list that a closing empties is in Receive.
LEMMA EmptiedLeaves ==
    ASSUME Typed, Linked, NoneJoins, NEW d \in Co,
           \E h \in Chan : d \in Entries(h) /\ Entries(h)' = {}
    PROVE  co[d].op.kind = "receive" /\ \A g \in Chan : d \notin Entries(g)'
<1>1. PICK h \in Chan : d \in Entries(h) /\ Entries(h)' = {}
  OBVIOUS
<1> QED
  BY <1>1, FirstLeaves

LEMMA CloseChanLinked ==
    ASSUME Typed, Linked, Grouped, NEW c \in Co, NEW o, CloseChan(c, o), ~over'
    PROVE  Linked' /\ Grouped'
<1> PICK h : h = o.on
  OBVIOUS
<1>1. /\ Calls(c, o) /\ o.kind = "close" /\ UNCHANGED ctx /\ UNCHANGED group
      /\ Returns(c, Entries(h), FALSE, TRUE)
      /\ chan' = [chan EXCEPT ![h].closed = TRUE, ![h].receivers = <<>>]
  BY DEF CloseChan, Panics, Entries
<1>2. h \in Chan \ Ctx
  BY <1>1, Calling, SelectedCall, CallArguments
<1>3. \A g \in Chan : c \notin Entries(g)
  BY <1>1, NotReceiving
<1>4. Lists' /\ NoneJoins /\ Entries(h)' = {} /\ SameGroups
  BY <1>1, <1>2, ClosesLists, GroupsSame DEF Linked
<1>5. ASSUME NEW d \in Entries(h), d \in Co
      PROVE  co[d].op.kind = "receive" /\ \A g \in Chan : d \notin Entries(g)'
  BY <1>2, <1>4, <1>5, EmptiedLeaves
<1>6. PICK W : W = Entries(h)
  OBVIOUS
<1>7. Returns(c, W, FALSE, TRUE)
  BY <1>1, <1>6
<1>8. \A d \in W : d \in Co /\ d # c =>
        co[d].op.kind \in {"send", "receive"} /\ \A g \in Chan : d \notin Entries(g)'
  BY <1>5, <1>6
<1>9. \E marks, enables : Returns(c, W, marks, enables)
  BY <1>7
<1> QED
  BY <1>1, <1>3, <1>4, <1>8, <1>9, Returning

LEMMA GroupChanges ==
    ASSUME Typed, NEW w \in Groups, NEW r, group' = [group EXCEPT ![w] = r],
           Settled(w) => r.waiting /\ (r.done => r.n = 0),
           w \in Ctx => r.n = group[w].n
    PROVE  SameGroups
<1>1. group'[w] = r /\ \A g \in Groups \ {w} : group'[g] = group[g]
  BY DataTypes DEF LocalTypes
<1>2. ASSUME NEW g \in Groups, Settled(g) PROVE SettledThen(g)
  <2>1. CASE g = w
    BY <1>1, <1>2, <2>1 DEF SettledThen
  <2>2. CASE g # w
    BY <1>1, <1>2, <2>2 DEF Settled, SettledThen
  <2> QED
    BY <2>1, <2>2
<1>3. ASSUME NEW g \in Groups \cap Ctx PROVE group'[g].n = group[g].n
  <2>1. CASE g = w
    BY <1>1, <2>1
  <2>2. CASE g # w
    BY <1>1, <2>2
  <2> QED
    BY <2>1, <2>2
<1> QED
  BY <1>2, <1>3 DEF SameGroups

LEMMA AddLinked ==
    ASSUME Typed, Linked, Grouped, NEW c \in Co, NEW o, Add(c, o), ~over'
    PROVE  Linked' /\ Grouped'
<1> PICK w : w = o.on
  OBVIOUS
<1> DEFINE r == [group[w] EXCEPT !.n = @ + 1]
<1>1. /\ Calls(c, o) /\ o.kind = "add" /\ UNCHANGED <<chan, ctx>>
      /\ group' = [group EXCEPT ![w] = r]
      /\ ~(group[w].waiting /\ group[w].n = 0)
      /\ \E marks, enables : Returns(c, {}, marks, enables)
  BY DEF Add, Panics
<1>2. w \in Groups \ Ctx
  BY <1>1, Calling, SelectedCall, CallArguments
<1>3. group[w] \in Group
  BY <1>2, DataTypes DEF LocalTypes
<1>4. r.waiting = group[w].waiting /\ r.done = group[w].done
  BY <1>3 DEF Group
<1> HIDE DEF r
<1>5. Settled(w) => r.waiting /\ (r.done => r.n = 0)
  BY <1>1, <1>4 DEF Settled
<1>6. SameGroups
  BY <1>1, <1>2, <1>5, GroupChanges
<1>7. \A h \in Chan : c \notin Entries(h)
  BY <1>1, NotReceiving
<1> QED
  BY <1>1, <1>6, <1>7, SameChannels, ReturningAlone DEF Linked

\* Done takes one off a count above zero; at zero it has panicked.
LEMMA DoneLinked ==
    ASSUME Typed, Linked, Grouped, NEW c \in Co, NEW o, Done(c, o), ~over'
    PROVE  Linked' /\ Grouped'
<1> PICK w : w = o.on
  OBVIOUS
<1> DEFINE r == [group[w] EXCEPT !.n = @ - 1, !.done = @ \/ group[w].n = 1]
<1>1. /\ Calls(c, o) /\ o.kind = "done" /\ UNCHANGED <<chan, ctx>>
      /\ group[w].n # 0
      /\ \E marks, enables : Returns(c, {}, marks, enables)
  BY DEF Done, Panics
<1>2. w \in Groups \ Ctx
  BY <1>1, Calling, SelectedCall, CallArguments
<1>3. group[w] \in Group /\ group \in [Groups -> Group]
  BY <1>2, DataTypes DEF LocalTypes
<1>4. group' = [group EXCEPT ![w] = r]
  BY <1>2, <1>3 DEF Done
<1>5. r.waiting = group[w].waiting /\ r.n = group[w].n - 1
      /\ (r.done <=> group[w].done \/ group[w].n = 1)
  <2> DEFINE b == group[w].done \/ group[w].n = 1
             m == group[w].n - 1
  <2>1. b \in BOOLEAN
    BY Zenon
  <2>2. r = [group[w] EXCEPT !.n = m, !.done = b]
    OBVIOUS
  <2> HIDE DEF b, m, r
  <2>3. r.waiting = group[w].waiting /\ r.n = m /\ r.done = b
    BY <1>3, <2>2 DEF Group
  <2> QED
    BY <2>3 DEF b, m
<1> HIDE DEF r
<1>6. Settled(w) => r.waiting /\ (r.done => r.n = 0)
  BY <1>1, <1>3, <1>5 DEF Settled, Group
<1>7. SameGroups
  BY <1>2, <1>4, <1>6, GroupChanges
<1>8. \A h \in Chan : c \notin Entries(h)
  BY <1>1, NotReceiving
<1> QED
  BY <1>1, <1>7, <1>8, SameChannels, ReturningAlone DEF Linked

\* A Wait that blocks finds the future unset, or had found it so before.
LEMMA WaitLinked ==
    ASSUME Typed, Linked, Grouped, NEW c \in Co, NEW o, Wait(c, o)
    PROVE  Linked' /\ Grouped'
<1> PICK w : w = o.on
  OBVIOUS
<1> DEFINE r == [group[w] EXCEPT !.waiting = TRUE]
<1>1. /\ Calls(c, o) /\ o.kind = "wait" /\ UNCHANGED <<chan, ctx>>
      /\ group' = [group EXCEPT ![w] = r]
      /\ \/ \E marks, enables : Returns(c, {}, marks, enables)
         \/ ~group[w].done /\ Yields(c, o, TRUE)
  BY DEF Wait
<1>2. w \in Groups
  BY <1>1, Calling, SelectedCall, CallArguments
<1>3. group[w] \in Group /\ group \in [Groups -> Group]
  BY <1>2, DataTypes DEF LocalTypes
<1>4. r.waiting /\ r.n = group[w].n /\ r.done = group[w].done
  BY <1>3 DEF Group
<1> HIDE DEF r
<1>5. SameGroups
  BY <1>1, <1>2, <1>4, GroupChanges DEF Settled
<1>6. Lists' /\ NoneJoins
  BY <1>1, SameChannels DEF Linked
<1>7. CASE \E marks, enables : Returns(c, {}, marks, enables)
  <2>1. \A h \in Chan : c \notin Entries(h)
    BY <1>1, NotReceiving
  <2> QED
    BY <1>1, <1>5, <1>6, <1>7, <2>1, ReturningAlone
<1>8. CASE ~group[w].done /\ Yields(c, o, TRUE)
  <2>1. co[c].life # "none"
    BY <1>1, Running DEF Calls
  <2>2. Linked'
    BY <1>1, <1>6, <1>8, <2>1, YieldsLinks
  <2>3. ~co[c].woken
    <3>1. CASE co[c].op = NoOp
      BY <3>1 DEF Linked, Resting
    <3>2. CASE co[c].op # NoOp
      <4>1. co[c].op.kind = "wait"
        BY <1>1, <3>2 DEF Calls
      <4> QED
        BY <4>1 DEF Grouped, Waited
    <3> QED
      BY <3>1, <3>2
  <2>4. SettledThen(w)
    BY <1>1, <1>2, <1>3, <1>4, <1>8 DEF SettledThen
  <2>5. SettledThen(o.on)
    BY <2>4
  <2>6. Grouped'
    BY <1>5, <1>8, <2>3, <2>5, YieldsGrouped DEF SameGroups
  <2> QED
    BY <2>2, <2>6
<1> QED
  BY <1>1, <1>7, <1>8

LEMMA WithCancelLinked ==
    ASSUME Typed, Linked, Grouped, NEW c \in Co, NEW o, WithCancel(c, o)
    PROVE  Linked' /\ Grouped'
<1>1. /\ Calls(c, o) /\ o.kind = "withCancel" /\ UNCHANGED group
      /\ \E marks, enables : Returns(c, {}, marks, enables)
  BY DEF WithCancel
<1>2. \A h \in Chan : c \notin Entries(h)
  BY <1>1, NotReceiving
<1>3. Lists' /\ NoneJoins
  BY WithCancelLists DEF Linked
<1> QED
  BY <1>1, <1>2, <1>3, GroupsSame, ReturningAlone

LEMMA DisconnectLinked ==
    ASSUME Typed, Linked, Grouped, NEW c \in Co, NEW o, Disconnect(c, o)
    PROVE  Linked' /\ Grouped'
<1>1. /\ Calls(c, o) /\ o.kind = "disconnect" /\ UNCHANGED group
      /\ \E marks, enables : Returns(c, {}, marks, enables)
  BY DEF Disconnect
<1>2. \A h \in Chan : c \notin Entries(h)
  BY <1>1, NotReceiving
<1>3. Lists' /\ NoneJoins
  BY DisconnectLists DEF Linked
<1> QED
  BY <1>1, <1>2, <1>3, GroupsSame, ReturningAlone

LEMMA CancelLinked ==
    ASSUME Typed, Linked, Grouped, NEW c \in Co, NEW o, Cancel(c, o)
    PROVE  Linked' /\ Grouped'
<1> PICK x, W : x = o.on /\ W = Notified(o.on) \cap Co
  OBVIOUS
<1>1. /\ Calls(c, o) /\ o.kind = "cancel" /\ UNCHANGED group
      /\ Cancels(x) /\ Returns(c, W, FALSE, TRUE)
  BY DEF Cancel
<1>2. \A h \in Chan : c \notin Entries(h)
  BY <1>1, NotReceiving
<1>3. /\ Lists' /\ NoneJoins
      /\ \A d \in Notified(x) : \E h \in Chan : d \in Entries(h) /\ Entries(h)' = {}
  BY <1>1, CancelsLists DEF Linked
<1>4. \A d \in W : d \in Co /\ d # c =>
        co[d].op.kind \in {"send", "receive"} /\ \A h \in Chan : d \notin Entries(h)'
  BY <1>3, EmptiedLeaves
<1>5. \E marks, enables : Returns(c, W, marks, enables)
  BY <1>1
<1> QED
  BY <1>1, <1>2, <1>3, <1>4, <1>5, GroupsSame, Returning

\* The done channel of a live context has nothing to receive.
LEMMA ScheduleTimerLinked ==
    ASSUME Typed, Linked, Grouped, NEW c \in Co, NEW o, ScheduleTimer(c, o)
    PROVE  Linked' /\ Grouped'
<1> PICK q, f : q = o.parent /\ f = o.on
  OBVIOUS
<1>1. /\ Calls(c, o) /\ o.kind = "timer" /\ UNCHANGED ctx /\ UNCHANGED group
      /\ chan' = IF ctx[q].status = "canceled" THEN chan
                 ELSE [chan EXCEPT ![q].receivers = Append(@, f)]
      /\ \E marks, enables : Returns(c, {}, marks, enables)
  BY DEF ScheduleTimer
<1>2. /\ f \in Fut /\ q \in Ctx /\ Usable(o)
  BY <1>1, Calling, SelectedCall, CallArguments DEF Waiting
<1>3. ctx[q].status # "none"
  BY <1>1, <1>2 DEF Usable, Holds
<1>4. \A h \in Chan : c \notin Entries(h)
  BY <1>1, NotReceiving
<1>5. Lists /\ SameGroups
  BY <1>1, GroupsSame DEF Linked
<1>6. Lists' /\ NoneJoins
  <2>1. CASE ctx[q].status = "canceled"
    BY <1>1, <1>5, <2>1, SameChannels
  <2>2. CASE ctx[q].status # "canceled"
    <3>1. q \in Chan /\ Size[q] = 0 /\ f \notin Co
      BY <1>2, CoroutinesAssumption
    <3>2. chan[q].buffer = <<>>
      <4>1. chan[q].buffer \in Seq(Value) /\ Len(chan[q].buffer) <= 0
        BY <3>1, DataTypes DEF ChannelTypes, Channel
      <4> QED
        BY <4>1, EmptySeq
    <3>3. ~CanReceive(q)
      BY <1>2, <1>5, <2>2, <3>2 DEF CanReceive, Lists, DoneChannels
    <3>4. chan' = [chan EXCEPT ![q].receivers = Append(@, f)]
      BY <1>1, <2>2
    <3>5. Lists' /\ Joins(f, q)
      BY <1>1, <1>2, <1>3, <1>5, <3>1, <3>3, <3>4, JoinsLists
    <3>6. NoneJoins
      BY <3>1, <3>5 DEF Joins, NoneJoins
    <3> QED
      BY <3>5, <3>6
  <2> QED
    BY <2>1, <2>2
<1> QED
  BY <1>1, <1>4, <1>5, <1>6, ReturningAlone

LEMMA SignalChannelLinked ==
    ASSUME Typed, Linked, Grouped, NEW c \in Co, NEW o, SignalChannel(c, o)
    PROVE  Linked' /\ Grouped'
<1>1. /\ Calls(c, o) /\ o.kind = "signalChannel" /\ UNCHANGED group
      /\ \E marks, enables : Returns(c, {}, marks, enables)
  BY DEF SignalChannel
<1>2. \A h \in Chan : c \notin Entries(h)
  BY <1>1, NotReceiving
<1>3. Lists' /\ NoneJoins
  BY SignalChannelLists
<1> QED
  BY <1>1, <1>2, <1>3, GroupsSame, ReturningAlone

\* A new coroutine is in no list, and is one more of its group.
LEMMA SpawnsLinked ==
    ASSUME Typed, Linked, Grouped, NEW c \in Co, NEW o, Calls(c, o), o.kind \notin Waiting,
           NEW d \in Co, co[d].life = "none", NEW g \in (Groups \cap Ctx) \cup {NoCtx},
           Spawns(c, d, g), UNCHANGED <<chan, ctx>>,
           \A h \in Groups : Settled(h) => SettledThen(h),
           \A h \in Groups \cap Ctx :
             group'[h].n = IF h = g THEN group[h].n + 1 ELSE group[h].n
    PROVE  Linked' /\ Grouped'
<1>1. co[c].life = "live" /\ co[c].op = NoOp /\ c # d /\ coroutines \in Seq(Co)
  BY Running, Calling, ControlTypes DEF Calls, Control, Scheduled
<1>2. /\ co'[d] = NewCo(g) /\ coroutines' = Append(coroutines, d)
      /\ co'[c] = [co[c] EXCEPT !.left = @ - 1]
      /\ \A e \in Co : e # c /\ e # d => co'[e] = co[e]
  <2>1. co \in [Co -> CoState]
    BY ControlTypes DEF Control
  <2> QED
    BY <1>1, <2>1 DEF Spawns
<1>3. /\ co'[c].op = NoOp /\ co'[c].woken = co[c].woken /\ co'[c].life = "live"
      /\ co'[c].left = co[c].left - 1 /\ co'[c].group = co[c].group
  <2>1. co[c] \in CoState
    BY ControlTypes DEF Control
  <2> QED
    BY <1>1, <1>2, <2>1 DEF CoState
<1>4. /\ co'[d].op = NoOp /\ ~co'[d].woken /\ co'[d].life = "live" /\ co'[d].group = g
      /\ NoOp.kind = "none"
  BY <1>2 DEF NewCo, NoOp
<1>5. Lists' /\ NoneJoins
  BY SameChannels DEF Linked
<1>6. Resting'
  <2> SUFFICES ASSUME NEW e \in Co
               PROVE  /\ co'[e].op = NoOp => ~co'[e].woken
                      /\ co'[e].op.kind \in {"receive", "wait"} => co'[e].waits
                      /\ co'[e].life = "none" => co'[e].op = NoOp
    BY DEF Resting
  <2>1. CASE e = d
    BY <1>4, <2>1
  <2>2. CASE e = c
    BY <1>1, <1>3, <1>4, <2>2 DEF Linked, Resting
  <2>3. CASE e # c /\ e # d
    BY <1>2, <2>3 DEF Linked, Resting
  <2> QED
    BY <2>1, <2>2, <2>3
<1>7. Awaiting' /\ Offered'
  <2>1. ASSUME NEW h \in Chan, NEW e \in Co, e \in Entries(h)'
        PROVE  e \in Entries(h) /\ co'[e].op = co[e].op /\ co'[e].woken = co[e].woken
    <3>1. e \in Entries(h)
      BY <1>5, <2>1 DEF NoneJoins
    <3>2. co[e].op.kind = "receive"
      BY <3>1 DEF Linked, Awaiting
    <3>3. e # c /\ e # d
      BY <1>1, <1>4, <3>2 DEF Linked, Resting
    <3> QED
      BY <1>2, <3>1, <3>3
  <2>2. \A h \in Chan : \A v \in Offers(h)' : v \in Offers(h)
    BY <1>5 DEF NoneJoins
  <2>3. ASSUME NEW e \in Co, co[e].life # "none"
        PROVE  /\ co'[e].life # "none"
               /\ \/ co'[e].left = co[e].left /\ co'[e].op = co[e].op
                  \/ co'[e].left = co[e].left - 1
    BY <1>2, <1>3, <2>3
  <2> QED
    BY <2>1, <2>2, <2>3, LinksKept DEF Linked
<1>8. Waited'
  <2>1. \A e \in Co : co'[e].op.kind = "wait" =>
          co'[e].op = co[e].op /\ co'[e].woken = co[e].woken
    BY <1>2, <1>3, <1>4
  <2> QED
    BY <2>1, WaitedKept DEF Grouped
<1>9. Listed'
  <2>1. \A i \in DOMAIN coroutines : coroutines[i] \in Co /\ co[coroutines[i]].life = "live"
    BY <1>1 DEF Grouped, Listed
  <2>2. \A i \in DOMAIN coroutines : co'[coroutines[i]].life = "live" /\ coroutines[i] # d
    BY <1>2, <1>3, <2>1
  <2>3. \A i \in DOMAIN coroutines' :
          \/ i \in DOMAIN coroutines /\ coroutines'[i] = coroutines[i]
          \/ i = Len(coroutines) + 1 /\ coroutines'[i] = d
    BY <1>1, <1>2, AppendSet
  <2> QED
    BY <1>4, <2>2, <2>3 DEF Grouped, Listed
<1>10. Counted'
  <2>1. \A e \in Co : co'[e].group \in (Groups \cap Ctx) \cup {NoCtx}
    BY <1>2, <1>3, <1>4 DEF Grouped, Counted
  <2>2. ASSUME NEW e \in Co
        PROVE  /\ e # d => co'[e].life = co[e].life /\ co'[e].group = co[e].group
               /\ e = d => co'[e].life = "live" /\ co'[e].group = g
    BY <1>1, <1>2, <1>3, <1>4
  <2>3. ASSUME NEW h \in Groups \cap Ctx PROVE group'[h].n = Cardinality(Members(h)')
    <3>1. /\ IsFiniteSet(Members(h)) /\ d \notin Members(h)
          /\ group[h].n = Cardinality(Members(h))
      <4>1. IsFiniteSet(Members(h))
        BY FS_Subset, CoroutinesAssumption DEF Members
      <4> QED
        BY <4>1 DEF Members, Grouped, Counted
    <3>2. CASE h = g
      <4>1. Members(h)' = Members(h) \cup {d}
        BY <2>2, <3>2 DEF Members
      <4>2. Cardinality(Members(h) \cup {d}) = Cardinality(Members(h)) + 1
        BY <3>1, FS_AddElement
      <4>3. group'[h].n = group[h].n + 1
        BY <3>2
      <4> QED
        BY <3>1, <4>1, <4>2, <4>3
    <3>3. CASE h # g
      <4>1. Members(h)' = Members(h)
        BY <2>2, <3>1, <3>3 DEF Members
      <4> QED
        BY <3>1, <3>3, <4>1
    <3> QED
      BY <3>2, <3>3
  <2> QED
    BY <2>1, <2>3 DEF Counted
<1> QED
  BY <1>5, <1>6, <1>7, <1>8, <1>9, <1>10 DEF Linked, Grouped

LEMMA GoLinked ==
    ASSUME Typed, Linked, Grouped, NEW c \in Co, NEW o, Go(c, o)
    PROVE  Linked' /\ Grouped'
<1>1. /\ Calls(c, o) /\ o.kind = "go" /\ Spawns(c, o.co, NoCtx)
      /\ UNCHANGED <<chan, ctx>> /\ UNCHANGED group
  BY DEF Go, data
<1>2. o.co \in Co /\ co[o.co].life = "none" /\ o.kind \notin Waiting
  BY <1>1, Calling, SelectedCall, CallArguments DEF Waiting, Usable, Holds
<1>3. \A h \in Groups \cap Ctx : h # NoCtx
  BY CoroutinesAssumption
<1> QED
  BY <1>1, <1>2, <1>3, SpawnsLinked, GroupsSame DEF SameGroups

LEMMA GroupGoLinked ==
    ASSUME Typed, Linked, Grouped, NEW c \in Co, NEW o, GroupGo(c, o), ~over'
    PROVE  Linked' /\ Grouped'
<1> PICK d, g : d = o.co /\ g = o.on
  OBVIOUS
<1>1. /\ Calls(c, o) /\ o.kind = "goGroup" /\ Spawns(c, d, g) /\ UNCHANGED <<chan, ctx>>
      /\ ~group[g].waiting /\ group' = [group EXCEPT ![g].n = @ + 1]
  BY DEF GroupGo, Panics
<1>2. d \in Co /\ g \in Groups \cap Ctx /\ co[d].life = "none" /\ o.kind \notin Waiting
  BY <1>1, Calling, SelectedCall, CallArguments DEF Waiting, Usable, Holds
<1>3. group \in [Groups -> Group] /\ group[g] \in Group
  BY <1>2, DataTypes DEF LocalTypes
<1>4. \A h \in Groups \ {g} : group'[h] = group[h]
  BY <1>1, <1>3
<1>5. group'[g].n = group[g].n + 1
  BY <1>1, <1>2, <1>3 DEF Group
<1>6. ASSUME NEW h \in Groups, Settled(h) PROVE SettledThen(h)
  <2>1. h # g
    BY <1>1, <1>6 DEF Settled
  <2> QED
    BY <1>4, <1>6, <2>1 DEF Settled, SettledThen
<1>7. ASSUME NEW h \in Groups \cap Ctx
      PROVE  group'[h].n = IF h = g THEN group[h].n + 1 ELSE group[h].n
  BY <1>4, <1>5
<1> QED
  BY <1>1, <1>2, <1>6, <1>7, SpawnsLinked

\* The coroutine that ends leaves the scheduler's list.
LEMMA RemovedListed ==
    ASSUME Typed, Listed, NEW c \in Co, Runs(c),
           coroutines' = RemoveAt(coroutines, turn),
           \A d \in Co : d # c => co'[d].life = co[d].life
    PROVE  Listed'
<1>1. /\ coroutines \in Seq(Co) /\ Len(coroutines) \in Nat
      /\ turn \in DOMAIN coroutines /\ coroutines[turn] = c
      /\ DOMAIN coroutines = 1 .. Len(coroutines)
  <2>1. /\ turn > 0 /\ coroutines[turn] = c /\ turn \in 0 .. Len(coroutines)
        /\ coroutines \in Seq(Co) /\ Len(coroutines) \in Nat
    BY ControlTypes DEF Runs, Control, Scheduled
  <2> QED
    BY <2>1
<1>2. /\ Len(coroutines') = Len(coroutines) - 1
      /\ DOMAIN coroutines' = 1 .. Len(coroutines) - 1
      /\ \A j \in 1 .. Len(coroutines) - 1 :
           coroutines'[j] = IF j < turn THEN coroutines[j] ELSE coroutines[j + 1]
  <2>1. /\ coroutines' \in Seq(Co) /\ Len(coroutines') = Len(coroutines) - 1
        /\ \A j \in 1 .. Len(coroutines) - 1 :
             coroutines'[j] = IF j < turn THEN coroutines[j] ELSE coroutines[j + 1]
    BY <1>1, RemovedAt
  <2> QED
    BY <2>1
<1> DEFINE p(j) == IF j < turn THEN j ELSE j + 1
<1>3. ASSUME NEW j \in DOMAIN coroutines'
      PROVE  p(j) \in DOMAIN coroutines /\ coroutines'[j] = coroutines[p(j)] /\ p(j) # turn
  BY <1>1, <1>2
<1>4. \A i, j \in DOMAIN coroutines' : p(i) = p(j) => i = j
  BY <1>1, <1>2
<1> HIDE DEF p
<1>5. \A j \in DOMAIN coroutines : coroutines[j] \in Co
  BY <1>1
<1>6. ASSUME NEW i \in DOMAIN coroutines'
      PROVE  co'[coroutines'[i]].life = "live"
  <2>1. coroutines[p(i)] # c
    BY <1>1, <1>3 DEF Listed
  <2>2. co[coroutines[p(i)]].life = "live" /\ coroutines[p(i)] \in Co
    BY <1>3, <1>5 DEF Listed
  <2> QED
    BY <1>3, <2>1, <2>2
<1>7. ASSUME NEW i \in DOMAIN coroutines', NEW j \in DOMAIN coroutines',
             coroutines'[i] = coroutines'[j]
      PROVE  i = j
  <2>1. p(i) = p(j)
    BY <1>3, <1>7 DEF Listed
  <2> QED
    BY <1>4, <2>1
<1> QED
  BY <1>6, <1>7 DEF Listed

\* The count of the group goes down with the coroutine, and is not zero before.
LEMMA FinishGroups ==
    ASSUME Typed, Grouped, NEW c \in Co, NEW err \in BOOLEAN, Finish(c, err)
    PROVE  /\ \A g \in Groups : Settled(g) => SettledThen(g)
           /\ \A g \in Groups \cap Ctx :
                group'[g].n = IF g = co[c].group THEN group[g].n - 1 ELSE group[g].n
<1> PICK g : g = co[c].group
  OBVIOUS
<1>1. Runs(c) /\ group' = IF g = NoCtx THEN group
                          ELSE [group EXCEPT ![g].n = @ - 1,
                                             ![g].done = @ \/ group[g].n = 1,
                                             ![g].err = @ \/ err]
  BY DEF Finish
<1>2. CASE g = NoCtx
  <2>1. UNCHANGED group /\ NoCtx \notin Groups
    BY <1>1, <1>2, CoroutinesAssumption
  <2> QED
    BY <1>2, <2>1, GroupsSame DEF SameGroups
<1>3. CASE g # NoCtx
  <2>1. g \in Groups \cap Ctx
    BY <1>3 DEF Grouped, Counted
  <2>2. group \in [Groups -> Group] /\ group[g] \in Group
    BY <2>1, DataTypes DEF LocalTypes
  <2>3. group[g].n # 0
    <3>1. c \in Members(g)
      BY <1>1, Running DEF Members
    <3>2. IsFiniteSet(Members(g))
      BY FS_Subset, CoroutinesAssumption DEF Members
    <3>3. Cardinality(Members(g)) # 0
      BY <3>1, <3>2, FS_EmptySet
    <3> QED
      BY <2>1, <3>3 DEF Grouped, Counted
  <2>4. \A h \in Groups \ {g} : group'[h] = group[h]
    BY <1>1, <1>3, <2>2
  <2>5. /\ group'[g].n = group[g].n - 1 /\ group'[g].waiting = group[g].waiting
        /\ group'[g].done <=> group[g].done \/ group[g].n = 1
    <3> DEFINE old == group[g]
               ends == old.done \/ old.n = 1
               failed == old.err \/ err
               m == old.n - 1
    <3>1. ends \in BOOLEAN /\ failed \in BOOLEAN
      BY Zenon
    <3>2. group' = [group EXCEPT ![g] = [old EXCEPT !.n = m, !.done = ends, !.err = failed]]
      BY <1>1, <1>3
    <3>3. old \in Group
      BY <2>2
    <3> HIDE DEF ends, failed, m, old
    <3>4. group'[g] = [old EXCEPT !.n = m, !.done = ends, !.err = failed]
      BY <2>1, <2>2, <3>2
    <3>5. group'[g].n = m /\ group'[g].waiting = old.waiting /\ group'[g].done = ends
      BY <3>3, <3>4 DEF Group
    <3> QED
      BY <3>5 DEF ends, m, old
  <2>6. Settled(g) => SettledThen(g)
    BY <2>2, <2>3, <2>5 DEF Settled, SettledThen, Group
  <2>7. ASSUME NEW h \in Groups, Settled(h) PROVE SettledThen(h)
    <3>1. CASE h = g
      BY <2>6, <2>7, <3>1
    <3>2. CASE h # g
      BY <2>4, <2>7, <3>2 DEF Settled, SettledThen
    <3> QED
      BY <3>1, <3>2
  <2>8. ASSUME NEW h \in Groups \cap Ctx
        PROVE  group'[h].n = IF h = g THEN group[h].n - 1 ELSE group[h].n
    BY <2>4, <2>5
  <2> QED
    BY <2>7, <2>8
<1> QED
  BY <1>2, <1>3

LEMMA FinishLinked ==
    ASSUME Typed, Linked, Grouped, NEW c \in Co, NEW err \in BOOLEAN, Finish(c, err)
    PROVE  Linked' /\ Grouped'
<1> PICK g : g = co[c].group
  OBVIOUS
<1> DEFINE cancels == g # NoCtx /\ err /\ ~group[g].err
<1>1. /\ Runs(c) /\ co[c].op = NoOp /\ co[c].life = "live"
      /\ IF cancels THEN Cancels(g) ELSE UNCHANGED <<chan, future, ctx>>
      /\ co'[c] = [co[c] EXCEPT !.life = "finished"]
      /\ \A d \in Co : d # c =>
           \/ co'[d] = co[d]
           \/ cancels /\ d \in Notified(g) /\ co'[d] = [co[d] EXCEPT !.woken = TRUE]
      /\ EndsTurn
  BY Running DEF Finish
<1> HIDE DEF cancels
<1>2. /\ Lists' /\ NoneJoins
      /\ cancels => \A d \in Notified(g) : \E h \in Chan : d \in Entries(h) /\ Entries(h)' = {}
  <2>1. CASE cancels
    BY <1>1, <2>1, CancelsLists DEF Linked
  <2>2. CASE ~cancels
    <3>1. UNCHANGED <<chan, ctx>>
      BY <1>1, <2>2
    <3> QED
      BY <2>2, <3>1, SameChannels DEF Linked
  <2> QED
    BY <2>1, <2>2
<1>3. ASSUME NEW d \in Co, d # c
      PROVE  \/ co'[d] = co[d]
             \/ /\ co'[d] = [co[d] EXCEPT !.woken = TRUE]
                /\ co[d].op.kind = "receive" /\ \A h \in Chan : d \notin Entries(h)'
  BY <1>1, <1>2, <1>3, EmptiedLeaves
<1>4. Linked'
  BY <1>1, <1>2, <1>3, WakesLinks
<1>5. ASSUME NEW d \in Co
      PROVE  /\ co'[d].op = co[d].op /\ co'[d].group = co[d].group
             /\ d # c => co'[d].life = co[d].life
             /\ d = c => co'[d].life = "finished"
             /\ co[d].op.kind = "wait" => co'[d].woken = co[d].woken
  <2>1. co[d] \in CoState /\ NoOp.kind = "none"
    BY ControlTypes DEF Control, NoOp
  <2>2. CASE d = c
    BY <1>1, <2>1, <2>2 DEF CoState
  <2>3. CASE d # c /\ co'[d] = co[d]
    BY <2>3
  <2>4. CASE d # c /\ co'[d] # co[d]
    <3>1. co'[d] = [co[d] EXCEPT !.woken = TRUE] /\ co[d].op.kind = "receive"
      BY <1>3, <2>4
    <3> QED
      BY <2>1, <2>4, <3>1 DEF CoState
  <2> QED
    BY <2>2, <2>3, <2>4
<1>6. Waited'
  BY <1>5, FinishGroups, WaitedKept DEF Grouped
<1>7. Listed'
  <2>1. coroutines' = RemoveAt(coroutines, turn)
    BY <1>1 DEF EndsTurn, MovesTo
  <2> QED
    BY <1>1, <1>5, <2>1, RemovedListed DEF Grouped
<1>8. Counted'
  <2>1. \A d \in Co : co'[d].group \in (Groups \cap Ctx) \cup {NoCtx}
    BY <1>5 DEF Grouped, Counted
  <2>2. ASSUME NEW h \in Groups \cap Ctx PROVE group'[h].n = Cardinality(Members(h)')
    <3>1. /\ IsFiniteSet(Members(h)) /\ group[h].n = Cardinality(Members(h))
      <4>1. IsFiniteSet(Members(h))
        BY FS_Subset, CoroutinesAssumption DEF Members
      <4> QED
        BY <4>1 DEF Grouped, Counted
    <3>2. group'[h].n = IF h = g THEN group[h].n - 1 ELSE group[h].n
      BY FinishGroups
    <3>3. CASE h = g
      <4>1. Members(h)' = Members(h) \ {c} /\ c \in Members(h)
        BY <1>1, <1>5, <3>3 DEF Members
      <4>2. Cardinality(Members(h) \ {c}) = Cardinality(Members(h)) - 1
        BY <3>1, <4>1, FS_RemoveElement
      <4> QED
        BY <3>1, <3>2, <3>3, <4>1, <4>2
    <3>4. CASE h # g
      <4>1. Members(h)' = Members(h)
        BY <1>1, <1>5, <3>4 DEF Members
      <4> QED
        BY <3>1, <3>2, <3>4, <4>1
    <3> QED
      BY <3>3, <3>4
  <2> QED
    BY <2>1, <2>2 DEF Counted
<1> QED
  BY <1>4, <1>6, <1>7, <1>8 DEF Grouped

\* An event from outside wakes those that it takes off the lists.
LEMMA EventLinked ==
    ASSUME Typed, Linked, Grouped, NoneJoins, Lists', UNCHANGED coroutines, UNCHANGED group,
           \A d \in Co :
             \/ co'[d] = co[d]
             \/ /\ co'[d] = [co[d] EXCEPT !.woken = TRUE]
                /\ co[d].op.kind = "receive" /\ \A h \in Chan : d \notin Entries(h)'
    PROVE  Linked' /\ Grouped'
<1>1. Linked'
  BY WakesLinks
<1>2. ASSUME NEW d \in Co
      PROVE  /\ co'[d].op = co[d].op /\ co'[d].group = co[d].group /\ co'[d].life = co[d].life
             /\ co[d].op.kind = "wait" => co'[d].woken = co[d].woken
  <2>1. co[d] \in CoState
    BY ControlTypes DEF Control
  <2>2. CASE co'[d] = co[d]
    BY <2>2
  <2>3. CASE co'[d] = [co[d] EXCEPT !.woken = TRUE] /\ co[d].op.kind = "receive"
    BY <2>1, <2>3 DEF CoState
  <2> QED
    BY <2>2, <2>3
<1>3. SameGroups
  BY GroupsSame
<1>4. Waited'
  BY <1>2, <1>3, WaitedKept DEF Grouped, SameGroups
<1>5. Grouped'
  BY <1>2, <1>3, <1>4, GroupedKept DEF SameGroups
<1> QED
  BY <1>1, <1>5

LEMMA ReceiveSignalLinked ==
    ASSUME Typed, Linked, Grouped, NEW s \in Signals, ReceiveSignal(s)
    PROVE  Linked' /\ Grouped'
<1> PICK v, d : v = <<Outside, signals>> /\ d = Head(chan[s].receivers)
  OBVIOUS
<1>1. /\ UNCHANGED ctx /\ UNCHANGED group /\ UNCHANGED coroutines
      /\ \/ HandOver(s, v) /\ co' = [co EXCEPT ![d].woken = TRUE]
         \/ PutInBuffer(s, v) /\ UNCHANGED co
         \/ UNCHANGED chan /\ UNCHANGED co
  BY DEF ReceiveSignal, StartsRound
<1>2. s \in Chan \ Ctx /\ co \in [Co -> CoState] /\ Lists
  BY ControlTypes, CoroutinesAssumption DEF Control, Linked
<1>3. CASE HandOver(s, v) /\ co' = [co EXCEPT ![d].woken = TRUE]
  <2>1. Lists' /\ NoneJoins /\ d \in Entries(s) /\ (d \in Co => d \notin Entries(s)')
    BY <1>1, <1>2, <1>3, HandOverLists
  <2>2. d \in Co
    BY <1>2, <2>1 DEF Lists, DoneChannels
  <2>3. co[d].op.kind = "receive" /\ \A h \in Chan : d \notin Entries(h)'
    BY <1>2, <2>1, <2>2, FirstLeaves
  <2>4. /\ co'[d] = [co[d] EXCEPT !.woken = TRUE]
        /\ \A e \in Co : e # d => co'[e] = co[e]
    BY <1>2, <1>3, <2>2
  <2> QED
    BY <1>1, <2>1, <2>3, <2>4, EventLinked
<1>4. CASE PutInBuffer(s, v) /\ UNCHANGED co
  BY <1>1, <1>2, <1>4, ValuesLists, EventLinked
<1>5. CASE UNCHANGED chan /\ UNCHANGED co
  BY <1>1, <1>2, <1>5, SameChannels, EventLinked
<1> QED
  BY <1>1, <1>3, <1>4, <1>5

LEMMA TimerFiredLinked ==
    ASSUME Typed, Reaching, Linked, Grouped, NEW f \in Fut, TimerFired(f)
    PROVE  Linked' /\ Grouped'
<1>1. UNCHANGED co /\ UNCHANGED group /\ UNCHANGED coroutines
  BY DEF TimerFired, StartsRound
<1>2. Lists' /\ NoneJoins
  BY TimerFiredLists DEF Linked
<1> QED
  BY <1>1, <1>2, EventLinked

LEMMA WorkflowCanceledLinked ==
    ASSUME Typed, Linked, Grouped, WorkflowCanceled
    PROVE  Linked' /\ Grouped'
<1>1. /\ UNCHANGED group /\ UNCHANGED coroutines /\ Cancels(Root)
      /\ \A d \in Co :
           \/ co'[d] = co[d]
           \/ d \in Notified(Root) /\ co'[d] = [co[d] EXCEPT !.woken = TRUE]
  BY DEF WorkflowCanceled, StartsRound
<1>2. /\ Lists' /\ NoneJoins
      /\ \A d \in Notified(Root) : \E h \in Chan : d \in Entries(h) /\ Entries(h)' = {}
  BY <1>1, CancelsLists DEF Linked
<1>3. ASSUME NEW d \in Co
      PROVE  \/ co'[d] = co[d]
             \/ /\ co'[d] = [co[d] EXCEPT !.woken = TRUE]
                /\ co[d].op.kind = "receive" /\ \A h \in Chan : d \notin Entries(h)'
  BY <1>1, <1>2, EmptiedLeaves
<1> QED
  BY <1>1, <1>2, <1>3, EventLinked

LEMMA SameLinked ==
    ASSUME Typed, Linked, Grouped, UNCHANGED vars
    PROVE  Linked' /\ Grouped'
<1>1. /\ UNCHANGED co /\ UNCHANGED group /\ UNCHANGED coroutines /\ UNCHANGED <<chan, ctx>>
  BY DEF vars
<1>2. Lists' /\ NoneJoins
  BY <1>1, SameChannels DEF Linked
<1> QED
  BY <1>1, <1>2, EventLinked

LEMMA StepLinked ==
    ASSUME Typed, Linked, Grouped, NEW c \in Co, NEW o, Step(c, o), ~over'
    PROVE  Linked' /\ Grouped'
BY SendLinked, ReceiveLinked, AnsweredLinked, CloseChanLinked, SelectYieldsLinked,
   SelectDefaultLinked, GetLinked, GoLinked, GroupGoLinked, AddLinked, DoneLinked,
   WaitLinked, WithCancelLinked, DisconnectLinked, CancelLinked, ScheduleTimerLinked,
   SignalChannelLinked
DEF Step

LEMMA NextLinked ==
    ASSUME Typed, Reaching, Linked, Grouped, [Next]_vars, ~over'
    PROVE  Linked' /\ Grouped'
<1>1. CASE \E c \in Co, o \in AllCalls : Step(c, o)
  BY <1>1, StepLinked
<1>2. CASE \E c \in Co, err \in BOOLEAN : Finish(c, err)
  BY <1>2, FinishLinked
<1>3. CASE \E s \in Signals : ReceiveSignal(s)
  BY <1>3, ReceiveSignalLinked
<1>4. CASE \E f \in Fut : TimerFired(f)
  BY <1>4, TimerFiredLinked
<1>5. CASE WorkflowCanceled
  BY <1>5, WorkflowCanceledLinked
<1>6. CASE Exit
  BY <1>6 DEF Exit
<1>7. CASE UNCHANGED vars
  BY <1>7, SameLinked
<1> QED
  BY <1>1, <1>2, <1>3, <1>4, <1>5, <1>6, <1>7 DEF Next

LEMMA InitLinked == Init => Linked /\ Grouped
<1> SUFFICES ASSUME Init PROVE Linked /\ Grouped
  OBVIOUS
<1>1. NoOp.kind = "none" /\ ToSet(<<>>) = {} /\ DOMAIN <<>> = {}
  BY EmptySeq DEF NoOp, ToSet
<1>2. \A h \in Chan : /\ chan[h].buffer = <<>> /\ chan[h].receivers = <<>>
                      /\ chan[h].senders = <<>> /\ ~chan[h].closed
  BY DEF Init
<1>3. \A h \in Chan : Entries(h) = {} /\ Offers(h) = {}
  BY <1>1, <1>2 DEF Entries, Offers
<1>4. Lists
  BY <1>1, <1>2, <1>3, CoroutinesAssumption
  DEF Lists, ReceivingOnce, ReceiversFirst, DoneChannels
<1>5. ASSUME NEW c \in Co
      PROVE  /\ co[c].op = NoOp /\ ~co[c].woken /\ co[c].group = NoCtx
             /\ co[c].life = IF c = Main THEN "live" ELSE "none"
  BY <1>5 DEF Init, NewCo, Unborn
<1>6. Resting /\ Awaiting /\ Offered /\ Waited
  BY <1>1, <1>3, <1>5 DEF Resting, Awaiting, Offered, Waited
<1>7. Listed
  <2>1. DOMAIN coroutines = {1} /\ coroutines[1] = Main
    BY DEF Init
  <2> QED
    BY <1>5, <2>1, CoroutinesAssumption DEF Listed
<1>8. Counted
  <2>1. ASSUME NEW g \in Groups \cap Ctx PROVE group[g].n = Cardinality(Members(g))
    <3>1. Members(g) = {}
      BY <1>5, CoroutinesAssumption DEF Members
    <3> QED
      BY <3>1, FS_EmptySet DEF Init
  <2> QED
    BY <1>5, <2>1 DEF Counted
<1> QED
  BY <1>4, <1>6, <1>7, <1>8 DEF Linked, Grouped

-----------------------------------------------------------------------------
(* The end of a Wait that blocked.                                         *)

\* A call returns, yields, starts a coroutine, or panics.
LEMMA StepForms ==
    ASSUME NEW c, NEW o, Step(c, o)
    PROVE  /\ Calls(c, o)
           /\ \/ \E W, marks, enables : Returns(c, W, marks, enables)
              \/ Yields(c, o, TRUE)
              \/ Yields(c, o, FALSE) /\ o.kind # "send"
              \/ o.kind \in {"go", "goGroup"} /\ \E g : Spawns(c, o.co, g)
              \/ Panics(c)
<1> DEFINE Form == /\ Calls(c, o)
                   /\ \/ \E W, marks, enables : Returns(c, W, marks, enables)
                      \/ Yields(c, o, TRUE)
                      \/ Yields(c, o, FALSE) /\ o.kind # "send"
                      \/ o.kind \in {"go", "goGroup"} /\ \E g : Spawns(c, o.co, g)
                      \/ Panics(c)
<1>1. Send(c, o) => Form
  BY Zenon DEF Send
<1>2. Receive(c, o) => Form
  BY Zenon DEF Receive
<1>3. Answered(c, o) \/ CloseChan(c, o) \/ SelectDefault(c, o) => Form
  BY Zenon DEF Answered, CloseChan, SelectDefault
<1>4. SelectYields(c, o) \/ Get(c, o) => Form
  <2>1. Selected(o) = NoOp \/ Selected(o).kind = "get" => o.kind # "send"
    BY DEF Selected, NoOp
  <2> QED
    BY <2>1, Zenon DEF SelectYields, Get
<1>5. Go(c, o) \/ GroupGo(c, o) => Form
  BY DEF Go, GroupGo
<1>6. Add(c, o) \/ Done(c, o) => Form
  BY Zenon DEF Add, Done
<1>7. Wait(c, o) => Form
  BY DEF Wait
<1>8. WithCancel(c, o) \/ Disconnect(c, o) \/ Cancel(c, o) => Form
  BY Zenon DEF WithCancel, Disconnect, Cancel
<1>9. ScheduleTimer(c, o) \/ SignalChannel(c, o) => Form
  BY Zenon DEF ScheduleTimer, SignalChannel
<1> QED
  BY <1>1, <1>2, <1>3, <1>4, <1>5, <1>6, <1>7, <1>8, <1>9 DEF Step

\* What panicked or was ended stays so.
LEMMA OverStays ==
    ASSUME over = TRUE, [Next]_vars
    PROVE  over' = TRUE
<1>1. ASSUME NEW c \in Co, NEW o \in AllCalls, Step(c, o) PROVE over' = TRUE
  BY <1>1, StepForms DEF Returns, Yields, Spawns, Panics
<1>2. ASSUME NEW c \in Co, NEW err \in BOOLEAN, Finish(c, err) PROVE over' = TRUE
  BY <1>2 DEF Finish
<1> QED
  BY <1>1, <1>2
  DEF Next, ReceiveSignal, TimerFired, WorkflowCanceled, Exit, vars

Orderly == ~over => Linked /\ Grouped

LEMMA NextOrderly ==
    Typed /\ Reaching /\ Orderly /\ [Next]_vars => Orderly'
<1> SUFFICES ASSUME Typed, Reaching, Orderly, [Next]_vars, ~over' PROVE Linked' /\ Grouped'
  BY DEF Orderly
<1>1. over \in BOOLEAN
  BY ControlTypes DEF Control
<1>2. ~over
  BY <1>1, OverStays
<1> QED
  BY <1>2, NextLinked DEF Orderly

\* Nobody but c ends the call of c.
LEMMA OthersCalls ==
    ASSUME Typed, Linked, Grouped, NEW d \in Co, NEW o, Step(d, o), ~over',
           NEW c \in Co, c # d, co[c].op # NoOp
    PROVE  co'[c].op = co[c].op
<1>1. CASE \E W, marks, enables : Returns(d, W, marks, enables)
  BY <1>1, ReturnsEffect
<1>2. CASE Yields(d, o, TRUE) \/ Yields(d, o, FALSE)
  BY <1>2, YieldsEffect
<1>3. CASE o.kind \in {"go", "goGroup"} /\ \E g : Spawns(d, o.co, g)
  <2>1. Calls(d, o) /\ o.kind \notin Waiting
    BY <1>3, StepForms DEF Waiting
  <2>2. co[o.co].life = "none" /\ o.co \in Co
    BY <1>3, <2>1, Calling, SelectedCall, CallArguments DEF Usable, Holds
  <2>3. c # o.co
    BY <2>2 DEF Linked, Resting
  <2> QED
    BY <1>3, <2>3, ControlTypes DEF Spawns, Control
<1>4. CASE Panics(d)
  BY <1>4 DEF Panics
<1> QED
  BY <1>1, <1>2, <1>3, <1>4, StepForms

\* The running Wait goes on with the future set, so at zero.
LEMMA OwnCall ==
    ASSUME Typed, Linked, Grouped, NEW c \in Co, NEW o, Step(c, o), ~over',
           co[c].op.kind = "wait", co'[c].op = NoOp
    PROVE  group[co[c].op.on].n = 0
<1>1. /\ ~co[c].woken /\ co[c].waits
      /\ group[co[c].op.on].done => group[co[c].op.on].n = 0
  BY DEF Linked, Resting, Grouped, Waited
<1>2. o = co[c].op /\ o.kind = "wait" /\ Calls(c, o)
  <2>1. Calls(c, o)
    BY StepForms
  <2>2. co[c].op # NoOp
    BY DEF NoOp
  <2>3. o = co[c].op
    BY <2>1, <2>2, Zenon DEF Calls
  <2> QED
    BY <2>1, <2>3
<1>3. o # NoOp /\ Selected(o) = o
  BY <1>2, Calling, SelectedCall
<1>4. Wait(c, o)
  <2>1. ~Send(c, o) /\ ~Receive(c, o) /\ ~Answered(c, o)
    BY <1>1, <1>2, <1>3 DEF Send, Receive, Answered
  <2>2. ~CloseChan(c, o) /\ ~SelectYields(c, o) /\ ~SelectDefault(c, o) /\ ~Get(c, o)
    BY <1>2, <1>3 DEF CloseChan, SelectYields, SelectDefault, Get
  <2>3. ~Go(c, o) /\ ~GroupGo(c, o) /\ ~Add(c, o) /\ ~Done(c, o)
    BY <1>2 DEF Go, GroupGo, Add, Done
  <2>4. ~WithCancel(c, o) /\ ~Disconnect(c, o) /\ ~Cancel(c, o)
    BY <1>2 DEF WithCancel, Disconnect, Cancel
  <2>5. ~ScheduleTimer(c, o) /\ ~SignalChannel(c, o)
    BY <1>2 DEF ScheduleTimer, SignalChannel
  <2> QED
    BY <2>1, <2>2, <2>3, <2>4, <2>5 DEF Step
<1>5. group[o.on].done \/ Yields(c, o, TRUE)
  BY <1>1, <1>4 DEF Wait
<1>6. ~Yields(c, o, TRUE)
  BY <1>3, YieldsEffect
<1> QED
  BY <1>1, <1>2, <1>5, <1>6

LEMMA WaitEnds ==
    ASSUME Typed, Linked, Grouped, Next, ~over',
           NEW c \in Co, co[c].op.kind = "wait", co'[c].op = NoOp
    PROVE  group[co[c].op.on].n = 0
<1>1. co[c] \in CoState /\ co[c].op # NoOp /\ co \in [Co -> CoState]
  BY ControlTypes DEF Control, NoOp
<1>2. ASSUME \/ co'[c] = co[c]
             \/ co'[c] = [co[c] EXCEPT !.woken = TRUE]
             \/ co'[c] = [co[c] EXCEPT !.life = "finished"]
      PROVE  FALSE
  BY <1>1, <1>2 DEF CoState
<1>3. ASSUME NEW d \in Co, NEW o \in AllCalls, Step(d, o)
      PROVE  group[co[c].op.on].n = 0
  BY <1>1, <1>3, OthersCalls, OwnCall
<1>4. ASSUME NEW d \in Co, NEW err \in BOOLEAN, Finish(d, err) PROVE FALSE
  BY <1>2, <1>4 DEF Finish
<1>5. ASSUME NEW s \in Signals, ReceiveSignal(s) PROVE FALSE
  <2>1. UNCHANGED co \/ co' = [co EXCEPT ![Head(chan[s].receivers)].woken = TRUE]
    BY <1>5 DEF ReceiveSignal
  <2> QED
    BY <1>1, <1>2, <2>1
<1>6. ASSUME NEW f \in Fut, TimerFired(f) PROVE FALSE
  BY <1>2, <1>6 DEF TimerFired
<1>7. ASSUME WorkflowCanceled PROVE FALSE
  BY <1>2, <1>7 DEF WorkflowCanceled
<1>8. ASSUME Exit PROVE FALSE
  BY <1>8 DEF Exit
<1> QED
  BY <1>3, <1>4, <1>5, <1>6, <1>7, <1>8 DEF Next

(***************************************************************************)
(* No Wait that blocked returns while a member of its group runs, whatever *)
(* the coroutines call: the future that it waits for is set when the count *)
(* reaches zero, and from there Add, Done and Go of a group that somebody  *)
(* waits for panic (waitgroup.go, errgroup.go).                            *)
(***************************************************************************)
THEOREM BlockedWaitEnds == Spec => BlockedWaitEndsAtZero
<1> DEFINE IInv == Typed /\ Reaching /\ Orderly
<1>1. Init => IInv
  BY InitTyped, InitReaching, InitLinked DEF Orderly
<1>2. IInv /\ [Next]_vars => IInv'
  BY NextTyped, NextReaching, NextOrderly
<1>3. IInv /\ [Next]_vars =>
        [\A c \in Co : LET o == co[c].op IN
           o.kind = "wait" /\ co'[c].op = NoOp /\ ~over' => group[o.on].n = 0]_vars
  <2> SUFFICES ASSUME IInv, Next, NEW c \in Co,
                      co[c].op.kind = "wait", co'[c].op = NoOp, ~over'
               PROVE  group[co[c].op.on].n = 0
    OBVIOUS
  <2>1. over \in BOOLEAN
    BY ControlTypes DEF Control
  <2>2. ~over
    BY <2>1, OverStays
  <2>3. Linked /\ Grouped
    BY <2>2 DEF Orderly
  <2> QED
    BY <2>3, WaitEnds
<1> QED
  BY <1>1, <1>2, <1>3, PTL DEF Spec, BlockedWaitEndsAtZero

-----------------------------------------------------------------------------
(* The end of a round.  Whoever has yielded is in the list of what it       *)
(* waits for, or was woken, or polls; so as long as no turn of the round    *)
(* marked progress or enabled another coroutine, those whose turn is over   *)
(* are stuck, and stay so.                                                  *)

Enlisted ==
    \A c \in Co :
      /\ co[c].op = NoOp => ~co[c].waits
      /\ co[c].woken => co[c].op.kind \in {"send", "receive"}
      /\ ~co[c].woken => \A h \in Chan :
           /\ co[c].op.kind = "receive" /\ co[c].op.on = h => c \in Entries(h)
           /\ co[c].op.kind = "send" /\ co[c].op.on = h => <<c, co[c].left>> \in Offers(h)

\* The call o, or a case of it when it is a Select, is of this kind and about x.
Looks(o, kind, x) ==
    IF o.kind = "select"
    THEN \E i \in DOMAIN o.cases : o.cases[i].kind = kind /\ o.cases[i].on = x
    ELSE o.kind = kind /\ o.on = x

TimersMade ==
    \A c \in Co, f \in Fut :
      co[c].op # NoOp /\ Looks(co[c].op, "get", f) => future[f] # "none"

RoundStuck ==
    /\ Idle => allBlocked /\ ~progress /\ ~quiet
    /\ allBlocked /\ ~silent /\ ~progress /\ ~quiet =>
         \A i \in DOMAIN coroutines, d \in Co :
           coroutines[i] = d /\ (i < turn \/ Idle) => Stuck(d)

Rounds == Enlisted /\ TimersMade /\ RoundStuck

\* What Stuck asks of the pending call.
Halted(o) ==
    CASE o.kind = "receive" -> ~CanReceive(o.on)
      [] o.kind = "send"    -> ~CanSend(o.on) /\ ~chan[o.on].closed
      [] o.kind = "select"  -> ReadyCases(o) = {}
      [] o.kind = "get"     -> ~Ready(o.on)
      [] o.kind = "wait"    -> ~group[o.on].done

LEMMA StuckForm ==
    ASSUME NEW c, NEW o, o = co[c].op
    PROVE  Stuck(c) <=> o # NoOp /\ ~co[c].woken /\ Halted(o)
BY DEF Stuck, Halted

LEMMA StuckFormThen ==
    ASSUME NEW c, NEW o, o = co'[c].op
    PROVE  Stuck(c)' <=> o # NoOp /\ ~co'[c].woken /\ Halted(o)'
BY DEF Stuck, Halted

\* What a pending call is about.
LEMMA PendingCall ==
    ASSUME NEW o \in AllCalls, o.kind \in Waiting
    PROVE  /\ o.kind # "select" => WellFormed(o)
           /\ o.kind = "select" =>
                \A i \in DOMAIN o.cases :
                  /\ o.cases[i].kind \in CaseKinds
                  /\ o.cases[i].kind # "default" => WellFormed(o.cases[i])
BY CallsAssumption

\* Nothing that the call o looks at has happened.
Unmoved(o) ==
    /\ \A h \in Chan : Looks(o, "receive", h) => (CanReceive(h)' => CanReceive(h))
    /\ \A h \in Chan \ Ctx : Looks(o, "send", h) =>
         (CanSend(h)' => CanSend(h)) /\ (chan'[h].closed => chan[h].closed)
    /\ \A f \in Fut : Looks(o, "get", f) => (Ready(f)' => Ready(f))
    /\ \A w \in Groups : group'[w].done => group[w].done

LEMMA HaltedStays ==
    ASSUME NEW o \in AllCalls, o.kind \in Waiting, Unmoved(o), Halted(o)
    PROVE  Halted(o)'
<1>1. CASE o.kind = "select"
  <2>1. ASSUME NEW i \in DOMAIN o.cases PROVE ~CaseReady(o.cases[i])'
    <3> PICK k : k = o.cases[i]
      OBVIOUS
    <3>1. ~CaseReady(k) /\ k.kind \in CaseKinds /\ (k.kind # "default" => WellFormed(k))
      BY <1>1, <2>1, PendingCall DEF Halted, ReadyCases
    <3>2. k.kind # "default" => Looks(o, k.kind, k.on)
      BY <1>1, <2>1 DEF Looks
    <3>3. CASE k.kind = "receive"
      <4>1. k.on \in Chan /\ ~CanReceive(k.on)
        BY <3>1, <3>3, CallArguments DEF CaseReady
      <4>2. ~CanReceive(k.on)'
        BY <3>2, <3>3, <4>1 DEF Unmoved
      <4> QED
        BY <3>3, <4>2 DEF CaseReady
    <3>4. CASE k.kind = "send"
      <4>1. k.on \in Chan \ Ctx /\ ~CanSend(k.on)
        BY <3>1, <3>4, CallArguments DEF CaseReady
      <4>2. ~CanSend(k.on)'
        BY <3>2, <3>4, <4>1 DEF Unmoved
      <4> QED
        BY <3>4, <4>2 DEF CaseReady
    <3>5. CASE k.kind = "get"
      <4>1. k.on \in Fut /\ ~Ready(k.on)
        BY <3>1, <3>5, CallArguments DEF CaseReady
      <4>2. ~Ready(k.on)'
        BY <3>2, <3>5, <4>1 DEF Unmoved
      <4> QED
        BY <3>5, <4>2 DEF CaseReady
    <3>6. k.kind # "default"
      BY <3>1 DEF CaseReady
    <3> QED
      BY <3>1, <3>3, <3>4, <3>5, <3>6 DEF CaseKinds
  <2>2. ReadyCases(o)' = {}
    BY <2>1 DEF ReadyCases
  <2> QED
    BY <1>1, <2>2 DEF Halted
<1>2. CASE o.kind # "select"
  <2>1. WellFormed(o) /\ Looks(o, o.kind, o.on)
    BY <1>2, PendingCall DEF Looks
  <2>2. CASE o.kind = "receive"
    <3>1. o.on \in Chan /\ ~CanReceive(o.on)
      BY <2>1, <2>2, CallArguments DEF Halted
    <3>2. ~CanReceive(o.on)'
      BY <2>1, <2>2, <3>1 DEF Unmoved
    <3> QED
      BY <2>2, <3>2 DEF Halted
  <2>3. CASE o.kind = "send"
    <3>1. o.on \in Chan \ Ctx /\ ~CanSend(o.on) /\ ~chan[o.on].closed
      BY <2>1, <2>3, CallArguments DEF Halted
    <3>2. ~CanSend(o.on)' /\ ~chan'[o.on].closed
      BY <2>1, <2>3, <3>1 DEF Unmoved
    <3> QED
      BY <2>3, <3>2 DEF Halted
  <2>4. CASE o.kind = "get"
    <3>1. o.on \in Fut /\ ~Ready(o.on)
      BY <2>1, <2>4, CallArguments DEF Halted
    <3>2. ~Ready(o.on)'
      BY <2>1, <2>4, <3>1 DEF Unmoved
    <3> QED
      BY <2>4, <3>2 DEF Halted
  <2>5. CASE o.kind = "wait"
    <3>1. o.on \in Groups /\ ~group[o.on].done
      BY <2>1, <2>5, CallArguments DEF Halted
    <3>2. ~group'[o.on].done
      BY <3>1 DEF Unmoved
    <3> QED
      BY <2>5, <3>2 DEF Halted
  <2> QED
    BY <1>2, <2>2, <2>3, <2>4, <2>5 DEF Waiting
<1> QED
  BY <1>1, <1>2

\* What keeps d stuck.
Undisturbed(d) == Stuck(d) => Stuck(d)'

LEMMA StuckStays ==
    ASSUME Typed, NEW d \in Co, co'[d].op = co[d].op, co'[d].woken = co[d].woken,
           NEW o, o = co[d].op, Stuck(d) => Unmoved(o)
    PROVE  Undisturbed(d)
<1> SUFFICES ASSUME Stuck(d) PROVE Stuck(d)'
  BY DEF Undisturbed
<1>1. o # NoOp /\ ~co[d].woken /\ Halted(o) /\ o = co'[d].op
  BY StuckForm
<1>2. o \in AllCalls /\ o.kind \in Waiting
  BY <1>1, ControlTypes DEF Control, CoState, Typed, PendingCalls
<1>3. Halted(o)'
  BY <1>1, <1>2, HaltedStays
<1> QED
  BY <1>1, <1>3, StuckFormThen

-----------------------------------------------------------------------------
(* What returning, yielding and spawning keep of it.                       *)

\* Nobody leaves a list but those in W.
Stay(W) ==
    \A h \in Chan :
      /\ \A d \in Co : d \in Entries(h) => d \in Entries(h)' \/ d \in W
      /\ \A v \in Offers(h) : v \in Offers(h)' \/ SenderOf(v) \subseteq W

LEMMA ReturnsWakes ==
    ASSUME Typed, NEW c \in Co, NEW W, NEW marks, NEW enables, Returns(c, W, marks, enables)
    PROVE  /\ ~co'[c].waits
           /\ \A d \in W : d \in Co /\ d # c => co'[d].woken
<1>1. co[c] \in CoState /\ \A d \in Co : co[d] \in CoState
  BY ControlTypes DEF Control
<1>2. co'[c] = [co[c] EXCEPT !.op = NoOp, !.woken = FALSE, !.waits = FALSE, !.left = @ - 1]
  BY DEF Returns
<1>3. ASSUME NEW d \in W, d \in Co, d # c PROVE co'[d].woken
  <2>1. co'[d] = [co[d] EXCEPT !.woken = TRUE]
    BY <1>3 DEF Returns
  <2> QED
    BY <1>1, <1>3, <2>1 DEF CoState
<1>4. ~co'[c].waits
  BY <1>1, <1>2 DEF CoState
<1> QED
  BY <1>3, <1>4

LEMMA ReturnsEnlisted ==
    ASSUME Typed, Enlisted, NEW c \in Co, NEW W, NEW marks, NEW enables,
           Returns(c, W, marks, enables), Stay(W \cup {c}),
           \A d \in W : d \in Co => co[d].op.kind \in {"send", "receive"}
    PROVE  Enlisted'
<1>1. NoOp.kind = "none" /\ ~co'[c].waits /\ \A d \in W : d \in Co /\ d # c => co'[d].woken
  BY ReturnsWakes DEF NoOp
<1> SUFFICES ASSUME NEW d \in Co
             PROVE  /\ co'[d].op = NoOp => ~co'[d].waits
                    /\ co'[d].woken => co'[d].op.kind \in {"send", "receive"}
                    /\ ~co'[d].woken => \A h \in Chan :
                         /\ co'[d].op.kind = "receive" /\ co'[d].op.on = h =>
                              d \in Entries(h)'
                         /\ co'[d].op.kind = "send" /\ co'[d].op.on = h =>
                              <<d, co'[d].left>> \in Offers(h)'
  BY DEF Enlisted
<1>2. CASE d = c
  BY <1>1, <1>2, ReturnsEffect
<1>3. CASE d # c
  <2> PICK o : o = co[d].op
    OBVIOUS
  <2>1. /\ co'[d].op = o /\ co'[d].waits = co[d].waits /\ co'[d].left = co[d].left
        /\ d \notin W => co'[d].woken = co[d].woken
        /\ d \in W => co'[d].woken
    BY <1>1, <1>3, ReturnsEffect
  <2>2. /\ o = NoOp => ~co[d].waits
        /\ co[d].woken => o.kind \in {"send", "receive"}
    BY DEF Enlisted
  <2>3. ASSUME d \notin W, ~co[d].woken, NEW h \in Chan, o.kind = "receive", o.on = h
        PROVE  d \in Entries(h)'
    <3>1. d \in Entries(h)
      BY <2>3 DEF Enlisted
    <3> QED
      BY <1>3, <2>3, <3>1 DEF Stay
  <2>4. ASSUME d \notin W, ~co[d].woken, NEW h \in Chan, o.kind = "send", o.on = h
        PROVE  <<d, co[d].left>> \in Offers(h)'
    <3> PICK v : v = <<d, co[d].left>>
      OBVIOUS
    <3>1. v \in Offers(h)
      BY <2>4 DEF Enlisted
    <3>2. v \in Offers(h)' \/ SenderOf(v) \subseteq W \cup {c}
      BY <3>1 DEF Stay
    <3>3. SenderOf(v) = {d}
      BY <1>1, <2>4 DEF SenderOf, Call
    <3> QED
      BY <1>3, <2>4, <3>2, <3>3
  <2> QED
    BY <2>1, <2>2, <2>3, <2>4
<1> QED
  BY <1>2, <1>3

LEMMA YieldsEnlisted ==
    ASSUME Typed, Enlisted, NEW c \in Co, NEW o, NEW registers \in BOOLEAN,
           Yields(c, o, registers), Stay({}), o # NoOp, ~co[c].woken,
           \A h \in Chan :
             /\ o.kind = "receive" /\ o.on = h => c \in Entries(h)'
             /\ o.kind = "send" /\ o.on = h => <<c, co[c].left>> \in Offers(h)'
    PROVE  Enlisted'
<1> SUFFICES ASSUME NEW d \in Co
             PROVE  /\ co'[d].op = NoOp => ~co'[d].waits
                    /\ co'[d].woken => co'[d].op.kind \in {"send", "receive"}
                    /\ ~co'[d].woken => \A h \in Chan :
                         /\ co'[d].op.kind = "receive" /\ co'[d].op.on = h =>
                              d \in Entries(h)'
                         /\ co'[d].op.kind = "send" /\ co'[d].op.on = h =>
                              <<d, co'[d].left>> \in Offers(h)'
  BY DEF Enlisted
<1>1. /\ \A e \in Co : e # c => co'[e] = co[e]
      /\ co'[c].op = o /\ co'[c].woken = co[c].woken /\ co'[c].left = co[c].left
  BY YieldsEffect
<1>2. CASE d = c
  BY <1>1, <1>2
<1>3. CASE d # c
  <2> PICK p : p = co[d].op
    OBVIOUS
  <2>1. co'[d] = co[d] /\ co'[d].op = p
    BY <1>1, <1>3
  <2>2. /\ p = NoOp => ~co[d].waits
        /\ co[d].woken => p.kind \in {"send", "receive"}
    BY DEF Enlisted
  <2>3. ASSUME ~co[d].woken, NEW h \in Chan, p.kind = "receive", p.on = h
        PROVE  d \in Entries(h)'
    <3>1. d \in Entries(h)
      BY <2>3 DEF Enlisted
    <3> QED
      BY <2>3, <3>1 DEF Stay
  <2>4. ASSUME ~co[d].woken, NEW h \in Chan, p.kind = "send", p.on = h
        PROVE  <<d, co[d].left>> \in Offers(h)'
    <3> PICK v : v = <<d, co[d].left>>
      OBVIOUS
    <3>1. v \in Offers(h)
      BY <2>4 DEF Enlisted
    <3>2. v \in Offers(h)' \/ SenderOf(v) \subseteq {}
      BY <3>1 DEF Stay
    <3>3. SenderOf(v) = {d}
      BY <2>4 DEF SenderOf, Call, NoOp
    <3> QED
      BY <3>2, <3>3
  <2> QED
    BY <2>1, <2>2, <2>3, <2>4
<1> QED
  BY <1>2, <1>3

\* Those that leave the lists, and nobody else, are woken.
LEMMA WakesEnlisted ==
    ASSUME Typed, Enlisted, NEW W, Stay(W),
           \A d \in W : d \in Co => co[d].op.kind \in {"send", "receive"},
           \A d \in Co :
             /\ co'[d].op = co[d].op /\ co'[d].waits = co[d].waits
             /\ co[d].op # NoOp => co'[d].left = co[d].left
             /\ d \in W => co'[d].woken
             /\ d \notin W => co'[d].woken = co[d].woken
    PROVE  Enlisted'
<1> SUFFICES ASSUME NEW d \in Co
             PROVE  /\ co'[d].op = NoOp => ~co'[d].waits
                    /\ co'[d].woken => co'[d].op.kind \in {"send", "receive"}
                    /\ ~co'[d].woken => \A h \in Chan :
                         /\ co'[d].op.kind = "receive" /\ co'[d].op.on = h =>
                              d \in Entries(h)'
                         /\ co'[d].op.kind = "send" /\ co'[d].op.on = h =>
                              <<d, co'[d].left>> \in Offers(h)'
  BY DEF Enlisted
<1> PICK p : p = co[d].op
  OBVIOUS
<1>1. /\ co'[d].op = p /\ co'[d].waits = co[d].waits
      /\ p # NoOp => co'[d].left = co[d].left
      /\ d \in W => co'[d].woken
      /\ d \notin W => co'[d].woken = co[d].woken
  OBVIOUS
<1>2. /\ p = NoOp => ~co[d].waits
      /\ co[d].woken => p.kind \in {"send", "receive"}
  BY DEF Enlisted
<1>3. ASSUME d \notin W, ~co[d].woken, NEW h \in Chan, p.kind = "receive", p.on = h
      PROVE  d \in Entries(h)'
  <2>1. d \in Entries(h)
    BY <1>3 DEF Enlisted
  <2> QED
    BY <1>3, <2>1 DEF Stay
<1>4. ASSUME d \notin W, ~co[d].woken, NEW h \in Chan, p.kind = "send", p.on = h
      PROVE  <<d, co'[d].left>> \in Offers(h)'
  <2> PICK v : v = <<d, co[d].left>>
    OBVIOUS
  <2>1. v \in Offers(h) /\ p # NoOp
    BY <1>4 DEF Enlisted, NoOp
  <2>2. v \in Offers(h)' \/ SenderOf(v) \subseteq W
    BY <2>1 DEF Stay
  <2>3. SenderOf(v) = {d}
    BY <1>4, <2>1 DEF SenderOf, Call
  <2> QED
    BY <1>1, <1>4, <2>1, <2>2, <2>3
<1> QED
  BY <1>1, <1>2, <1>3, <1>4

-----------------------------------------------------------------------------
(* Who is stuck when a turn goes on, or ends.                               *)

\* Those whose turn is over are not c, which runs.
LEMMA Others ==
    ASSUME Typed, Grouped, NEW c \in Co, Runs(c)
    PROVE  /\ turn \in 1 .. Len(coroutines) /\ Len(coroutines) \in Nat
           /\ coroutines \in Seq(Co) /\ DOMAIN coroutines = 1 .. Len(coroutines)
           /\ coroutines[turn] = c
           /\ \A i \in DOMAIN coroutines :
                /\ coroutines[i] \in Co /\ co[coroutines[i]].life = "live"
                /\ i # turn => coroutines[i] # c
<1>1. /\ coroutines \in Seq(Co) /\ Len(coroutines) \in Nat /\ turn \in DOMAIN coroutines
      /\ DOMAIN coroutines = 1 .. Len(coroutines) /\ coroutines[turn] = c
  BY Running, ControlTypes DEF Control, Scheduled
<1>2. \A i \in DOMAIN coroutines : coroutines[i] \in Co
  BY <1>1
<1> QED
  BY <1>1, <1>2 DEF Grouped, Listed

LEMMA ReturnsStuck ==
    ASSUME Typed, Grouped, RoundStuck, NEW c \in Co, Runs(c),
           NEW W, NEW marks \in BOOLEAN, NEW enables \in BOOLEAN,
           Returns(c, W, marks, enables),
           marks \/ enables \/ \A d \in Co \ {c} : Undisturbed(d)
    PROVE  RoundStuck'
<1>1. /\ turn \in 1 .. Len(coroutines) /\ Len(coroutines) \in Nat
      /\ UNCHANGED <<coroutines, turn, allBlocked, silent>>
      /\ progress' = (progress \/ marks) /\ quiet' = (quiet \/ enables)
  BY Others DEF Returns, scheduling
<1>2. ~Idle'
  BY <1>1 DEF Idle
<1>3. ASSUME allBlocked', ~silent', ~progress', ~quiet', NEW i \in DOMAIN coroutines', i < turn',
             NEW d \in Co, coroutines'[i] = d
      PROVE  Stuck(d)'
  <2>1. allBlocked /\ ~silent /\ ~progress /\ ~quiet /\ ~marks /\ ~enables
    BY <1>1, <1>3
  <2>2. i \in DOMAIN coroutines /\ i < turn /\ coroutines[i] = d
    BY <1>1, <1>3
  <2>3. Stuck(d) /\ d \in Co \ {c}
    BY <2>1, <2>2, Others DEF RoundStuck
  <2> QED
    BY <2>1, <2>3 DEF Undisturbed
<1> QED
  BY <1>2, <1>3 DEF RoundStuck

LEMMA YieldsStuck ==
    ASSUME Typed, Grouped, RoundStuck, NEW c \in Co, Runs(c), NEW o,
           NEW registers \in BOOLEAN, Yields(c, o, registers), Stuck(c)',
           \/ registers /\ ~co[c].waits /\ SelectWaits(o)
           \/ \A d \in Co \ {c} : Undisturbed(d)
    PROVE  RoundStuck'
<1> DEFINE enables == registers /\ ~co[c].waits /\ SelectWaits(o)
<1>1. /\ turn \in 1 .. Len(coroutines) /\ Len(coroutines) \in Nat
      /\ coroutines[turn] = c /\ DOMAIN coroutines = 1 .. Len(coroutines)
      /\ \A i \in DOMAIN coroutines : coroutines[i] \in Co /\ (i # turn => coroutines[i] # c)
  BY Others
<1>2. enables \in BOOLEAN /\ (enables \/ \A d \in Co \ {c} : Undisturbed(d))
  BY Zenon
<1>3. YieldsTurn(enables)
  BY DEF Yields
<1> DEFINE blocked == allBlocked /\ ~progress
           hushed == silent \/ ((quiet \/ enables) /\ ~progress)
<1>4. /\ blocked \in BOOLEAN /\ hushed \in BOOLEAN
      /\ blocked => allBlocked /\ ~progress
      /\ blocked /\ ~hushed => ~silent /\ ~quiet /\ ~enables
  BY Zenon
<1>5. MovesTo(turn + 1, coroutines, blocked, hushed)
  BY <1>3 DEF YieldsTurn
<1> HIDE DEF enables, blocked, hushed
<1>6. /\ coroutines' = coroutines /\ progress' = FALSE /\ quiet' = FALSE
      /\ \/ turn' = turn + 1 /\ allBlocked' = blocked /\ silent' = hushed
         \/ /\ turn' = 0 /\ allBlocked' = TRUE /\ silent' = hushed
            /\ turn + 1 > Len(coroutines) /\ blocked
         \/ turn' = 1
  <2>1. coroutines # <<>>
    BY <1>1
  <2> QED
    BY <1>1, <1>5, <2>1 DEF MovesTo
<1>7. Idle' => allBlocked' /\ ~progress' /\ ~quiet'
  BY <1>1, <1>6 DEF Idle
<1>8. ASSUME allBlocked', ~silent', NEW i \in DOMAIN coroutines', i < turn' \/ Idle',
             NEW d \in Co, coroutines'[i] = d
      PROVE  Stuck(d)'
  <2>1. i \in 1 .. Len(coroutines) /\ coroutines[i] = d
    BY <1>1, <1>6, <1>8
  <2>2. turn' # 1
    BY <1>8, <2>1 DEF Idle
  <2>3. allBlocked /\ ~progress /\ ~silent /\ ~quiet /\ ~enables
    <3>1. blocked /\ ~hushed
      BY <1>4, <1>6, <1>8, <2>2
    <3> QED
      BY <1>4, <3>1, Zenon
  <2>4. i <= turn
    <3>1. CASE turn' = turn + 1
      <4>1. turn' # 0
        BY <1>1, <3>1
      <4>2. i < turn + 1
        BY <1>8, <3>1, <4>1 DEF Idle
      <4> QED
        BY <1>1, <2>1, <4>2
    <3>2. CASE turn + 1 > Len(coroutines)
      BY <1>1, <2>1, <3>2
    <3> QED
      BY <1>6, <2>2, <3>1, <3>2
  <2>5. CASE i = turn
    BY <1>1, <2>1, <2>5
  <2>6. CASE i # turn
    <3>1. Stuck(d) /\ d \in Co \ {c}
      BY <1>1, <2>1, <2>3, <2>4, <2>6 DEF RoundStuck
    <3> QED
      BY <1>2, <2>3, <3>1 DEF Undisturbed
  <2> QED
    BY <2>5, <2>6
<1> QED
  BY <1>7, <1>8 DEF RoundStuck

LEMMA SpawnsStuck ==
    ASSUME Typed, Grouped, RoundStuck, NEW c \in Co, Runs(c),
           NEW d \in Co, co[d].life = "none", NEW g, Spawns(c, d, g),
           \A e \in Co \ {c, d} : Undisturbed(e)
    PROVE  RoundStuck'
<1>1. /\ turn \in 1 .. Len(coroutines) /\ Len(coroutines) \in Nat
      /\ UNCHANGED <<turn, allBlocked, progress, quiet, silent>>
      /\ coroutines' = Append(coroutines, d) /\ coroutines \in Seq(Co)
      /\ DOMAIN coroutines = 1 .. Len(coroutines)
  BY Others DEF Spawns
<1>2. ~Idle'
  BY <1>1 DEF Idle
<1>3. \A i \in DOMAIN coroutines' : i < turn => /\ i \in DOMAIN coroutines
                                                /\ coroutines'[i] = coroutines[i]
  BY <1>1
<1>4. ASSUME allBlocked', ~silent', ~progress', ~quiet', NEW i \in DOMAIN coroutines', i < turn',
             NEW e \in Co, coroutines'[i] = e
      PROVE  Stuck(e)'
  <2>1. i < turn /\ i \in DOMAIN coroutines /\ coroutines'[i] = coroutines[i]
    BY <1>1, <1>3, <1>4
  <2>2. e \in Co \ {c, d}
    <3>1. i # turn /\ coroutines[i] = e
      BY <1>1, <1>4, <2>1
    <3>2. e # c /\ co[e].life = "live"
      BY <2>1, <3>1, Others
    <3> QED
      BY <1>4, <3>2
  <2>3. Stuck(e)
    BY <1>1, <1>4, <2>1 DEF RoundStuck
  <2> QED
    BY <2>2, <2>3 DEF Undisturbed
<1> QED
  BY <1>2, <1>4 DEF RoundStuck

LEMMA EndsTurnStuck ==
    ASSUME Typed, Grouped, NEW c \in Co, Runs(c), EndsTurn
    PROVE  RoundStuck'
<1>1. turn \in 1 .. Len(coroutines) /\ coroutines \in Seq(Co) /\ turn \in DOMAIN coroutines
  BY Others
<1>2. coroutines' \in Seq(Co)
  BY <1>1, RemovedAt DEF EndsTurn, MovesTo
<1>3. /\ progress' = FALSE /\ quiet' = FALSE
      /\ \/ turn' = turn /\ allBlocked' = FALSE
         \/ turn' = 0 /\ allBlocked' = TRUE /\ coroutines' = <<>>
         \/ turn' = 1
  BY DEF EndsTurn, MovesTo
<1>4. DOMAIN <<>> = {}
  BY EmptySeq
<1> QED
  BY <1>1, <1>2, <1>3, <1>4 DEF RoundStuck, Idle

LEMMA StartsRoundStuck ==
    ASSUME Typed, RoundStuck, Idle, StartsRound
    PROVE  RoundStuck'
<1>1. /\ coroutines' = coroutines /\ progress' = progress /\ quiet' = quiet
      /\ allBlocked' = TRUE /\ turn' = IF coroutines = <<>> THEN 0 ELSE 1
      /\ coroutines \in Seq(Co) /\ ~progress /\ ~quiet
  BY ControlTypes DEF StartsRound, RoundStuck, Control, Scheduled
<1>2. DOMAIN <<>> = {}
  BY EmptySeq
<1> QED
  BY <1>1, <1>2 DEF RoundStuck, Idle

-----------------------------------------------------------------------------
(* Who leaves the lists.                                                    *)

LEMMA HeadOrTail ==
    ASSUME NEW S, NEW s \in Seq(S), s # <<>>, NEW e \in ToSet(s)
    PROVE  e = Head(s) \/ e \in ToSet(Tail(s))
<1>1. /\ Head(s) = s[1] /\ DOMAIN s = 1 .. Len(s) /\ DOMAIN Tail(s) = 1 .. Len(s) - 1
      /\ \A i \in DOMAIN Tail(s) : Tail(s)[i] = s[i + 1]
      /\ Len(s) \in Nat
  BY TailElements
<1>2. PICK i \in 1 .. Len(s) : s[i] = e
  BY <1>1 DEF ToSet
<1>3. CASE i = 1
  BY <1>1, <1>2, <1>3
<1>4. CASE i # 1
  <2>1. i - 1 \in DOMAIN Tail(s) /\ (i - 1) + 1 = i
    BY <1>1, <1>4
  <2>2. Tail(s)[i - 1] = e
    BY <1>1, <1>2, <2>1
  <2> QED
    BY <2>1, <2>2 DEF ToSet
<1> QED
  BY <1>3, <1>4

LEMMA SameStay ==
    ASSUME UNCHANGED chan, NEW W
    PROVE  Stay(W)
BY DEF Stay, Entries, Offers

\* One channel changes.
LEMMA ChannelStay ==
    ASSUME Typed, NEW h \in Chan, NEW r, NEW W, chan' = [chan EXCEPT ![h] = r],
           \A d \in Entries(h) : d \in Co => d \in ToSet(r.receivers) \/ d \in W,
           \A v \in Offers(h) : v \in ToSet(r.senders) \/ SenderOf(v) \subseteq W
    PROVE  Stay(W)
<1>1. chan \in [Chan -> Channel]
  BY DataTypes DEF ChannelTypes
<1>2. chan'[h] = r /\ \A g \in Chan \ {h} : chan'[g] = chan[g]
  BY <1>1
<1>3. \A g \in Chan \ {h} : Entries(g)' = Entries(g) /\ Offers(g)' = Offers(g)
  BY <1>2 DEF Entries, Offers
<1>4. Entries(h)' = ToSet(r.receivers) /\ Offers(h)' = ToSet(r.senders)
  BY <1>2 DEF Entries, Offers
<1> QED
  BY <1>3, <1>4 DEF Stay

LEMMA HandOverStay ==
    ASSUME Typed, NEW h \in Chan, NEW v, HandOver(h, v), NEW W, Head(chan[h].receivers) \in W
    PROVE  Stay(W)
<1> DEFINE s == chan[h].receivers
           r == [chan[h] EXCEPT !.receivers = Tail(@)]
<1>1. /\ chan[h] \in Channel /\ s \in Seq(Co \cup Fut) /\ s # <<>>
      /\ chan' = [chan EXCEPT ![h] = r]
  BY DataTypes DEF ChannelTypes, HandOver
<1>2. r.receivers = Tail(s) /\ r.senders = chan[h].senders
  BY <1>1 DEF Channel
<1>3. \A d \in ToSet(s) : d = Head(s) \/ d \in ToSet(Tail(s))
  BY <1>1, HeadOrTail
<1> HIDE DEF r
<1> QED
  BY <1>1, <1>2, <1>3, ChannelStay DEF Entries, Offers

LEMMA TakeFromSenderStay ==
    ASSUME Typed, NEW h \in Chan, TakeFromSender(h),
           NEW W, SenderOf(Head(chan[h].senders)) \subseteq W
    PROVE  Stay(W)
<1> DEFINE s == chan[h].senders
           r == [chan[h] EXCEPT !.senders = Tail(@)]
<1>1. /\ chan[h] \in Channel /\ s \in Seq(Value) /\ s # <<>>
      /\ chan' = [chan EXCEPT ![h] = r]
  BY DataTypes DEF ChannelTypes, TakeFromSender
<1>2. r.senders = Tail(s) /\ r.receivers = chan[h].receivers
  BY <1>1 DEF Channel
<1>3. \A v \in ToSet(s) : v = Head(s) \/ v \in ToSet(Tail(s))
  BY <1>1, HeadOrTail
<1> HIDE DEF r
<1> QED
  BY <1>1, <1>2, <1>3, ChannelStay DEF Entries, Offers

LEMMA BuffersStay ==
    ASSUME Typed, NEW h \in Chan, (\E v : PutInBuffer(h, v)) \/ TakeFromBuffer(h), NEW W
    PROVE  Stay(W)
<1>1. PICK b : chan' = [chan EXCEPT ![h] = [chan[h] EXCEPT !.buffer = b]]
  BY DEF PutInBuffer, TakeFromBuffer
<1> DEFINE r == [chan[h] EXCEPT !.buffer = b]
<1>2. r.receivers = chan[h].receivers /\ r.senders = chan[h].senders
  BY DataTypes DEF ChannelTypes, Channel
<1>3. chan' = [chan EXCEPT ![h] = r]
  BY <1>1
<1> HIDE DEF r
<1> QED
  BY <1>2, <1>3, ChannelStay DEF Entries, Offers

LEMMA CancelsStay ==
    ASSUME Typed, Lists, NEW x, Cancels(x), NEW W, Notified(x) \cap Co \subseteq W
    PROVE  Stay(W)
BY CancelsLists DEF Stay

-----------------------------------------------------------------------------
(* What enables nobody.                                                     *)

Calm ==
    /\ \A h \in Chan : CanReceive(h)' => CanReceive(h)
    /\ \A h \in Chan \ Ctx : (CanSend(h)' => CanSend(h)) /\ (chan'[h].closed => chan[h].closed)
    /\ \A f \in Fut : future[f] # "none" => (Ready(f)' => Ready(f))
    /\ \A w \in Groups : group'[w].done => group[w].done

LEMMA SameCalm ==
    ASSUME UNCHANGED <<chan, future>>, \A w \in Groups : group'[w].done = group[w].done
    PROVE  Calm
BY DEF Calm, CanReceive, CanSend, HasCapacity, Ready

LEMMA CalmStays ==
    ASSUME Typed, TimersMade, Calm, NEW d \in Co,
           co'[d].op = co[d].op, co'[d].woken = co[d].woken
    PROVE  Undisturbed(d)
<1> PICK o : o = co[d].op
  OBVIOUS
<1>1. ASSUME Stuck(d) PROVE Unmoved(o)
  <2>1. o # NoOp
    BY <1>1, StuckForm
  <2>2. \A f \in Fut : Looks(o, "get", f) => future[f] # "none"
    BY <2>1 DEF TimersMade
  <2> QED
    BY <2>2 DEF Calm, Unmoved
<1> QED
  BY <1>1, StuckStays

\* Who calls anything but Send and Receive was not answered.
LEMMA Unanswered ==
    ASSUME Linked, Enlisted, NEW c \in Co, NEW o, Calls(c, o),
           o.kind \notin {"send", "receive"} \/ co[c].op = NoOp
    PROVE  ~co[c].woken
BY Zenon DEF Calls, Linked, Resting, Enlisted

LEMMA ReturningRounds ==
    ASSUME Typed, Linked, Grouped, Rounds, NEW c \in Co, NEW o, Calls(c, o),
           NEW W, NEW marks \in BOOLEAN, NEW enables \in BOOLEAN,
           Returns(c, W, marks, enables), Stay(W \cup {c}),
           \A d \in W : d \in Co => co[d].op.kind \in {"send", "receive"},
           marks \/ enables \/ (W = {} /\ Calm)
    PROVE  Enlisted' /\ RoundStuck'
<1>1. Runs(c)
  BY DEF Calls
<1>2. Enlisted'
  BY ReturnsEnlisted DEF Rounds
<1>3. marks \/ enables \/ \A d \in Co \ {c} : Undisturbed(d)
  <2> SUFFICES ASSUME W = {}, Calm, NEW d \in Co \ {c} PROVE Undisturbed(d)
    OBVIOUS
  <2>1. co'[d].op = co[d].op /\ co'[d].woken = co[d].woken
    BY ReturnsEffect
  <2> QED
    BY <2>1, CalmStays DEF Rounds
<1>4. RoundStuck'
  BY <1>1, <1>3, ReturnsStuck DEF Rounds
<1> QED
  BY <1>2, <1>4

\* Nothing changes but the coroutine that returns.
LEMMA ReturningQuietly ==
    ASSUME Typed, Linked, Grouped, Rounds, NEW c \in Co, NEW o, Calls(c, o),
           NEW marks \in BOOLEAN, NEW enables \in BOOLEAN, Returns(c, {}, marks, enables),
           UNCHANGED chan, marks \/ enables \/ Calm
    PROVE  Enlisted' /\ RoundStuck'
<1> PICK W : W = {}
  OBVIOUS
<1>1. Stay(W \cup {c})
  BY SameStay
<1>2. Returns(c, W, marks, enables)
  OBVIOUS
<1> QED
  BY <1>1, <1>2, ReturningRounds

LEMMA YieldingCalmly ==
    ASSUME Typed, Linked, Grouped, Rounds, NEW c \in Co, NEW o, Calls(c, o),
           NEW registers \in BOOLEAN, Yields(c, o, registers),
           UNCHANGED chan, Calm, Stuck(c)', ~co[c].woken,
           o.kind \in {"send", "receive"} => co[c].op = o
    PROVE  Enlisted' /\ RoundStuck'
<1>1. Runs(c) /\ o # NoOp
  <2>1. co'[c].op = o
    BY YieldsEffect
  <2> QED
    BY <2>1, StuckFormThen DEF Calls
<1>2. \A h \in Chan :
        /\ o.kind = "receive" /\ o.on = h => c \in Entries(h)'
        /\ o.kind = "send" /\ o.on = h => <<c, co[c].left>> \in Offers(h)'
  BY DEF Rounds, Enlisted, Entries, Offers
<1>3. Enlisted'
  BY <1>1, <1>2, SameStay, YieldsEnlisted DEF Rounds
<1>4. \A d \in Co \ {c} : Undisturbed(d)
  BY YieldsEffect, CalmStays DEF Rounds
<1>5. RoundStuck'
  BY <1>1, <1>4, YieldsStuck DEF Rounds
<1> QED
  BY <1>3, <1>5

-----------------------------------------------------------------------------
(* Every call keeps it.                                                     *)

LEMMA SendRounds ==
    ASSUME Typed, Linked, Grouped, Rounds, NEW c \in Co, NEW o, Send(c, o), ~over'
    PROVE  Enlisted' /\ RoundStuck'
<1> PICK k, v : k = Selected(o) /\ v = Call(c)
  OBVIOUS
<1> DEFINE h == k.on
           blocking == k.kind = "send"
<1>1. /\ Calls(c, o) /\ k.kind \in {"send", "sendNB"} /\ ~co[c].woken
      /\ UNCHANGED ctx /\ UNCHANGED group /\ UNCHANGED future
  BY DEF Send
<1>2. /\ h \in Chan \ Ctx /\ v \in Value
      /\ o.kind # "select" => k = o
      /\ o.kind = "select" => k.kind = "send" /\ CaseReady(k)
  BY <1>1, SelectedChannel
<1>3. \/ HandOver(h, v) /\ Returns(c, {Head(chan[h].receivers)}, blocking, ~blocking)
      \/ PutInBuffer(h, v) /\ Returns(c, {}, blocking, ~blocking)
      \/ UNCHANGED chan /\ Returns(c, {}, FALSE, FALSE)
      \/ /\ ~chan[h].closed /\ ~CanSend(h) /\ blocking /\ Yields(c, o, TRUE)
         /\ chan' = IF co[c].waits THEN chan
                    ELSE [chan EXCEPT ![h].senders = Append(@, v)]
  BY DEF Send, Panics
<1>4. blocking \in BOOLEAN /\ (~blocking) \in BOOLEAN /\ (blocking \/ ~blocking)
  BY Zenon
<1> HIDE DEF h
<1>5. CASE HandOver(h, v) /\ Returns(c, {Head(chan[h].receivers)}, blocking, ~blocking)
  <2> PICK W : W = {Head(chan[h].receivers)}
    OBVIOUS
  <2>1. Returns(c, W, blocking, ~blocking) /\ Stay(W \cup {c})
    BY <1>2, <1>5, HandOverStay
  <2>2. ASSUME NEW d \in W, d \in Co PROVE co[d].op.kind \in {"send", "receive"}
    <3>1. d \in Entries(h)
      BY <1>1, <1>2, <1>5, <2>2, HandOverLists DEF Linked
    <3> QED
      BY <1>2, <2>2, <3>1 DEF Linked, Awaiting
  <2> HIDE DEF blocking
  <2> QED
    BY <1>1, <1>4, <2>1, <2>2, ReturningRounds
<1>6. CASE PutInBuffer(h, v) /\ Returns(c, {}, blocking, ~blocking)
  <2> PICK W : W = {}
    OBVIOUS
  <2>1. Returns(c, W, blocking, ~blocking) /\ Stay(W \cup {c})
    BY <1>2, <1>6, BuffersStay
  <2>2. \A d \in W : d \in Co => co[d].op.kind \in {"send", "receive"}
    OBVIOUS
  <2> HIDE DEF blocking
  <2> QED
    BY <1>1, <1>4, <2>1, <2>2, ReturningRounds
<1>7. CASE UNCHANGED chan /\ Returns(c, {}, FALSE, FALSE)
  <2>1. Calm
    BY <1>1, <1>7, SameCalm
  <2> QED
    BY <1>1, <1>7, <2>1, ReturningQuietly
<1>8. CASE /\ ~chan[h].closed /\ ~CanSend(h) /\ blocking /\ Yields(c, o, TRUE)
           /\ chan' = IF co[c].waits THEN chan
                      ELSE [chan EXCEPT ![h].senders = Append(@, v)]
  <2>1. o.kind = "send" /\ h = o.on
    <3>1. o.kind # "select"
      BY <1>2, <1>8 DEF CaseReady, h
    <3> QED
      BY <1>2, <1>8, <3>1 DEF h
  <2> HIDE DEF blocking
  <2>2. \A g \in Chan : /\ chan'[g].buffer = chan[g].buffer
                        /\ chan'[g].receivers = chan[g].receivers
                        /\ chan'[g].closed = chan[g].closed
                        /\ g # h => chan'[g].senders = chan[g].senders
    <3>1. CASE UNCHANGED chan
      BY <3>1
    <3>2. CASE chan' = [chan EXCEPT ![h] = [chan[h] EXCEPT !.senders = Append(@, v)]]
      BY <1>2, <3>2, DataTypes DEF ChannelTypes, Channel
    <3> QED
      BY <1>8, <3>1, <3>2
  <2>3. co'[c].op = o /\ o # NoOp /\ co'[c].woken = co[c].woken
    <3>1. co'[c].op = o /\ co'[c].woken = co[c].woken
      BY <1>8, YieldsEffect
    <3>2. NoOp.kind = "none"
      BY DEF NoOp
    <3> QED
      BY <2>1, <3>1, <3>2
  <2>4. Stuck(c)'
    <3>1. ~CanSend(h)' /\ ~chan'[h].closed
      BY <1>2, <1>8, <2>2 DEF CanSend, HasCapacity
    <3>2. Halted(o)'
      BY <2>1, <3>1 DEF Halted
    <3> QED
      BY <1>1, <2>3, <3>2, StuckFormThen
  <2>5. CASE co[c].waits
    <3>1. UNCHANGED chan /\ Calm
      BY <1>1, <1>8, <2>5, SameCalm
    <3>2. co[c].op = o
      <4>1. co[c].op # NoOp
        BY <2>5 DEF Rounds, Enlisted
      <4> QED
        BY <1>1, <4>1, Zenon DEF Calls
    <3> QED
      BY <1>1, <1>8, <2>4, <3>1, <3>2, YieldingCalmly
  <2>6. CASE ~co[c].waits
    <3>1. chan' = [chan EXCEPT ![h].senders = Append(@, v)]
      BY <1>8, <2>6
    <3>2. /\ Offers(h)' = Offers(h) \cup {v}
          /\ \A g \in Chan : Entries(g)' = Entries(g) /\ (g # h => Offers(g)' = Offers(g))
      BY <1>1, <1>2, <1>8, <3>1, OffersLists DEF Linked
    <3>3. Stay({})
      BY <3>2 DEF Stay
    <3>4. Enlisted'
      <4>1. \A g \in Chan :
              /\ o.kind = "receive" /\ o.on = g => c \in Entries(g)'
              /\ o.kind = "send" /\ o.on = g => <<c, co[c].left>> \in Offers(g)'
        BY <1>2, <2>1, <3>2 DEF Call
      <4> QED
        BY <1>1, <1>8, <2>3, <3>3, <4>1, YieldsEnlisted DEF Rounds
    <3>5. ASSUME ~SelectWaits(o), NEW d \in Co \ {c}, Stuck(d), NEW p, p = co[d].op
          PROVE  Unmoved(p)
      <4>1. ~Looks(p, "receive", h)
        <5>1. CASE p.kind = "select"
          BY <2>1, <3>5, <5>1 DEF SelectWaits, Looks
        <5>2. CASE p.kind = "receive"
          <6>1. ~co[d].woken
            BY <3>5, StuckForm
          <6>2. p.on # h \/ d \in Entries(h)
            BY <1>2, <3>5, <5>2, <6>1 DEF Rounds, Enlisted
          <6>3. chan[h].receivers = <<>>
            BY <1>8 DEF CanSend
          <6>4. Entries(h) = {}
            BY <6>3, EmptySeq DEF Entries, ToSet
          <6> QED
            BY <5>2, <6>2, <6>4 DEF Looks
        <5> QED
          BY <5>1, <5>2 DEF Looks
      <4>2. \A g \in Chan \ {h} : CanReceive(g)' => CanReceive(g)
        BY <2>2 DEF CanReceive
      <4>3. \A g \in Chan : (CanSend(g)' => CanSend(g)) /\ (chan'[g].closed => chan[g].closed)
        BY <2>2 DEF CanSend, HasCapacity
      <4> QED
        BY <1>1, <4>1, <4>2, <4>3 DEF Unmoved, Ready
    <3>6. \/ TRUE /\ ~co[c].waits /\ SelectWaits(o)
          \/ \A d \in Co \ {c} : Undisturbed(d)
      <4> SUFFICES ASSUME ~SelectWaits(o), NEW d \in Co \ {c} PROVE Undisturbed(d)
        BY <2>6
      <4>1. co'[d].op = co[d].op /\ co'[d].woken = co[d].woken
        BY <1>8, YieldsEffect
      <4> PICK p : p = co[d].op
        OBVIOUS
      <4>2. Stuck(d) => Unmoved(p)
        BY <3>5
      <4> QED
        BY <4>1, <4>2, StuckStays
    <3>7. RoundStuck'
      BY <1>1, <1>8, <2>4, <3>6, YieldsStuck DEF Calls, Rounds
    <3> QED
      BY <3>4, <3>7
  <2> QED
    BY <2>5, <2>6
<1> QED
  BY <1>3, <1>5, <1>6, <1>7, <1>8

LEMMA ReceiveRounds ==
    ASSUME Typed, Linked, Grouped, Rounds, NEW c \in Co, NEW o, Receive(c, o), ~over'
    PROVE  Enlisted' /\ RoundStuck'
<1> PICK k : k = Selected(o)
  OBVIOUS
<1> DEFINE h == k.on
           blocking == k.kind = "receive"
<1>1. /\ Calls(c, o) /\ k.kind \in {"receive", "receiveNB"} /\ ~co[c].woken
      /\ UNCHANGED ctx /\ UNCHANGED group /\ UNCHANGED future
  BY DEF Receive
<1>2. /\ h \in Chan
      /\ o.kind # "select" => k = o
      /\ o.kind = "select" => k.kind = "receive" /\ CaseReady(k)
  BY <1>1, SelectedChannel
<1>3. \/ TakeFromBuffer(h) /\ Returns(c, {}, blocking, ~blocking)
      \/ /\ TakeFromSender(h)
         /\ Returns(c, SenderOf(Head(chan[h].senders)), blocking, ~blocking)
      \/ UNCHANGED chan /\ \E marks \in BOOLEAN : Returns(c, {}, marks, FALSE)
      \/ /\ ~CanReceive(h) /\ blocking /\ Yields(c, o, TRUE)
         /\ chan' = IF co[c].waits THEN chan
                    ELSE [chan EXCEPT ![h].receivers = Append(@, c)]
  BY DEF Receive
<1>4. blocking \in BOOLEAN /\ (~blocking) \in BOOLEAN /\ (blocking \/ ~blocking)
  BY Zenon
<1> HIDE DEF h
<1>5. CASE TakeFromBuffer(h) /\ Returns(c, {}, blocking, ~blocking)
  <2> PICK W : W = {}
    OBVIOUS
  <2>1. Returns(c, W, blocking, ~blocking) /\ Stay(W \cup {c})
    BY <1>2, <1>5, BuffersStay
  <2>2. \A d \in W : d \in Co => co[d].op.kind \in {"send", "receive"}
    OBVIOUS
  <2> HIDE DEF blocking
  <2> QED
    BY <1>1, <1>4, <2>1, <2>2, ReturningRounds
<1>6. CASE /\ TakeFromSender(h)
           /\ Returns(c, SenderOf(Head(chan[h].senders)), blocking, ~blocking)
  <2> PICK v : v = Head(chan[h].senders)
    OBVIOUS
  <2> PICK W : W = SenderOf(v)
    OBVIOUS
  <2>1. Returns(c, W, blocking, ~blocking) /\ Stay(W \cup {c})
    BY <1>2, <1>6, TakeFromSenderStay
  <2>2. v \in Offers(h)
    BY <1>2, <1>6, DataTypes, TailSet DEF TakeFromSender, Offers
  <2>3. ASSUME NEW d \in W, d \in Co PROVE co[d].op.kind = "send"
    <3>1. d = v[1] /\ co[d].op # NoOp /\ co[d].left = v[2]
      BY <2>3 DEF SenderOf, Call
    <3>2. co[d].left \in Int
      BY <2>3, ControlTypes DEF Control, CoState
    <3> QED
      BY <1>2, <2>2, <3>1, <3>2 DEF Linked, Offered
  <2> HIDE DEF blocking
  <2> QED
    BY <1>1, <1>4, <2>1, <2>3, ReturningRounds
<1>7. CASE UNCHANGED chan /\ \E marks \in BOOLEAN : Returns(c, {}, marks, FALSE)
  <2>1. Calm
    BY <1>1, <1>7, SameCalm
  <2>2. PICK marks \in BOOLEAN : Returns(c, {}, marks, FALSE)
    BY <1>7
  <2> QED
    BY <1>1, <1>7, <2>1, <2>2, ReturningQuietly
<1>8. CASE /\ ~CanReceive(h) /\ blocking /\ Yields(c, o, TRUE)
           /\ chan' = IF co[c].waits THEN chan
                      ELSE [chan EXCEPT ![h].receivers = Append(@, c)]
  <2>1. o.kind = "receive" /\ h = o.on
    <3>1. o.kind # "select"
      BY <1>2, <1>8 DEF CaseReady, h
    <3> QED
      BY <1>2, <1>8, <3>1 DEF h
  <2> HIDE DEF blocking
  <2>2. \A g \in Chan : /\ chan'[g].buffer = chan[g].buffer
                        /\ chan'[g].senders = chan[g].senders
                        /\ chan'[g].closed = chan[g].closed
                        /\ g # h => chan'[g].receivers = chan[g].receivers
    <3>1. CASE UNCHANGED chan
      BY <3>1
    <3>2. CASE chan' = [chan EXCEPT ![h] = [chan[h] EXCEPT !.receivers = Append(@, c)]]
      BY <1>2, <3>2, DataTypes DEF ChannelTypes, Channel
    <3> QED
      BY <1>8, <3>1, <3>2
  <2>3. co'[c].op = o /\ o # NoOp /\ co'[c].woken = co[c].woken
    <3>1. co'[c].op = o /\ co'[c].woken = co[c].woken
      BY <1>8, YieldsEffect
    <3>2. NoOp.kind = "none"
      BY DEF NoOp
    <3> QED
      BY <2>1, <3>1, <3>2
  <2>4. Stuck(c)'
    <3>1. ~CanReceive(h)'
      BY <1>2, <1>8, <2>2 DEF CanReceive
    <3>2. Halted(o)'
      BY <2>1, <3>1 DEF Halted
    <3> QED
      BY <1>1, <2>3, <3>2, StuckFormThen
  <2>5. CASE co[c].waits
    <3>1. UNCHANGED chan /\ Calm
      BY <1>1, <1>8, <2>5, SameCalm
    <3>2. co[c].op = o
      <4>1. co[c].op # NoOp
        BY <2>5 DEF Rounds, Enlisted
      <4> QED
        BY <1>1, <4>1, Zenon DEF Calls
    <3> QED
      BY <1>1, <1>8, <2>4, <3>1, <3>2, YieldingCalmly
  <2>6. CASE ~co[c].waits
    <3>1. chan' = [chan EXCEPT ![h].receivers = Append(@, c)]
      BY <1>8, <2>6
    <3>2. Entries(h)' = Entries(h) \cup {c}
      <4>1. chan'[h].receivers = Append(chan[h].receivers, c)
        BY <1>2, <3>1, DataTypes DEF ChannelTypes, Channel
      <4> QED
        BY <1>2, <4>1, AppendSet, DataTypes DEF Entries
    <3>3. Stay({})
      BY <2>2, <3>2 DEF Stay, Entries, Offers
    <3>4. Enlisted'
      <4>1. \A g \in Chan :
              /\ o.kind = "receive" /\ o.on = g => c \in Entries(g)'
              /\ o.kind = "send" /\ o.on = g => <<c, co[c].left>> \in Offers(g)'
        BY <2>1, <3>2
      <4> QED
        BY <1>1, <1>8, <2>3, <3>3, <4>1, YieldsEnlisted DEF Rounds
    <3>5. ASSUME ~SelectWaits(o), NEW d \in Co \ {c}, Stuck(d), NEW p, p = co[d].op
          PROVE  Unmoved(p)
      <4>1. ~Looks(p, "send", h)
        <5>1. CASE p.kind = "select"
          BY <2>1, <3>5, <5>1 DEF SelectWaits, Looks
        <5>2. CASE p.kind = "send"
          <6>1. ~co[d].woken
            BY <3>5, StuckForm
          <6>2. p.on # h \/ <<d, co[d].left>> \in Offers(h)
            BY <1>2, <3>5, <5>2, <6>1 DEF Rounds, Enlisted
          <6>3. chan[h].senders = <<>>
            BY <1>8 DEF CanReceive
          <6>4. Offers(h) = {}
            BY <6>3, EmptySeq DEF Offers, ToSet
          <6> QED
            BY <5>2, <6>2, <6>4 DEF Looks
        <5> QED
          BY <5>1, <5>2 DEF Looks
      <4>2. \A g \in Chan : CanReceive(g)' => CanReceive(g)
        BY <2>2 DEF CanReceive
      <4>3. /\ \A g \in Chan \ {h} : CanSend(g)' => CanSend(g)
            /\ \A g \in Chan : chan'[g].closed => chan[g].closed
        BY <2>2 DEF CanSend, HasCapacity
      <4> QED
        BY <1>1, <4>1, <4>2, <4>3 DEF Unmoved, Ready
    <3>6. \/ TRUE /\ ~co[c].waits /\ SelectWaits(o)
          \/ \A d \in Co \ {c} : Undisturbed(d)
      <4> SUFFICES ASSUME ~SelectWaits(o), NEW d \in Co \ {c} PROVE Undisturbed(d)
        BY <2>6
      <4>1. co'[d].op = co[d].op /\ co'[d].woken = co[d].woken
        BY <1>8, YieldsEffect
      <4> PICK p : p = co[d].op
        OBVIOUS
      <4>2. Stuck(d) => Unmoved(p)
        BY <3>5
      <4> QED
        BY <4>1, <4>2, StuckStays
    <3>7. RoundStuck'
      BY <1>1, <1>8, <2>4, <3>6, YieldsStuck DEF Calls, Rounds
    <3> QED
      BY <3>4, <3>7
  <2> QED
    BY <2>5, <2>6
<1> QED
  BY <1>3, <1>5, <1>6, <1>7, <1>8

\* Nothing changes that anybody looks at.
LEMMA SameDataCalm ==
    ASSUME UNCHANGED data
    PROVE  UNCHANGED chan /\ UNCHANGED <<chan, future>> /\ Calm
<1>1. UNCHANGED chan /\ UNCHANGED <<chan, future>> /\ UNCHANGED group
  BY DEF data
<1> QED
  BY <1>1, SameCalm

LEMMA AnsweredRounds ==
    ASSUME Typed, Linked, Grouped, Rounds, NEW c \in Co, NEW o, Answered(c, o)
    PROVE  Enlisted' /\ RoundStuck'
<1>1. Calls(c, o) /\ Returns(c, {}, TRUE, FALSE) /\ UNCHANGED data
  BY DEF Answered
<1> QED
  BY <1>1, SameDataCalm, ReturningQuietly

LEMMA CloseChanRounds ==
    ASSUME Typed, Linked, Grouped, Rounds, NEW c \in Co, NEW o, CloseChan(c, o), ~over'
    PROVE  Enlisted' /\ RoundStuck'
<1> PICK h, W : h = o.on /\ W = Entries(o.on)
  OBVIOUS
<1> DEFINE r == [chan[h] EXCEPT !.closed = TRUE, !.receivers = <<>>]
<1>1. /\ Calls(c, o) /\ o.kind = "close" /\ Returns(c, W, FALSE, TRUE)
      /\ chan' = [chan EXCEPT ![h].closed = TRUE, ![h].receivers = <<>>]
  BY DEF CloseChan, Panics, Entries
<1>2. h \in Chan
  BY <1>1, Calling, SelectedCall, CallArguments
<1>3. chan[h] \in Channel /\ chan' = [chan EXCEPT ![h] = r]
  BY <1>1, <1>2, DataTypes DEF ChannelTypes
<1>4. r.senders = chan[h].senders
  BY <1>3 DEF Channel
<1> HIDE DEF r
<1>5. Stay(W \cup {c})
  BY <1>2, <1>3, <1>4, ChannelStay DEF Offers
<1>6. \A d \in W : d \in Co => co[d].op.kind \in {"send", "receive"}
  BY <1>2 DEF Linked, Awaiting
<1> QED
  BY <1>1, <1>5, <1>6, ReturningRounds

LEMMA PollingRounds ==
    ASSUME Typed, Linked, Grouped, Rounds, NEW c \in Co, NEW o, Calls(c, o), UNCHANGED data,
           o.kind \in {"select", "get"}, Yields(c, o, FALSE), Halted(o)
    PROVE  Enlisted' /\ RoundStuck'
<1>1. ~co[c].woken
  BY Unanswered DEF Rounds
<1>2. co'[c].op = o /\ co'[c].woken = co[c].woken
  BY YieldsEffect
<1>3. o # NoOp
  BY DEF NoOp
<1>4. Halted(o)'
  <2>1. UNCHANGED chan /\ UNCHANGED future
    BY DEF data
  <2>2. ReadyCases(o)' = ReadyCases(o)
    BY <2>1 DEF ReadyCases, CaseReady, CanReceive, CanSend, HasCapacity, Ready
  <2> QED
    BY <2>1, <2>2 DEF Halted, Ready
<1>5. Stuck(c)'
  BY <1>1, <1>2, <1>3, <1>4, StuckFormThen
<1> QED
  BY <1>1, <1>5, SameDataCalm, YieldingCalmly

LEMMA SelectYieldsRounds ==
    ASSUME Typed, Linked, Grouped, Rounds, NEW c \in Co, NEW o, SelectYields(c, o)
    PROVE  Enlisted' /\ RoundStuck'
<1>1. Calls(c, o) /\ Selected(o) = NoOp /\ Yields(c, o, FALSE) /\ UNCHANGED data
  BY DEF SelectYields
<1>2. o.kind = "select" /\ o \in AllCalls
  BY <1>1, Calling, SelectedCall
<1>3. Halted(o)
  BY <1>1, <1>2, FirstCase DEF Halted
<1> QED
  BY <1>1, <1>2, <1>3, PollingRounds

LEMMA SelectDefaultRounds ==
    ASSUME Typed, Linked, Grouped, Rounds, NEW c \in Co, NEW o, SelectDefault(c, o)
    PROVE  Enlisted' /\ RoundStuck'
<1>1. Calls(c, o) /\ Returns(c, {}, FALSE, FALSE) /\ UNCHANGED data
  BY DEF SelectDefault
<1> QED
  BY <1>1, SameDataCalm, ReturningQuietly

LEMMA GetRounds ==
    ASSUME Typed, Linked, Grouped, Rounds, NEW c \in Co, NEW o, Get(c, o)
    PROVE  Enlisted' /\ RoundStuck'
<1>1. Calls(c, o) /\ Selected(o).kind = "get" /\ UNCHANGED data
  BY DEF Get
<1>2. CASE Ready(Selected(o).on)
  <2>1. PICK marks \in BOOLEAN : Returns(c, {}, marks, FALSE)
    BY <1>2 DEF Get
  <2> QED
    BY <1>1, <2>1, SameDataCalm, ReturningQuietly
<1>3. CASE ~Ready(Selected(o).on)
  <2>1. Yields(c, o, FALSE)
    BY <1>3 DEF Get
  <2>2. o.kind = "get" /\ Selected(o) = o
    <3>1. o \in AllCalls
      BY <1>1, Calling
    <3>2. Selected(o) # NoOp
      BY <1>1 DEF NoOp
    <3>3. o.kind # "select"
      BY <1>1, <1>3, <3>1, <3>2, SelectedCall DEF CaseReady
    <3> QED
      BY <1>1, <3>1, <3>3, SelectedCall
  <2>3. Halted(o)
    BY <1>3, <2>2 DEF Halted
  <2> QED
    BY <1>1, <2>1, <2>2, <2>3, PollingRounds
<1> QED
  BY <1>2, <1>3

LEMMA SpawningRounds ==
    ASSUME Typed, Linked, Grouped, Rounds, NEW c \in Co, NEW o, Calls(c, o),
           o.kind \in {"go", "goGroup"}, NEW g, Spawns(c, o.co, g), UNCHANGED chan, Calm
    PROVE  Enlisted' /\ RoundStuck'
<1> PICK d : d = o.co
  OBVIOUS
<1>1. d \in Co /\ co[d].life = "none" /\ co[c].op = NoOp
  BY Calling, SelectedCall, CallArguments DEF Waiting, Usable, Holds
<1>2. Runs(c) /\ co[c].life = "live" /\ c # d
  BY <1>1, Running DEF Calls
<1>3. co \in [Co -> CoState] /\ co[c] \in CoState /\ co[d] \in CoState
  BY <1>1, ControlTypes DEF Control
<1>4. /\ co'[d] = NewCo(g)
      /\ co'[c] = [co[c] EXCEPT !.left = @ - 1]
      /\ \A e \in Co : e # c /\ e # d => co'[e] = co[e]
  BY <1>1, <1>2, <1>3 DEF Spawns
<1>5. co'[c].op = co[c].op /\ co'[c].waits = co[c].waits /\ co'[c].woken = co[c].woken
  BY <1>3, <1>4 DEF CoState
<1>6. co'[d].op = co[d].op /\ co'[d].waits = co[d].waits /\ co'[d].woken = co[d].woken
  <2>1. co[d].op = NoOp /\ ~co[d].woken /\ ~co[d].waits
    BY <1>1 DEF Linked, Resting, Rounds, Enlisted
  <2>2. co[d].woken = FALSE /\ co[d].waits = FALSE
    BY <1>3, <2>1 DEF CoState
  <2>3. co'[d].op = NoOp /\ co'[d].woken = FALSE /\ co'[d].waits = FALSE
    BY <1>4 DEF NewCo
  <2> QED
    BY <2>1, <2>2, <2>3, Zenon
<1>7. co[d].op = NoOp
  BY <1>1 DEF Linked, Resting
<1>8. \A e \in Co : /\ co'[e].op = co[e].op /\ co'[e].waits = co[e].waits
                    /\ co'[e].woken = co[e].woken
                    /\ co[e].op # NoOp => co'[e].left = co[e].left
  BY <1>1, <1>4, <1>5, <1>6, <1>7
<1>9. Enlisted'
  <2> PICK W : W = {}
    OBVIOUS
  <2>1. Stay(W)
    BY SameStay
  <2> QED
    BY <1>8, <2>1, WakesEnlisted DEF Rounds
<1>10. \A e \in Co \ {c, d} : Undisturbed(e)
  BY <1>8, CalmStays DEF Rounds
<1>11. RoundStuck'
  BY <1>1, <1>2, <1>10, SpawnsStuck DEF Rounds
<1> QED
  BY <1>9, <1>11

LEMMA GoRounds ==
    ASSUME Typed, Linked, Grouped, Rounds, NEW c \in Co, NEW o, Go(c, o)
    PROVE  Enlisted' /\ RoundStuck'
<1>1. Calls(c, o) /\ o.kind = "go" /\ Spawns(c, o.co, NoCtx) /\ UNCHANGED data
  BY DEF Go
<1> QED
  BY <1>1, SameDataCalm, SpawningRounds

\* One group changes.
LEMMA GroupCalm ==
    ASSUME Typed, NEW w \in Groups, NEW r, group' = [group EXCEPT ![w] = r],
           r.done = group[w].done, UNCHANGED <<chan, future>>
    PROVE  Calm
<1>1. group \in [Groups -> Group]
  BY DataTypes DEF LocalTypes
<1>2. \A v \in Groups : group'[v].done = group[v].done
  BY <1>1
<1> QED
  BY <1>2, SameCalm

LEMMA GroupGoRounds ==
    ASSUME Typed, Linked, Grouped, Rounds, NEW c \in Co, NEW o, GroupGo(c, o), ~over'
    PROVE  Enlisted' /\ RoundStuck'
<1> PICK w : w = o.on
  OBVIOUS
<1> DEFINE r == [group[w] EXCEPT !.n = @ + 1]
<1>1. /\ Calls(c, o) /\ o.kind = "goGroup" /\ Spawns(c, o.co, o.on)
      /\ UNCHANGED chan /\ UNCHANGED <<chan, future>> /\ group' = [group EXCEPT ![w] = r]
  BY DEF GroupGo, Panics
<1>2. w \in Groups
  BY <1>1, Calling, SelectedCall, CallArguments
<1>3. r.done = group[w].done
  BY <1>2, DataTypes DEF LocalTypes, Group
<1> HIDE DEF r
<1>4. Calm
  BY <1>1, <1>2, <1>3, GroupCalm
<1> QED
  BY <1>1, <1>4, SpawningRounds

LEMMA AddRounds ==
    ASSUME Typed, Linked, Grouped, Rounds, NEW c \in Co, NEW o, Add(c, o), ~over'
    PROVE  Enlisted' /\ RoundStuck'
<1> PICK w : w = o.on
  OBVIOUS
<1> DEFINE r == [group[w] EXCEPT !.n = @ + 1]
<1>1. /\ Calls(c, o) /\ o.kind = "add" /\ Returns(c, {}, FALSE, FALSE)
      /\ UNCHANGED chan /\ UNCHANGED <<chan, future>> /\ group' = [group EXCEPT ![w] = r]
  BY DEF Add, Panics
<1>2. w \in Groups
  BY <1>1, Calling, SelectedCall, CallArguments
<1>3. r.done = group[w].done
  BY <1>2, DataTypes DEF LocalTypes, Group
<1> HIDE DEF r
<1>4. Calm
  BY <1>1, <1>2, <1>3, GroupCalm
<1> QED
  BY <1>1, <1>4, ReturningQuietly

LEMMA DoneRounds ==
    ASSUME Typed, Linked, Grouped, Rounds, NEW c \in Co, NEW o, Done(c, o), ~over'
    PROVE  Enlisted' /\ RoundStuck'
<1>1. Calls(c, o) /\ Returns(c, {}, FALSE, TRUE) /\ UNCHANGED chan
  BY DEF Done, Panics
<1> QED
  BY <1>1, ReturningQuietly

LEMMA WaitRounds ==
    ASSUME Typed, Linked, Grouped, Rounds, NEW c \in Co, NEW o, Wait(c, o)
    PROVE  Enlisted' /\ RoundStuck'
<1> PICK w : w = o.on
  OBVIOUS
<1> DEFINE r == [group[w] EXCEPT !.waiting = TRUE]
<1>1. /\ Calls(c, o) /\ o.kind = "wait" /\ UNCHANGED chan /\ UNCHANGED <<chan, future>>
      /\ group' = [group EXCEPT ![w] = r]
      /\ \/ \E marks \in BOOLEAN : Returns(c, {}, marks, FALSE)
         \/ ~group[w].done /\ Yields(c, o, TRUE)
  BY DEF Wait
<1>2. w \in Groups
  BY <1>1, Calling, SelectedCall, CallArguments
<1>3. r.done = group[w].done
  BY <1>2, DataTypes DEF LocalTypes, Group
<1> HIDE DEF r
<1>4. Calm
  BY <1>1, <1>2, <1>3, GroupCalm
<1>5. CASE \E marks \in BOOLEAN : Returns(c, {}, marks, FALSE)
  <2>1. PICK marks \in BOOLEAN : Returns(c, {}, marks, FALSE)
    BY <1>5
  <2> QED
    BY <1>1, <1>4, <2>1, ReturningQuietly
<1>6. CASE ~group[w].done /\ Yields(c, o, TRUE)
  <2>1. ~co[c].woken
    BY <1>1, Unanswered DEF Rounds
  <2>2. co'[c].op = o /\ co'[c].woken = co[c].woken
    BY <1>6, YieldsEffect
  <2>3. o # NoOp
    BY <1>1 DEF NoOp
  <2>4. ~group'[w].done
    BY <1>2, <1>4, <1>6 DEF Calm
  <2>5. ~group'[o.on].done
    BY <2>4
  <2>6. Halted(o)'
    BY <1>1, <2>5 DEF Halted
  <2>7. Stuck(c)'
    BY <2>1, <2>2, <2>3, <2>6, StuckFormThen
  <2> QED
    BY <1>1, <1>4, <1>6, <2>1, <2>7, YieldingCalmly
<1> QED
  BY <1>1, <1>5, <1>6

\* A new context's done channel is open, unless its parent was canceled.
LEMMA WithCancelRounds ==
    ASSUME Typed, Linked, Grouped, Rounds, NEW c \in Co, NEW o, WithCancel(c, o)
    PROVE  Enlisted' /\ RoundStuck'
<1> PICK x, late, W : x = o.on /\ late = (ctx[o.parent].status = "canceled") /\ W = {}
  OBVIOUS
<1> DEFINE r == [chan[x] EXCEPT !.closed = late]
<1>1. /\ Calls(c, o) /\ o.kind = "withCancel" /\ Returns(c, W, late, FALSE)
      /\ chan' = [chan EXCEPT ![x] = r] /\ UNCHANGED future /\ UNCHANGED group
  BY DEF WithCancel
<1>2. x \in Ctx /\ x \in Chan /\ late \in BOOLEAN
  BY <1>1, NewUnderParent, CoroutinesAssumption
<1>3. /\ r.receivers = chan[x].receivers /\ r.senders = chan[x].senders
      /\ r.buffer = chan[x].buffer /\ r.closed = late
  BY <1>2, DataTypes DEF ChannelTypes, Channel
<1> HIDE DEF r
<1>4. Stay(W \cup {c})
  BY <1>1, <1>2, <1>3, ChannelStay DEF Entries, Offers
<1>5. ASSUME ~late PROVE Calm
  <2>1. chan'[x] = r /\ \A h \in Chan \ {x} : chan'[h] = chan[h]
    BY <1>1, <1>2, DataTypes DEF ChannelTypes
  <2>2. \A h \in Chan : CanReceive(h)' => CanReceive(h)
    BY <1>3, <1>5, <2>1 DEF CanReceive
  <2>3. \A h \in Chan \ Ctx : chan'[h] = chan[h]
    BY <1>2, <2>1
  <2> QED
    BY <1>1, <2>2, <2>3 DEF Calm, CanSend, HasCapacity, Ready
<1>6. \A d \in W : d \in Co => co[d].op.kind \in {"send", "receive"}
  OBVIOUS
<1> QED
  BY <1>1, <1>2, <1>4, <1>5, <1>6, ReturningRounds

LEMMA DisconnectRounds ==
    ASSUME Typed, Linked, Grouped, Rounds, NEW c \in Co, NEW o, Disconnect(c, o)
    PROVE  Enlisted' /\ RoundStuck'
<1>1. /\ Calls(c, o) /\ Returns(c, {}, FALSE, FALSE) /\ UNCHANGED chan
      /\ UNCHANGED <<chan, future>> /\ UNCHANGED group
  BY DEF Disconnect
<1> QED
  BY <1>1, SameCalm, ReturningQuietly

LEMMA CancelRounds ==
    ASSUME Typed, Linked, Grouped, Rounds, NEW c \in Co, NEW o, Cancel(c, o)
    PROVE  Enlisted' /\ RoundStuck'
<1> PICK x, W : x = o.on /\ W = Notified(o.on) \cap Co
  OBVIOUS
<1>1. Calls(c, o) /\ Cancels(x) /\ Returns(c, W, FALSE, TRUE)
  BY DEF Cancel
<1>2. Lists
  BY DEF Linked
<1>3. Stay(W \cup {c})
  BY <1>1, <1>2, CancelsStay
<1>4. ASSUME NEW d \in W, d \in Co PROVE co[d].op.kind \in {"send", "receive"}
  <2>1. PICK h \in Chan : d \in Entries(h)
    BY <1>1, <1>2, <1>4, CancelsLists
  <2> QED
    BY <1>4, <2>1 DEF Linked, Awaiting
<1> QED
  BY <1>1, <1>3, <1>4, ReturningRounds

\* Nobody waits yet for a timer that is being made.
LEMMA ScheduleTimerRounds ==
    ASSUME Typed, Linked, Grouped, Rounds, NEW c \in Co, NEW o, ScheduleTimer(c, o)
    PROVE  Enlisted' /\ RoundStuck'
<1> PICK q, f, W : q = o.parent /\ f = o.on /\ W = {}
  OBVIOUS
<1>1. /\ Calls(c, o) /\ o.kind = "timer" /\ UNCHANGED group
      /\ \E s : future' = [future EXCEPT ![f] = s]
      /\ \/ UNCHANGED chan
         \/ chan' = [chan EXCEPT ![q].receivers = Append(@, f)]
      /\ Returns(c, W, FALSE, FALSE)
  BY DEF ScheduleTimer
<1>2. f \in Fut /\ q \in Ctx /\ q \in Chan /\ future[f] = "none"
  BY <1>1, NewUnderParent, CoroutinesAssumption
<1>3. ASSUME NEW h \in Chan
      PROVE  /\ chan'[h].buffer = chan[h].buffer /\ chan'[h].senders = chan[h].senders
             /\ chan'[h].closed = chan[h].closed
             /\ h # q => chan'[h] = chan[h]
  <2>1. CASE UNCHANGED chan
    BY <2>1
  <2>2. CASE chan' = [chan EXCEPT ![q] = [chan[q] EXCEPT !.receivers = Append(@, f)]]
    BY <1>2, <2>2, DataTypes DEF ChannelTypes, Channel
  <2> QED
    BY <1>1, <2>1, <2>2
<1>4. Stay(W \cup {c})
  <2>1. CASE UNCHANGED chan
    BY <2>1, SameStay
  <2>2. CASE chan' = [chan EXCEPT ![q].receivers = Append(@, f)]
    <3> DEFINE r == [chan[q] EXCEPT !.receivers = Append(@, f)]
    <3>1. r.receivers = Append(chan[q].receivers, f) /\ r.senders = chan[q].senders
      BY <1>2, DataTypes DEF ChannelTypes, Channel
    <3>2. chan' = [chan EXCEPT ![q] = r]
      BY <2>2
    <3> HIDE DEF r
    <3>3. ToSet(r.receivers) = Entries(q) \cup {f}
      BY <1>2, <3>1, AppendSet, DataTypes DEF Entries
    <3> QED
      BY <1>2, <3>1, <3>2, <3>3, ChannelStay DEF Offers
  <2> QED
    BY <1>1, <2>1, <2>2
<1>5. Calm
  <2>1. \A h \in Chan : CanReceive(h)' => CanReceive(h)
    BY <1>3 DEF CanReceive
  <2>2. \A h \in Chan \ Ctx : chan'[h] = chan[h]
    BY <1>2, <1>3
  <2>3. \A e \in Fut \ {f} : future'[e] = future[e]
    BY <1>1, <1>2, DataTypes DEF LocalTypes
  <2> QED
    BY <1>1, <1>2, <2>1, <2>2, <2>3 DEF Calm, CanSend, HasCapacity, Ready
<1>6. \A d \in W : d \in Co => co[d].op.kind \in {"send", "receive"}
  OBVIOUS
<1> QED
  BY <1>1, <1>4, <1>5, <1>6, ReturningRounds

\* The signals that were kept count as progress.
LEMMA SignalChannelRounds ==
    ASSUME Typed, Linked, Grouped, Rounds, NEW c \in Co, NEW o, SignalChannel(c, o)
    PROVE  Enlisted' /\ RoundStuck'
<1> PICK s, kept, W : s = o.on /\ kept = Reverse(pending[o.on]) /\ W = {}
  OBVIOUS
<1> DEFINE r == [chan[s] EXCEPT !.buffer = @ \o kept]
           marks == pending[s] # <<>>
<1>1. /\ Calls(c, o) /\ o.kind = "signalChannel" /\ Returns(c, W, marks, FALSE)
      /\ chan' = [chan EXCEPT ![s] = r] /\ UNCHANGED future /\ UNCHANGED group
  BY DEF SignalChannel
<1>2. s \in Signals /\ s \in Chan
  BY <1>1, Calling, SelectedCall, CallArguments, CoroutinesAssumption
<1>3. /\ chan[s].buffer \in Seq(Value) /\ pending[s] \in Seq(Value)
      /\ chan \in [Chan -> Channel]
  BY <1>2, DataTypes DEF ChannelTypes
<1>4. /\ r.receivers = chan[s].receivers /\ r.senders = chan[s].senders
      /\ r.closed = chan[s].closed /\ r.buffer = chan[s].buffer \o kept
  BY <1>2, <1>3 DEF Channel
<1> HIDE DEF r
<1>5. Stay(W \cup {c})
  BY <1>1, <1>2, <1>4, ChannelStay DEF Entries, Offers
<1>6. ASSUME pending[s] = <<>> PROVE Calm
  <2>1. kept \in Seq(Value) /\ Len(kept) = Len(pending[s])
    BY <1>2, <1>3, Reversed
  <2>2. kept = <<>>
    BY <1>6, <2>1, EmptySeq
  <2>3. r.buffer = chan[s].buffer
    BY <1>3, <1>4, <2>2, ConcatEmptySeq
  <2>4. chan'[s] = r /\ \A h \in Chan \ {s} : chan'[h] = chan[h]
    BY <1>1, <1>2, <1>3
  <2>5. \A h \in Chan : CanReceive(h)' = CanReceive(h)
    BY <1>4, <2>3, <2>4 DEF CanReceive
  <2>6. \A h \in Chan : CanSend(h)' = CanSend(h) /\ chan'[h].closed = chan[h].closed
    BY <1>4, <2>3, <2>4 DEF CanSend, HasCapacity
  <2> QED
    BY <1>1, <2>5, <2>6 DEF Calm, Ready
<1>7. marks \in BOOLEAN /\ (marks \/ (W = {} /\ Calm))
  BY <1>6
<1>8. \A d \in W : d \in Co => co[d].op.kind \in {"send", "receive"}
  OBVIOUS
<1> HIDE DEF marks
<1> QED
  BY <1>1, <1>5, <1>7, <1>8, ReturningRounds

-----------------------------------------------------------------------------
(* So do the end of a coroutine and the events.                             *)

\* Those that are taken off the lists, and nobody else, are woken.
LEMMA WakingEnlisted ==
    ASSUME Typed, Linked, Enlisted, NEW W, Stay(W), \A d \in W : \E h \in Chan : d \in Entries(h),
           \A d \in Co :
             /\ d \in W => co'[d] = [co[d] EXCEPT !.woken = TRUE]
             /\ d \notin W => co'[d] = co[d] \/ co'[d] = [co[d] EXCEPT !.life = "finished"]
    PROVE  Enlisted'
<1>1. ASSUME NEW d \in Co
      PROVE  /\ co'[d].op = co[d].op /\ co'[d].waits = co[d].waits
             /\ co'[d].left = co[d].left
             /\ d \in W => co'[d].woken
             /\ d \notin W => co'[d].woken = co[d].woken
  <2>1. co[d] \in CoState
    BY ControlTypes DEF Control
  <2>2. CASE d \in W
    <3>1. co'[d] = [co[d] EXCEPT !.woken = TRUE]
      BY <2>2
    <3> QED
      BY <2>1, <2>2, <3>1 DEF CoState
  <2>3. CASE d \notin W /\ co'[d] = co[d]
    BY <2>3
  <2>4. CASE d \notin W /\ co'[d] = [co[d] EXCEPT !.life = "finished"]
    BY <2>1, <2>4 DEF CoState
  <2> QED
    BY <2>2, <2>3, <2>4
<1>2. \A d \in W : d \in Co => co[d].op.kind \in {"send", "receive"}
  BY DEF Linked, Awaiting
<1> QED
  BY <1>1, <1>2, WakesEnlisted

LEMMA FinishRounds ==
    ASSUME Typed, Linked, Grouped, Rounds, NEW c \in Co, NEW err \in BOOLEAN, Finish(c, err)
    PROVE  Enlisted' /\ RoundStuck'
<1> PICK g : g = co[c].group
  OBVIOUS
<1> DEFINE cancels == g # NoCtx /\ err /\ ~group[g].err
<1> DEFINE W == IF cancels THEN Notified(g) ELSE {}
<1>1. /\ Runs(c) /\ co[c].op = NoOp
      /\ IF cancels THEN Cancels(g) ELSE UNCHANGED <<chan, future, ctx>>
      /\ co'[c] = [co[c] EXCEPT !.life = "finished"]
      /\ \A d \in Co : d # c =>
           co'[d] = IF cancels /\ d \in Notified(g) THEN [co[d] EXCEPT !.woken = TRUE]
                    ELSE co[d]
      /\ EndsTurn
  BY DEF Finish
<1> HIDE DEF cancels
<1>2. Stay(W) /\ \A d \in W : \E h \in Chan : d \in Entries(h)
  <2>1. CASE cancels
    BY <1>1, <2>1, CancelsLists, CancelsStay DEF Linked
  <2>2. CASE ~cancels
    BY <1>1, <2>2, SameStay
  <2> QED
    BY <2>1, <2>2
<1>3. c \notin W
  BY <1>1, <1>2 DEF Linked, Awaiting, NoOp
<1>4. ASSUME NEW d \in Co
      PROVE  /\ d \in W => co'[d] = [co[d] EXCEPT !.woken = TRUE]
             /\ d \notin W => co'[d] = co[d] \/ co'[d] = [co[d] EXCEPT !.life = "finished"]
  <2>1. CASE d = c
    BY <1>1, <1>3, <2>1
  <2>2. CASE d # c
    BY <1>1, <2>2
  <2> QED
    BY <2>1, <2>2
<1> HIDE DEF W
<1>5. Enlisted'
  BY <1>2, <1>4, WakingEnlisted DEF Rounds
<1>6. RoundStuck'
  BY <1>1, EndsTurnStuck
<1> QED
  BY <1>5, <1>6

LEMMA ReceiveSignalRounds ==
    ASSUME Typed, Linked, Rounds, NEW s \in Signals, ReceiveSignal(s)
    PROVE  Enlisted' /\ RoundStuck'
<1> PICK v, d : v = <<Outside, signals>> /\ d = Head(chan[s].receivers)
  OBVIOUS
<1>1. /\ Idle /\ StartsRound /\ UNCHANGED ctx
      /\ \/ HandOver(s, v) /\ co' = [co EXCEPT ![d].woken = TRUE]
         \/ PutInBuffer(s, v) /\ UNCHANGED co
         \/ UNCHANGED chan /\ UNCHANGED co
  BY DEF ReceiveSignal
<1>2. s \in Chan /\ co \in [Co -> CoState] /\ Lists /\ s \notin Ctx
  BY ControlTypes, CoroutinesAssumption DEF Control, Linked
<1>3. PICK W : /\ Stay(W) /\ \A e \in W : \E h \in Chan : e \in Entries(h)
               /\ \A e \in Co : /\ e \in W => co'[e] = [co[e] EXCEPT !.woken = TRUE]
                                /\ e \notin W => co'[e] = co[e]
  <2>1. CASE HandOver(s, v) /\ co' = [co EXCEPT ![d].woken = TRUE]
    <3>1. d \in Entries(s)
      BY <1>1, <1>2, <2>1, HandOverLists
    <3>2. Stay({d})
      BY <1>2, <2>1, HandOverStay
    <3>3. \A e \in Co : /\ e \in {d} => co'[e] = [co[e] EXCEPT !.woken = TRUE]
                        /\ e \notin {d} => co'[e] = co[e]
      BY <1>2, <2>1
    <3> QED
      BY <1>2, <3>1, <3>2, <3>3
  <2>2. CASE (PutInBuffer(s, v) \/ UNCHANGED chan) /\ UNCHANGED co
    <3>1. Stay({})
      BY <1>2, <2>2, BuffersStay, SameStay
    <3> QED
      BY <2>2, <3>1
  <2> QED
    BY <1>1, <2>1, <2>2
<1>4. Enlisted'
  BY <1>3, WakingEnlisted DEF Rounds
<1>5. RoundStuck'
  BY <1>1, StartsRoundStuck DEF Rounds
<1> QED
  BY <1>4, <1>5

LEMMA WorkflowCanceledRounds ==
    ASSUME Typed, Linked, Rounds, WorkflowCanceled
    PROVE  Enlisted' /\ RoundStuck'
<1> PICK W : W = Notified(Root)
  OBVIOUS
<1>1. /\ Idle /\ StartsRound /\ Cancels(Root)
      /\ \A d \in Co : /\ d \in W => co'[d] = [co[d] EXCEPT !.woken = TRUE]
                       /\ d \notin W => co'[d] = co[d]
  BY DEF WorkflowCanceled
<1>2. Stay(W) /\ \A d \in W : \E h \in Chan : d \in Entries(h)
  BY <1>1, CancelsLists, CancelsStay DEF Linked
<1>3. Enlisted'
  BY <1>1, <1>2, WakingEnlisted DEF Rounds
<1>4. RoundStuck'
  BY <1>1, StartsRoundStuck DEF Rounds
<1> QED
  BY <1>3, <1>4

LEMMA RemovedOther ==
    ASSUME NEW S, NEW s \in Seq(S), NEW f, NEW e \in ToSet(s), e # f
    PROVE  e \in ToSet(RemoveReceiveCallback(s, f))
<1>1. CASE f \notin ToSet(s)
  BY <1>1, Removed
<1>2. CASE f \in ToSet(s)
  <2>1. PICK i \in DOMAIN s : s[i] = f /\ RemoveReceiveCallback(s, f) = RemoveAt(s, i)
    BY <1>2, Removed
  <2> PICK r : r = RemoveAt(s, i)
    OBVIOUS
  <2>2. /\ r \in Seq(S) /\ Len(r) = Len(s) - 1 /\ Len(s) \in Nat
        /\ \A j \in 1 .. Len(s) - 1 : r[j] = IF j < i THEN s[j] ELSE s[j + 1]
        /\ DOMAIN s = 1 .. Len(s)
    BY RemovedAt
  <2>3. DOMAIN r = 1 .. Len(s) - 1
    BY <2>2
  <2>4. PICK j \in 1 .. Len(s) : s[j] = e
    BY <2>2 DEF ToSet
  <2>5. j # i
    BY <2>1, <2>4
  <2>6. CASE j < i
    <3>1. j \in 1 .. Len(s) - 1
      BY <2>2, <2>6
    <3>2. r[j] = e
      BY <2>2, <2>4, <2>6, <3>1
    <3> QED
      BY <2>1, <2>3, <3>1, <3>2 DEF ToSet
  <2>7. CASE ~(j < i)
    <3>1. j - 1 \in 1 .. Len(s) - 1 /\ ~(j - 1 < i) /\ (j - 1) + 1 = j
      BY <2>2, <2>5, <2>7
    <3>2. r[j - 1] = e
      BY <2>2, <2>4, <3>1
    <3> QED
      BY <2>1, <2>3, <3>1, <3>2 DEF ToSet
  <2> QED
    BY <2>6, <2>7
<1> QED
  BY <1>1, <1>2

LEMMA TimerFiredRounds ==
    ASSUME Typed, Linked, Rounds, NEW f \in Fut, TimerFired(f)
    PROVE  Enlisted' /\ RoundStuck'
<1> PICK W : W = {}
  OBVIOUS
<1>1. /\ Idle /\ StartsRound /\ UNCHANGED co
      /\ chan' = [h \in Chan |-> [chan[h] EXCEPT !.receivers = RemoveReceiveCallback(@, f)]]
  BY DEF TimerFired
<1>2. f \notin Co
  BY CoroutinesAssumption
<1>3. ASSUME NEW h \in Chan
      PROVE  /\ chan'[h].senders = chan[h].senders
             /\ chan'[h].receivers = RemoveReceiveCallback(chan[h].receivers, f)
  <2>1. chan[h] \in Channel
    BY DataTypes DEF ChannelTypes
  <2> QED
    BY <1>1, <2>1 DEF Channel
<1>4. ASSUME NEW h \in Chan, NEW d \in Entries(h), d \in Co PROVE d \in Entries(h)'
  <2>1. d \in ToSet(RemoveReceiveCallback(chan[h].receivers, f))
    BY <1>2, <1>4, RemovedOther, DataTypes DEF Entries
  <2> QED
    BY <1>3, <2>1 DEF Entries
<1>5. Stay(W)
  BY <1>3, <1>4 DEF Stay, Offers
<1>6. Enlisted'
  BY <1>1, <1>5, WakingEnlisted DEF Rounds
<1>7. RoundStuck'
  BY <1>1, StartsRoundStuck DEF Rounds
<1> QED
  BY <1>6, <1>7

-----------------------------------------------------------------------------
(* Whoever looks at a timer has made it, or got it from who did.            *)

\* Timers are not unmade.
Lasting == \A f \in Fut : future[f] # "none" => future'[f] # "none"

LEMMA SameLasting ==
    ASSUME UNCHANGED future
    PROVE  Lasting
BY DEF Lasting

LEMMA CancelsLasting ==
    ASSUME NEW x, Cancels(x)
    PROVE  Lasting
BY DEF Cancels, Lasting

LEMMA StepLasting ==
    ASSUME Typed, NEW c \in Co, NEW o, Step(c, o)
    PROVE  Lasting
<1>1. CASE Cancel(c, o)
  BY <1>1, CancelsLasting DEF Cancel
<1>2. CASE ScheduleTimer(c, o)
  <2>1. future \in [Fut -> {"none", "pending", "fired", "canceled"}]
    BY DataTypes DEF LocalTypes
  <2> QED
    BY <1>2, <2>1 DEF ScheduleTimer, Lasting
<1>3. CASE UNCHANGED future
  BY <1>3, SameLasting
<1>4. Send(c, o) \/ Receive(c, o) \/ CloseChan(c, o) => UNCHANGED future
  BY DEF Send, Receive, CloseChan
<1>5. Answered(c, o) \/ SelectYields(c, o) \/ SelectDefault(c, o) \/ Get(c, o) \/ Go(c, o)
        => UNCHANGED future
  BY DEF Answered, SelectYields, SelectDefault, Get, Go, data
<1>6. GroupGo(c, o) \/ Add(c, o) \/ Done(c, o) \/ Wait(c, o) => UNCHANGED future
  BY DEF GroupGo, Add, Done, Wait
<1>7. WithCancel(c, o) \/ Disconnect(c, o) \/ SignalChannel(c, o) => UNCHANGED future
  BY DEF WithCancel, Disconnect, SignalChannel
<1> QED
  BY <1>1, <1>2, <1>3, <1>4, <1>5, <1>6, <1>7 DEF Step

LEMMA CallTimers ==
    ASSUME TimersMade, NEW c \in Co, NEW o, Calls(c, o), NEW f \in Fut, Looks(o, "get", f)
    PROVE  future[f] # "none"
<1>1. CASE co[c].op = NoOp
  <2>1. Usable(o)
    BY <1>1 DEF Calls
  <2> QED
    BY <2>1 DEF Usable, Looks, Holds
<1>2. CASE co[c].op # NoOp
  <2>1. o = co[c].op
    BY <1>2, Zenon DEF Calls
  <2> QED
    BY <1>2, <2>1 DEF TimersMade
<1> QED
  BY <1>1, <1>2

LEMMA TimersKept ==
    ASSUME TimersMade, Lasting,
           \A d \in Co : \/ co'[d].op \in {NoOp, co[d].op}
                         \/ \E o : Calls(d, o) /\ co'[d].op = o
    PROVE  TimersMade'
<1> SUFFICES ASSUME NEW d \in Co, NEW f \in Fut, co'[d].op # NoOp, Looks(co'[d].op, "get", f)
             PROVE  future'[f] # "none"
  BY DEF TimersMade, Looks
<1>1. CASE co'[d].op = co[d].op
  BY <1>1 DEF TimersMade, Lasting
<1>2. CASE \E o : Calls(d, o) /\ co'[d].op = o
  BY <1>2, CallTimers DEF Lasting
<1> QED
  BY <1>1, <1>2

\* Who returns has no call any more, the others keep theirs.
LEMMA ReturnsCalls ==
    ASSUME Typed, NEW c \in Co, NEW W, NEW marks, NEW enables, Returns(c, W, marks, enables),
           NEW d \in Co
    PROVE  co'[d].op \in {NoOp, co[d].op}
<1>1. /\ d = c => co'[d].op = NoOp
      /\ d # c => co'[d].op = co[d].op
  BY ReturnsEffect
<1> QED
  BY <1>1

LEMMA StepTimers ==
    ASSUME Typed, TimersMade, NEW c \in Co, NEW o, Step(c, o)
    PROVE  TimersMade'
<1>1. Calls(c, o) /\ co \in [Co -> CoState] /\ \A d \in Co : co[d] \in CoState
  <2>1. Calls(c, o)
    BY StepForms
  <2>2. co \in [Co -> CoState]
    BY ControlTypes DEF Control
  <2> QED
    BY <2>1, <2>2
<1>2. ASSUME NEW d \in Co
      PROVE  \/ co'[d].op \in {NoOp, co[d].op}
             \/ \E p : Calls(d, p) /\ co'[d].op = p
  <2>1. CASE \E W, marks, enables : Returns(c, W, marks, enables)
    <3>1. PICK W, marks, enables : Returns(c, W, marks, enables)
      BY <2>1
    <3> QED
      BY <3>1, ReturnsCalls
  <2>2. CASE Yields(c, o, TRUE) \/ Yields(c, o, FALSE)
    <3>1. co'[c].op = o /\ (d # c => co'[d] = co[d])
      BY <2>2, YieldsEffect
    <3>2. CASE d = c
      BY <1>1, <3>1, <3>2
    <3>3. CASE d # c
      BY <3>1, <3>3
    <3> QED
      BY <3>2, <3>3
  <2>3. CASE o.kind \in {"go", "goGroup"} /\ \E g : Spawns(c, o.co, g)
    <3>1. PICK g : Spawns(c, o.co, g)
      BY <2>3
    <3>2. co' = [co EXCEPT ![c].left = @ - 1, ![o.co] = NewCo(g)]
      BY <3>1 DEF Spawns
    <3>3. NewCo(g).op = NoOp
      BY DEF NewCo
    <3>4. CASE d = o.co
      BY <1>1, <3>2, <3>3, <3>4
    <3>5. CASE d # o.co /\ d = c
      <4>1. co'[d] = [co[d] EXCEPT !.left = @ - 1]
        BY <1>1, <3>2, <3>5
      <4> QED
        BY <1>1, <4>1 DEF CoState
    <3>6. CASE d # o.co /\ d # c
      BY <1>1, <3>2, <3>6
    <3> QED
      BY <3>4, <3>5, <3>6
  <2>4. CASE Panics(c)
    <3>1. co' = [co EXCEPT ![c].life = "finished", ![c].op = NoOp]
      BY <2>4 DEF Panics
    <3>2. CASE d = c
      <4>1. co'[d] = [co[d] EXCEPT !.life = "finished", !.op = NoOp]
        BY <1>1, <3>1, <3>2
      <4> QED
        BY <1>1, <4>1 DEF CoState
    <3>3. CASE d # c
      BY <1>1, <3>1, <3>3
    <3> QED
      BY <3>2, <3>3
  <2> QED
    BY <2>1, <2>2, <2>3, <2>4, StepForms
<1> QED
  BY <1>2, StepLasting, TimersKept

\* No event and no end of a coroutine changes a call.
LEMMA OtherTimers ==
    ASSUME Typed, TimersMade,
           \/ \E c \in Co, err \in BOOLEAN : Finish(c, err)
           \/ \E s \in Signals : ReceiveSignal(s)
           \/ \E f \in Fut : TimerFired(f)
           \/ WorkflowCanceled
           \/ UNCHANGED vars
    PROVE  TimersMade'
<1>1. Lasting
  <2>1. ASSUME NEW c \in Co, NEW err \in BOOLEAN, Finish(c, err) PROVE Lasting
    BY <2>1, CancelsLasting, SameLasting DEF Finish
  <2>2. ASSUME NEW f \in Fut, TimerFired(f) PROVE Lasting
    <3>1. future \in [Fut -> {"none", "pending", "fired", "canceled"}]
      BY DataTypes DEF LocalTypes
    <3> QED
      BY <2>2, <3>1 DEF TimerFired, Lasting
  <2>3. WorkflowCanceled => Lasting
    BY CancelsLasting DEF WorkflowCanceled
  <2>4. (\E s \in Signals : ReceiveSignal(s)) \/ UNCHANGED vars => Lasting
    BY SameLasting DEF ReceiveSignal, vars
  <2> QED
    BY <2>1, <2>2, <2>3, <2>4
<1>2. ASSUME NEW d \in Co PROVE co'[d].op = co[d].op
  <2>1. co \in [Co -> CoState] /\ co[d] \in CoState
    BY ControlTypes DEF Control
  <2>2. \/ co'[d] = co[d]
        \/ co'[d] = [co[d] EXCEPT !.woken = TRUE]
        \/ co'[d] = [co[d] EXCEPT !.life = "finished"]
    <3>1. ASSUME NEW s \in Signals, ReceiveSignal(s)
          PROVE  co'[d] = co[d] \/ co'[d] = [co[d] EXCEPT !.woken = TRUE]
      <4>1. UNCHANGED co \/ co' = [co EXCEPT ![Head(chan[s].receivers)].woken = TRUE]
        BY <3>1 DEF ReceiveSignal
      <4> QED
        BY <2>1, <4>1
    <3>2. ASSUME NEW c \in Co, NEW err \in BOOLEAN, Finish(c, err)
          PROVE  \/ co'[d] = co[d]
                 \/ co'[d] = [co[d] EXCEPT !.woken = TRUE]
                 \/ co'[d] = [co[d] EXCEPT !.life = "finished"]
      BY <3>2 DEF Finish
    <3> QED
      BY <3>1, <3>2 DEF TimerFired, WorkflowCanceled, vars
  <2> QED
    BY <2>1, <2>2 DEF CoState
<1> QED
  BY <1>1, <1>2, TimersKept

-----------------------------------------------------------------------------
(* The end of a round.                                                      *)

LEMMA SameRounds ==
    ASSUME Rounds, UNCHANGED vars
    PROVE  Enlisted' /\ RoundStuck'
<1>1. /\ UNCHANGED <<coroutines, turn, allBlocked, progress, quiet, silent>>
      /\ UNCHANGED co /\ UNCHANGED chan /\ UNCHANGED future /\ UNCHANGED group
  BY DEF vars
<1>2. Enlisted'
  BY <1>1 DEF Rounds, Enlisted, Entries, Offers
<1>3. \A d \in Co : Stuck(d)' = Stuck(d)
  <2>1. \A p : ReadyCases(p)' = ReadyCases(p)
    BY <1>1 DEF ReadyCases, CaseReady, CanReceive, CanSend, HasCapacity, Ready
  <2> QED
    BY <1>1, <2>1 DEF Stuck, CanReceive, CanSend, HasCapacity, Ready
<1>4. RoundStuck'
  BY <1>1, <1>3 DEF Rounds, RoundStuck, Idle
<1> QED
  BY <1>2, <1>4

LEMMA StepRounds ==
    ASSUME Typed, Linked, Grouped, Rounds, NEW c \in Co, NEW o, Step(c, o), ~over'
    PROVE  Enlisted' /\ RoundStuck'
BY SendRounds, ReceiveRounds, AnsweredRounds, CloseChanRounds, SelectYieldsRounds,
   SelectDefaultRounds, GetRounds, GoRounds, GroupGoRounds, AddRounds, DoneRounds,
   WaitRounds, WithCancelRounds, DisconnectRounds, CancelRounds, ScheduleTimerRounds,
   SignalChannelRounds
DEF Step

LEMMA NextRounds ==
    ASSUME Typed, Linked, Grouped, Rounds, [Next]_vars, ~over'
    PROVE  Rounds'
<1>1. TimersMade
  BY DEF Rounds
<1>2. CASE \E c \in Co, o \in AllCalls : Step(c, o)
  BY <1>1, <1>2, StepRounds, StepTimers DEF Rounds
<1>3. CASE \E c \in Co, err \in BOOLEAN : Finish(c, err)
  BY <1>1, <1>3, FinishRounds, OtherTimers DEF Rounds
<1>4. CASE \E s \in Signals : ReceiveSignal(s)
  BY <1>1, <1>4, ReceiveSignalRounds, OtherTimers DEF Rounds
<1>5. CASE \E f \in Fut : TimerFired(f)
  BY <1>1, <1>5, TimerFiredRounds, OtherTimers DEF Rounds
<1>6. CASE WorkflowCanceled
  BY <1>1, <1>6, WorkflowCanceledRounds, OtherTimers DEF Rounds
<1>7. CASE Exit
  BY <1>7 DEF Exit
<1>8. CASE UNCHANGED vars
  BY <1>1, <1>8, SameRounds, OtherTimers DEF Rounds
<1> QED
  BY <1>2, <1>3, <1>4, <1>5, <1>6, <1>7, <1>8 DEF Next

LEMMA InitRounds == Init => Rounds
<1> SUFFICES ASSUME Init PROVE Rounds
  OBVIOUS
<1>1. NoOp.kind = "none"
  BY DEF NoOp
<1>2. \A c \in Co : co[c].op = NoOp /\ ~co[c].waits /\ ~co[c].woken
  BY DEF Init, NewCo, Unborn
<1>3. Enlisted /\ TimersMade
  BY <1>1, <1>2 DEF Enlisted, TimersMade
<1>4. RoundStuck
  BY DEF Init, RoundStuck, Idle
<1> QED
  BY <1>3, <1>4 DEF Rounds

Regular == ~over => Linked /\ Grouped /\ Rounds

LEMMA NextRegular ==
    Typed /\ Reaching /\ Regular /\ [Next]_vars => Regular'
<1> SUFFICES ASSUME Typed, Reaching, Regular, [Next]_vars, ~over'
             PROVE  Linked' /\ Grouped' /\ Rounds'
  BY DEF Regular
<1>1. over \in BOOLEAN
  BY ControlTypes DEF Control
<1>2. ~over
  BY <1>1, OverStays
<1> QED
  BY <1>2, NextLinked, NextRounds DEF Regular

(***************************************************************************)
(* When Execute returns, no coroutine can go on, as far as every turn of   *)
(* the last round that enabled another one also marked progress: whoever   *)
(* yielded is in the list of the channel it waits for, was woken, or polls *)
(* (channel.go, selector.go), and in a round without progress nothing has  *)
(* happened since its turn (scheduler.go:21).                              *)
(***************************************************************************)
THEOREM RoundsEndBlocked == Spec => []RoundEndsBlocked
<1> DEFINE IInv == Typed /\ Reaching /\ Regular
<1>1. Init => IInv
  BY InitTyped, InitReaching, InitLinked, InitRounds DEF Regular
<1>2. IInv /\ [Next]_vars => IInv'
  BY NextTyped, NextReaching, NextRegular
<1>3. IInv => RoundEndsBlocked
  <2> SUFFICES ASSUME IInv, Idle, ~over, ~silent, NEW i \in DOMAIN coroutines
               PROVE  Stuck(coroutines[i])
    BY DEF RoundEndsBlocked, Blocked
  <2>1. coroutines[i] \in Co
    BY ControlTypes DEF Control, Scheduled
  <2>2. RoundStuck
    BY DEF Regular, Rounds
  <2> QED
    BY <2>1, <2>2 DEF RoundStuck
<1> QED
  BY <1>1, <1>2, <1>3, PTL DEF Spec

-----------------------------------------------------------------------------
(* Channels are queues.  Every call sends one value, and once: a Send that  *)
(* waits is in the list of senders and adds nothing when it is run again.   *)
(* With no Send on buffered channels nobody waits behind a buffer.          *)

Queue(h) == chan[h].buffer \o chan[h].senders
Whole(h) == delivered[h] \o Queue(h)

\* Value v is that of a call, or signal, made already; a pending one sends to h.
Spent(v, h) ==
    \/ /\ v[1] \in Co
       /\ \/ v[2] > co[v[1]].left
          \/ v[2] = co[v[1]].left /\ co[v[1]].op.kind = "send" /\ co[v[1]].op.on = h
    \/ v[1] = Outside /\ v[2] < signals

SentOnce ==
    \A h \in Chan : IsInjective(Whole(h)) /\ \A v \in ToSet(Whole(h)) : Spent(v, h)

\* Signals that came before their channel was opened.
Early ==
    \A s \in Signals : s \notin opened =>
      /\ ~chan[s].closed /\ delivered[s] = <<>> /\ chan[s].senders = <<>>
      /\ IsInjective(pending[s])
      /\ \A v \in ToSet(pending[s]) : v[1] = Outside /\ v[2] < signals

NoneBehind == \A h \in Chan : Size[h] > 0 => chan[h].senders = <<>>

Values == SentOnce /\ Early /\ NoneBehind

Callers ==
    \A c \in Co : /\ co[c].life = "none" => co[c].left = MaxCalls
                  /\ co[c].op.kind = "send" => co[c].waits

(* Sequences.                                                              *)

LEMMA AppendOnce ==
    ASSUME NEW S, NEW s \in Seq(S), NEW e \in S, IsInjective(s), e \notin ToSet(s)
    PROVE  IsInjective(Append(s, e))
<1> DEFINE t == Append(s, e)
<1>1. /\ Len(s) \in Nat /\ DOMAIN s = 1 .. Len(s) /\ DOMAIN t = 1 .. Len(s) + 1
      /\ t[Len(s) + 1] = e /\ \A i \in 1 .. Len(s) : t[i] = s[i]
  BY AppendProperties, LenProperties
<1>2. \A i \in 1 .. Len(s) : t[i] # e
  BY <1>1 DEF ToSet
<1>3. \A i, j \in 1 .. Len(s) : s[i] = s[j] => i = j
  BY <1>1 DEF IsInjective
<1> HIDE DEF t
<1>4. \A i, j \in DOMAIN t : t[i] = t[j] => i = j
  BY <1>1, <1>2, <1>3
<1> QED
  BY <1>4 DEF IsInjective, t

LEMMA ReverseOnce ==
    ASSUME NEW S, NEW s \in Seq(S), IsInjective(s)
    PROVE  IsInjective(Reverse(s)) /\ ToSet(Reverse(s)) \subseteq ToSet(s)
<1> DEFINE r == Reverse(s)
<1>1. /\ Len(s) \in Nat /\ DOMAIN s = 1 .. Len(s) /\ DOMAIN r = 1 .. Len(s)
      /\ \A i \in 1 .. Len(s) : r[i] = s[(Len(s) - i) + 1]
  BY LenProperties DEF Reverse
<1> HIDE DEF r
<1>2. \A i, j \in DOMAIN s : s[i] = s[j] => i = j
  BY DEF IsInjective
<1>3. \A i, j \in DOMAIN r : r[i] = r[j] => i = j
  BY <1>1, <1>2
<1>4. \A i \in DOMAIN r : \E j \in DOMAIN s : r[i] = s[j]
  BY <1>1
<1> QED
  BY <1>3, <1>4 DEF IsInjective, ToSet, r

LEMMA LongerPrefix ==
    ASSUME NEW S, NEW s \in Seq(S), NEW t \in Seq(S), t # <<>>
    PROVE  IsStrictPrefix(s, s \o t)
<1>1. /\ s \o t \in Seq(S) /\ Len(s \o t) = Len(s) + Len(t)
      /\ Len(s) \in Nat /\ Len(t) \in Nat
  BY ConcatProperties, LenProperties
<1>2. SubSeq(s, 1, Len(s)) = SubSeq(s \o t, 1, Len(s))
  <2>1. CASE Len(s) = 0
    BY <1>1, <2>1, SubSeqEmpty
  <2>2. CASE Len(s) # 0
    <3>1. 1 \in 1 .. Len(s) /\ Len(s) \in 1 .. Len(s)
      BY <1>1, <2>2
    <3> QED
      BY <3>1, SubSeqOfConcat1
  <2> QED
    BY <2>1, <2>2
<1>3. s # s \o t
  BY ConcatEqualIffEmpty
<1>4. Len(s) <= Len(s \o t)
  BY <1>1
<1> QED
  BY <1>2, <1>3, <1>4 DEF IsStrictPrefix, IsPrefix

LEMMA AppendPrefix ==
    ASSUME NEW S, NEW s \in Seq(S), NEW e \in S
    PROVE  IsStrictPrefix(s, Append(s, e))
<1>1. <<e>> \in Seq(S) /\ <<e>> # <<>>
  OBVIOUS
<1> QED
  BY <1>1, LongerPrefix, AppendIsConcat

\* The last of three sequences grows, or one before empty ones.
LEMMA AppendLast ==
    ASSUME NEW S, NEW d \in Seq(S), NEW s \in Seq(S), NEW e \in S
    PROVE  /\ d \o Append(s, e) = Append(d \o s, e)
           /\ s = <<>> => Append(d, e) \o s = Append(d \o s, e)
<1>1. /\ <<e>> \in Seq(S) /\ d \o s \in Seq(S) /\ Append(d, e) \in Seq(S)
      /\ Append(s, e) = s \o <<e>> /\ Append(d \o s, e) = (d \o s) \o <<e>>
  <2>1. <<e>> \in Seq(S)
    OBVIOUS
  <2>2. d \o s \in Seq(S)
    BY ConcatProperties
  <2> QED
    BY <2>1, <2>2, AppendIsConcat, AppendProperties
<1>2. d \o (s \o <<e>>) = (d \o s) \o <<e>>
  BY <1>1, ConcatAssociative
<1>3. s = <<>> => Append(d, e) \o s = Append(d, e) /\ d \o s = d
  BY <1>1, ConcatEmptySeq
<1> QED
  BY <1>1, <1>2, <1>3

\* The first of the second sequence moves to the end of the first.
LEMMA MoveFirst ==
    ASSUME NEW S, NEW d \in Seq(S), NEW q \in Seq(S), q # <<>>
    PROVE  Append(d, Head(q)) \o Tail(q) = d \o q
<1>1. Head(q) \in S /\ Tail(q) \in Seq(S) /\ <<Head(q)>> \in Seq(S)
  BY HeadTailProperties
<1>2. Append(d, Head(q)) = d \o <<Head(q)>>
  BY <1>1, AppendIsConcat
<1>3. (d \o <<Head(q)>>) \o Tail(q) = d \o (<<Head(q)>> \o Tail(q))
  BY <1>1, ConcatAssociative
<1>4. <<Head(q)>> \o Tail(q) = q
  <2>1. /\ Len(q) \in Nat \ {0} /\ DOMAIN q = 1 .. Len(q) /\ Head(q) = q[1]
        /\ Len(Tail(q)) = Len(q) - 1 /\ Len(<<Head(q)>>) = 1 /\ <<Head(q)>>[1] = Head(q)
        /\ \A i \in 1 .. Len(Tail(q)) : Tail(q)[i] = q[i + 1]
    BY HeadTailProperties, LenProperties, EmptySeq
  <2>2. /\ <<Head(q)>> \o Tail(q) \in Seq(S) /\ Len(<<Head(q)>> \o Tail(q)) = Len(q)
        /\ \A i \in 1 .. Len(q) : (<<Head(q)>> \o Tail(q))[i] =
             IF i <= 1 THEN <<Head(q)>>[i] ELSE Tail(q)[i - 1]
    BY <1>1, <2>1, ConcatProperties
  <2>3. \A i \in 1 .. Len(q) : (<<Head(q)>> \o Tail(q))[i] = q[i]
    <3> SUFFICES ASSUME NEW i \in 1 .. Len(q) PROVE (<<Head(q)>> \o Tail(q))[i] = q[i]
      OBVIOUS
    <3>1. CASE i = 1
      BY <2>1, <2>2, <3>1
    <3>2. CASE i # 1
      <4>1. i - 1 \in 1 .. Len(Tail(q)) /\ (i - 1) + 1 = i /\ ~(i <= 1)
        BY <2>1, <3>2
      <4> QED
        BY <2>1, <2>2, <4>1
    <3> QED
      BY <3>1, <3>2
  <2> QED
    BY <2>1, <2>2, <2>3, SeqEqual
<1> QED
  BY <1>2, <1>3, <1>4

\* The first of two sequences one after the other.
LEMMA FirstOfTwo ==
    ASSUME NEW S, NEW b \in Seq(S), NEW s \in Seq(S), b # <<>>
    PROVE  /\ b \o s # <<>> /\ Head(b \o s) = Head(b) /\ Tail(b \o s) = Tail(b) \o s
<1>1. /\ b \o s \in Seq(S) /\ b \o s # <<>> /\ Tail(b) \in Seq(S) /\ Head(b) \in S
      /\ <<Head(b)>> \in Seq(S)
  BY ConcatProperties, ConcatEqualIffEmpty, HeadTailProperties
<1>2. b \o s = <<Head(b)>> \o (Tail(b) \o s)
  <2>1. <<>> \in Seq(S) /\ Append(<<>>, Head(b)) = <<Head(b)>> /\ <<>> \o b = b
    BY ConcatEmptySeq
  <2>2. <<Head(b)>> \o Tail(b) = b
    BY <2>1, MoveFirst
  <2> QED
    BY <1>1, <2>2, ConcatAssociative
<1>3. Head(b \o s) = Head(b)
  <2>1. /\ Head(b) = b[1] /\ Head(b \o s) = (b \o s)[1] /\ Len(b) \in Nat \ {0}
        /\ Len(s) \in Nat
    BY <1>1, EmptySeq, LenProperties
  <2> QED
    BY <2>1, ConcatProperties
<1>4. <<Head(b)>> \o Tail(b \o s) = b \o s
  <2>1. <<>> \in Seq(S) /\ Append(<<>>, Head(b)) = <<Head(b)>> /\ <<>> \o (b \o s) = b \o s
    BY <1>1, ConcatEmptySeq
  <2> QED
    BY <1>1, <1>3, <2>1, MoveFirst
<1>5. Tail(b \o s) \in Seq(S) /\ Tail(b) \o s \in Seq(S)
  BY <1>1, HeadTailProperties, ConcatProperties
<1> QED
  BY <1>1, <1>2, <1>3, <1>4, <1>5, ConcatSimplifications

(* What a step does to the channels: nothing but close some, hand a value  *)
(* in, take one out, open the channel of a signal, or keep a signal.       *)

SameValues(g) ==
    /\ chan'[g].buffer = chan[g].buffer /\ chan'[g].senders = chan[g].senders
    /\ delivered'[g] = delivered[g]

Keeps ==
    /\ UNCHANGED <<opened, pending, delivered>>
    /\ \A g \in Chan : /\ SameValues(g)
                       /\ chan[g].closed => chan'[g].closed
                       /\ g \in Signals \ opened => chan'[g].closed = chan[g].closed

Alike(h) ==
    /\ UNCHANGED <<opened, pending>> /\ (h \in Signals => h \in opened)
    /\ Size[h] > 0 /\ chan[h].senders = <<>> => chan'[h].senders = <<>>
    /\ delivered' \in [Chan -> Seq(Value)]
    /\ \A g \in Chan : chan'[g].closed = chan[g].closed /\ (g # h => SameValues(g))

Accepts(h, v) ==
    /\ Alike(h) /\ ~chan[h].closed
    /\ \/ Queue(h)' = Append(Queue(h), v) /\ delivered'[h] = delivered[h]
       \/ /\ Queue(h) = <<>> /\ Queue(h)' = <<>>
          /\ delivered'[h] = Append(delivered[h], v)

Gives(h) ==
    /\ Alike(h) /\ Queue(h) # <<>>
    /\ Queue(h)' = Tail(Queue(h)) /\ delivered'[h] = Append(delivered[h], Head(Queue(h)))

Opens(s) ==
    /\ s \in Signals /\ opened' = opened \cup {s} /\ UNCHANGED delivered
    /\ pending' = [pending EXCEPT ![s] = <<>>]
    /\ \A g \in Chan : /\ chan'[g].closed = chan[g].closed
                       /\ chan'[g].senders = chan[g].senders
                       /\ g # s => chan'[g].buffer = chan[g].buffer
    /\ chan'[s].buffer = chan[s].buffer \o Reverse(pending[s])

Stores(s, v) ==
    /\ s \in Signals \ opened /\ pending' = [pending EXCEPT ![s] = Append(@, v)]
    /\ UNCHANGED <<chan, delivered, opened>>

LEMMA QueueTypes ==
    ASSUME Typed
    PROVE  \A h \in Chan :
             /\ chan[h].buffer \in Seq(Value) /\ chan[h].senders \in Seq(Value)
             /\ delivered[h] \in Seq(Value)
             /\ Queue(h) \in Seq(Value) /\ Whole(h) \in Seq(Value)
             /\ ToSet(Whole(h)) \subseteq Value
<1> SUFFICES ASSUME NEW h \in Chan
             PROVE  /\ chan[h].buffer \in Seq(Value) /\ chan[h].senders \in Seq(Value)
                    /\ delivered[h] \in Seq(Value)
                    /\ Queue(h) \in Seq(Value) /\ Whole(h) \in Seq(Value)
                    /\ ToSet(Whole(h)) \subseteq Value
  OBVIOUS
<1>1. /\ chan[h].buffer \in Seq(Value) /\ chan[h].senders \in Seq(Value)
      /\ delivered[h] \in Seq(Value)
  BY DataTypes DEF ChannelTypes
<1>2. Queue(h) \in Seq(Value)
  BY <1>1, ConcatProperties DEF Queue
<1>3. Whole(h) \in Seq(Value)
  BY <1>1, <1>2, ConcatProperties DEF Whole
<1>4. ToSet(Whole(h)) \subseteq Value
  BY <1>3, LenProperties, ElementOfSeq DEF ToSet
<1> QED
  BY <1>1, <1>2, <1>3, <1>4

LEMMA SameWhole ==
    ASSUME NEW g, SameValues(g)
    PROVE  Queue(g)' = Queue(g) /\ Whole(g)' = Whole(g)
BY DEF SameValues, Queue, Whole

LEMMA AcceptsWhole ==
    ASSUME Typed, NEW h \in Chan, NEW v \in Value, Accepts(h, v)
    PROVE  Whole(h)' = Append(Whole(h), v)
<1>1. delivered[h] \in Seq(Value) /\ Queue(h) \in Seq(Value)
  BY QueueTypes
<1>2. Whole(h) = delivered[h] \o Queue(h) /\ Whole(h)' = delivered'[h] \o Queue(h)'
  BY DEF Whole
<1>3. CASE Queue(h)' = Append(Queue(h), v) /\ delivered'[h] = delivered[h]
  <2>1. Whole(h)' = delivered[h] \o Append(Queue(h), v)
    BY <1>2, <1>3
  <2>2. \A d, q \in Seq(Value) : d \o Append(q, v) = Append(d \o q, v)
    <3> SUFFICES ASSUME NEW d \in Seq(Value), NEW q \in Seq(Value)
                 PROVE  d \o Append(q, v) = Append(d \o q, v)
      OBVIOUS
    <3> QED
      BY AppendLast
  <2> QED
    BY <1>1, <1>2, <2>1, <2>2, Zenon
<1>4. CASE Queue(h) = <<>> /\ Queue(h)' = <<>> /\ delivered'[h] = Append(delivered[h], v)
  BY <1>1, <1>2, <1>4, AppendLast
<1> QED
  BY <1>3, <1>4 DEF Accepts

LEMMA GivesWhole ==
    ASSUME Typed, NEW h \in Chan, Gives(h)
    PROVE  Whole(h)' = Whole(h)
<1>1. delivered[h] \in Seq(Value) /\ Queue(h) \in Seq(Value)
  BY QueueTypes
<1>2. Whole(h) = delivered[h] \o Queue(h) /\ Whole(h)' = delivered'[h] \o Queue(h)'
  BY DEF Whole
<1> QED
  BY <1>1, <1>2, MoveFirst DEF Gives

(* Each of these is a step of the queues.                                  *)

LEMMA KeepsFifo ==
    ASSUME Keeps
    PROVE  Fifo!Close
<1>1. \A g \in Chan : Queue(g)' = Queue(g) /\ (chan[g].closed => chan'[g].closed)
  BY SameWhole DEF Keeps
<1>2. [g \in Chan |-> chan'[g].buffer \o chan'[g].senders]
        = [g \in Chan |-> chan[g].buffer \o chan[g].senders]
  BY <1>1 DEF Queue
<1> QED
  BY <1>1, <1>2 DEF Fifo!Close, Keeps

LEMMA AlikeOnly ==
    ASSUME NEW h \in Chan, Alike(h)
    PROVE  Fifo!Only(h) /\ {g \in Chan : chan'[g].closed} = {g \in Chan : chan[g].closed}
<1>1. \A g \in Chan \ {h} : Queue(g)' = Queue(g) /\ delivered'[g] = delivered[g]
  BY SameWhole DEF Alike, SameValues
<1> QED
  BY <1>1 DEF Fifo!Only, Queue, Alike

LEMMA PrefixSame ==
    ASSUME NEW s, NEW t
    PROVE  Fifo!IsStrictPrefix(s, t) = IsStrictPrefix(s, t)
BY DEF Fifo!IsStrictPrefix, IsStrictPrefix, Fifo!IsPrefix, IsPrefix

LEMMA AcceptsFifo ==
    ASSUME Typed, SentOnce, NEW h \in Chan, NEW v \in Value, Accepts(h, v),
           v \notin ToSet(Whole(h))
    PROVE  Fifo!Offer(h) \/ Fifo!Pass(h)
<1>1. /\ delivered[h] \in Seq(Value) /\ Queue(h) \in Seq(Value) /\ Whole(h) \in Seq(Value)
      /\ ToSet(Whole(h)) \subseteq Value
  BY QueueTypes
<1>2. Whole(h)' = Append(Whole(h), v)
  BY AcceptsWhole
<1>3. IsInjective(Whole(h)') /\ ToSet(Whole(h)') \subseteq Value
  BY <1>1, <1>2, AppendOnce, AppendSet DEF SentOnce
<1>4. Fifo!Once(h)
  BY <1>3 DEF Fifo!Once, Whole, Queue, Fifo!IsInjective, IsInjective, Fifo!ToSet, ToSet
<1>5. /\ Fifo!Only(h) /\ h \notin {g \in Chan : chan[g].closed}
      /\ {g \in Chan : chan'[g].closed} = {g \in Chan : chan[g].closed}
  BY AlikeOnly DEF Accepts
<1>6. CASE Queue(h)' = Append(Queue(h), v) /\ delivered'[h] = delivered[h]
  <2>1. IsStrictPrefix(Queue(h), Queue(h)')
    BY <1>1, <1>6, AppendPrefix
  <2> QED
    BY <1>4, <1>5, <1>6, <2>1, PrefixSame DEF Fifo!Offer, Queue
<1>7. CASE Queue(h) = <<>> /\ Queue(h)' = <<>> /\ delivered'[h] = Append(delivered[h], v)
  <2>1. /\ IsStrictPrefix(delivered[h], delivered'[h])
        /\ Len(delivered'[h]) = Len(delivered[h]) + 1
    BY <1>1, <1>7, AppendPrefix, AppendProperties
  <2> QED
    BY <1>4, <1>5, <1>7, <2>1, PrefixSame DEF Fifo!Pass, Queue
<1> QED
  BY <1>6, <1>7 DEF Accepts

LEMMA GivesFifo ==
    ASSUME NEW h \in Chan, Gives(h)
    PROVE  Fifo!Deliver(h)
BY AlikeOnly DEF Gives, Fifo!Deliver, Queue

\* The signals that came early are handed in together.
LEMMA OpensWhole ==
    ASSUME Typed, Values, NEW s \in Signals, Opens(s)
    PROVE  \/ s \in opened /\ Keeps
           \/ /\ s \notin opened /\ ~chan[s].closed
              /\ Queue(s) = <<>> /\ Queue(s)' = Reverse(pending[s])
              /\ Whole(s)' = Reverse(pending[s])
<1>1. /\ s \in Chan /\ pending[s] \in Seq(Value) /\ Reverse(pending[s]) \in Seq(Value)
      /\ chan[s].buffer \in Seq(Value) /\ chan[s].senders \in Seq(Value)
      /\ (s \notin opened => chan[s].buffer = <<>> /\ Len(pending[s]) <= Size[s])
      /\ (s \in opened => pending[s] = <<>>) /\ pending \in [Signals -> Seq(Value)]
      /\ opened \subseteq Signals
  BY DataTypes, Reversed, CoroutinesAssumption DEF ChannelTypes, SignalsKept
<1>2. CASE s \in opened
  <2>1. Reverse(pending[s]) = <<>>
    BY <1>1, <1>2, Reversed, EmptySeq
  <2>2. chan'[s].buffer = chan[s].buffer
    BY <1>1, <2>1, ConcatEmptySeq DEF Opens
  <2>3. pending' = pending /\ opened' = opened
    BY <1>1, <1>2 DEF Opens
  <2> QED
    BY <1>2, <2>2, <2>3 DEF Opens, Keeps, SameValues
<1>3. CASE s \notin opened
  <2>1. ~chan[s].closed /\ delivered[s] = <<>> /\ chan[s].senders = <<>>
    BY <1>3 DEF Values, Early
  <2>2. Queue(s) = <<>> /\ Queue(s)' = Reverse(pending[s]) /\ Whole(s)' = Reverse(pending[s])
    BY <1>1, <1>3, <2>1, ConcatEmptySeq DEF Opens, Queue, Whole
  <2> QED
    BY <1>3, <2>1, <2>2
<1> QED
  BY <1>2, <1>3

LEMMA OpensFifo ==
    ASSUME Typed, Values, NEW s \in Signals, Opens(s)
    PROVE  Fifo!Close \/ Fifo!Offer(s)
<1>1. /\ s \in Chan /\ pending[s] \in Seq(Value)
      /\ Reverse(pending[s]) \in Seq(Value)
      /\ delivered[s] \in Seq(Value) /\ UNCHANGED delivered
  BY DataTypes, Reversed, CoroutinesAssumption DEF ChannelTypes, Opens
<1>2. \A g \in Chan : /\ chan'[g].closed = chan[g].closed
                      /\ g # s => Queue(g)' = Queue(g)
  BY DEF Opens, Queue
<1>3. CASE s \in opened /\ Keeps
  BY <1>3, KeepsFifo
<1>4. CASE /\ s \notin opened /\ ~chan[s].closed
           /\ Queue(s) = <<>> /\ Queue(s)' = Reverse(pending[s])
           /\ Whole(s)' = Reverse(pending[s])
  <2>1. CASE Reverse(pending[s]) = <<>>
    <3>1. \A g \in Chan : Queue(g)' = Queue(g)
      BY <1>2, <1>4, <2>1
    <3>2. [g \in Chan |-> chan'[g].buffer \o chan'[g].senders]
            = [g \in Chan |-> chan[g].buffer \o chan[g].senders]
      BY <3>1 DEF Queue
    <3> QED
      BY <1>1, <1>2, <3>2 DEF Fifo!Close
  <2>2. CASE Reverse(pending[s]) # <<>>
    <3>1. IsInjective(Whole(s)') /\ ToSet(Whole(s)') \subseteq Value
      <4>1. IsInjective(pending[s])
        BY <1>4 DEF Values, Early
      <4>2. ToSet(pending[s]) \subseteq Value
        BY <1>1, LenProperties, ElementOfSeq DEF ToSet
      <4>3. /\ IsInjective(Reverse(pending[s]))
            /\ ToSet(Reverse(pending[s])) \subseteq ToSet(pending[s])
        BY <1>1, <4>1, ReverseOnce
      <4> QED
        BY <1>4, <4>2, <4>3
    <3>2. Fifo!Once(s)
      BY <1>1, <3>1 DEF Fifo!Once, Whole, Queue, Fifo!IsInjective, IsInjective, Fifo!ToSet, ToSet
    <3>3. /\ <<>> \o Reverse(pending[s]) = Reverse(pending[s]) /\ <<>> \in Seq(Value)
      BY <1>1, ConcatEmptySeq
    <3>4. IsStrictPrefix(<<>>, <<>> \o Reverse(pending[s]))
      BY <1>1, <2>2, <3>3, LongerPrefix
    <3>5. IsStrictPrefix(Queue(s), Queue(s)')
      BY <1>4, <3>3, <3>4
    <3>6. Fifo!Only(s) /\ {g \in Chan : chan'[g].closed} = {g \in Chan : chan[g].closed}
      BY <1>1, <1>2 DEF Fifo!Only, Queue
    <3>7. s \notin {g \in Chan : chan[g].closed}
      BY <1>4
    <3> QED
      BY <1>1, <3>2, <3>5, <3>6, <3>7, PrefixSame DEF Fifo!Offer, Queue
  <2> QED
    BY <2>1, <2>2
<1> QED
  BY <1>3, <1>4, OpensWhole

LEMMA StoresFifo ==
    ASSUME NEW s, NEW v, Stores(s, v)
    PROVE  Fifo!Close
BY DEF Stores, Fifo!Close

(* And each keeps what is known of the values, when calls are used up and   *)
(* a Send that waits goes on waiting.                                      *)

Wears ==
    /\ signals <= signals'
    /\ \A c \in Co : \/ co'[c].left < co[c].left
                     \/ co'[c].left = co[c].left /\ co[c].op \in {NoOp, co'[c].op}

LEMMA SpentStays ==
    ASSUME Typed, Typed', Wears, NEW v \in Value, NEW h, Spent(v, h)
    PROVE  Spent(v, h)'
<1>1. v[2] \in Nat /\ signals \in Nat /\ signals' \in Nat
  BY CoroutinesAssumption DEF Value, Typed, TypeOK
<1>2. CASE v[1] = Outside /\ v[2] < signals
  BY <1>1, <1>2 DEF Wears, Spent
<1>3. CASE v[1] \in Co /\ v[2] > co[v[1]].left
  <2>1. co[v[1]].left \in Nat /\ co'[v[1]].left \in Nat
    BY <1>3, CoroutinesAssumption DEF Typed, TypeOK, CoState
  <2>2. co'[v[1]].left <= co[v[1]].left
    BY <1>3, <2>1 DEF Wears
  <2> QED
    BY <1>1, <1>3, <2>1, <2>2 DEF Spent
<1>4. CASE /\ v[1] \in Co /\ v[2] = co[v[1]].left
           /\ co[v[1]].op.kind = "send" /\ co[v[1]].op.on = h
  <2>1. co[v[1]].left \in Nat /\ co'[v[1]].left \in Nat
    BY <1>4, CoroutinesAssumption DEF Typed, TypeOK, CoState
  <2>2. co[v[1]].op # NoOp
    BY <1>4 DEF NoOp
  <2>3. \/ co'[v[1]].left < co[v[1]].left
        \/ co'[v[1]].left = co[v[1]].left /\ co[v[1]].op = co'[v[1]].op
    BY <1>4, <2>2 DEF Wears
  <2> QED
    BY <1>1, <1>4, <2>1, <2>3 DEF Spent
<1> QED
  BY <1>2, <1>3, <1>4 DEF Spent

\* Channels whose values stay the same.
LEMMA SentSame ==
    ASSUME Typed, Typed', Wears, SentOnce, NEW g \in Chan,
           \/ SameValues(g)
           \/ Whole(g)' = Whole(g)
    PROVE  IsInjective(Whole(g)') /\ \A v \in ToSet(Whole(g)') : Spent(v, g)'
<1>1. Whole(g)' = Whole(g)
  BY SameWhole
<1>2. \A v \in ToSet(Whole(g)) : v \in Value /\ Spent(v, g)
  BY QueueTypes DEF SentOnce
<1>3. \A v \in ToSet(Whole(g)) : Spent(v, g)'
  BY <1>2, SpentStays
<1> QED
  BY <1>1, <1>3 DEF SentOnce

\* Signals of a channel that nobody has opened.
Arrived(s) ==
    /\ ~chan[s].closed /\ delivered[s] = <<>> /\ chan[s].senders = <<>>
    /\ IsInjective(pending[s])
    /\ \A v \in ToSet(pending[s]) : v[1] = Outside /\ v[2] < signals

LEMMA EarlySame ==
    ASSUME Typed, Typed', Wears, Early, NEW s \in Signals, s \notin opened,
           chan'[s].closed = chan[s].closed, SameValues(s), pending'[s] = pending[s]
    PROVE  Arrived(s)'
<1>1. /\ ~chan[s].closed /\ delivered[s] = <<>> /\ chan[s].senders = <<>>
      /\ IsInjective(pending[s])
      /\ \A v \in ToSet(pending[s]) : v[1] = Outside /\ v[2] < signals
  BY DEF Early
<1>2. pending[s] \in Seq(Value) /\ signals \in Nat /\ signals' \in Nat
  BY DataTypes, CoroutinesAssumption DEF ChannelTypes, Typed, TypeOK
<1>3. \A v \in ToSet(pending[s]) : v[2] \in Nat
  BY <1>2, LenProperties, ElementOfSeq, CoroutinesAssumption DEF ToSet, Value
<1>4. signals <= signals'
  BY DEF Wears
<1>5. \A v \in ToSet(pending[s]) : v[1] = Outside /\ v[2] < signals'
  BY <1>1, <1>2, <1>3, <1>4
<1> QED
  BY <1>1, <1>5 DEF SameValues, Arrived

LEMMA KeepsValues ==
    ASSUME Typed, Typed', Wears, Values, Keeps
    PROVE  Values'
<1>1. SentOnce'
  BY SentSame DEF Values, SentOnce, Keeps
<1>2. Early'
  <2>1. ASSUME NEW s \in Signals, s \notin opened' PROVE Arrived(s)'
    BY <2>1, EarlySame, CoroutinesAssumption DEF Values, Keeps
  <2> QED
    BY <2>1 DEF Early, Arrived
<1>3. NoneBehind'
  BY DEF Values, NoneBehind, Keeps, SameValues
<1> QED
  BY <1>1, <1>2, <1>3 DEF Values

\* One channel takes a value or gives one.
LEMMA AlikeValues ==
    ASSUME Typed, Typed', Wears, Values, NEW h \in Chan, Alike(h),
           IsInjective(Whole(h)'), \A v \in ToSet(Whole(h)') : Spent(v, h)'
    PROVE  Values'
<1>1. SentOnce'
  <2>1. ASSUME NEW g \in Chan
        PROVE  IsInjective(Whole(g)') /\ \A v \in ToSet(Whole(g)') : Spent(v, g)'
    <3>1. CASE g = h
      BY <3>1
    <3>2. CASE g # h
      BY <3>2, SentSame DEF Values, Alike
    <3> QED
      BY <3>1, <3>2
  <2> QED
    BY <2>1 DEF SentOnce
<1>2. Early'
  <2>1. ASSUME NEW s \in Signals, s \notin opened' PROVE Arrived(s)'
    <3>1. s \in Chan /\ s # h /\ s \notin opened
      BY <2>1, CoroutinesAssumption DEF Alike
    <3> QED
      BY <3>1, EarlySame DEF Values, Alike
  <2> QED
    BY <2>1 DEF Early, Arrived
<1>3. NoneBehind'
  <2> SUFFICES ASSUME NEW g \in Chan, Size[g] > 0 PROVE chan'[g].senders = <<>>
    BY DEF NoneBehind
  <2>1. chan[g].senders = <<>>
    BY DEF Values, NoneBehind
  <2> QED
    BY <2>1 DEF Alike, SameValues
<1> QED
  BY <1>1, <1>2, <1>3 DEF Values

LEMMA AcceptsValues ==
    ASSUME Typed, Typed', Wears, Values, NEW h \in Chan, NEW v \in Value, Accepts(h, v),
           v \notin ToSet(Whole(h)), Spent(v, h)'
    PROVE  Values'
<1>1. Whole(h) \in Seq(Value) /\ Whole(h)' = Append(Whole(h), v)
  BY QueueTypes, AcceptsWhole
<1>2. IsInjective(Whole(h)) /\ \A w \in ToSet(Whole(h)) : w \in Value /\ Spent(w, h)
  BY QueueTypes DEF Values, SentOnce
<1>3. \A w \in ToSet(Whole(h)) : Spent(w, h)'
  BY <1>2, SpentStays
<1>4. IsInjective(Append(Whole(h), v)) /\ ToSet(Append(Whole(h), v)) = ToSet(Whole(h)) \cup {v}
  BY <1>1, <1>2, AppendOnce, AppendSet
<1>5. IsInjective(Whole(h)') /\ \A w \in ToSet(Whole(h)') : Spent(w, h)'
  BY <1>1, <1>3, <1>4
<1> QED
  BY <1>5, AlikeValues DEF Accepts

LEMMA GivesValues ==
    ASSUME Typed, Typed', Wears, Values, NEW h \in Chan, Gives(h)
    PROVE  Values'
<1>1. Whole(h)' = Whole(h)
  BY GivesWhole
<1>2. IsInjective(Whole(h)') /\ \A v \in ToSet(Whole(h)') : Spent(v, h)'
  BY <1>1, SentSame DEF Values
<1> QED
  BY <1>2, AlikeValues DEF Gives


LEMMA OpensValues ==
    ASSUME Typed, Typed', Wears, Values, NEW s \in Signals, Opens(s)
    PROVE  Values'
<1>1. s \in Chan /\ pending \in [Signals -> Seq(Value)] /\ UNCHANGED delivered
  BY DataTypes, CoroutinesAssumption DEF ChannelTypes, Opens
<1>2. CASE s \in opened /\ Keeps
  BY <1>2, KeepsValues
<1>3. CASE /\ s \notin opened /\ ~chan[s].closed
           /\ Queue(s) = <<>> /\ Queue(s)' = Reverse(pending[s])
           /\ Whole(s)' = Reverse(pending[s])
  <2>1. /\ pending[s] \in Seq(Value) /\ IsInjective(pending[s])
        /\ \A v \in ToSet(pending[s]) : v[1] = Outside /\ v[2] < signals
    BY <1>1, <1>3 DEF Values, Early
  <2>2. \A v \in ToSet(pending[s]) : v \in Value /\ Spent(v, s)
    BY <2>1, LenProperties, ElementOfSeq DEF ToSet, Spent
  <2>3. \A v \in ToSet(pending[s]) : Spent(v, s)'
    BY <2>2, SpentStays
  <2>4. /\ IsInjective(Reverse(pending[s]))
        /\ ToSet(Reverse(pending[s])) \subseteq ToSet(pending[s])
    BY <2>1, ReverseOnce
  <2>5. Whole(s)' = Reverse(pending[s])
    BY <1>3
  <2>6. IsInjective(Whole(s)')
    BY <2>4, <2>5, Zenon
  <2>7. ToSet(Whole(s)') \subseteq ToSet(pending[s])
    BY <2>4, <2>5, Zenon
  <2>8. \A g \in Chan \ {s} : SameValues(g)
    BY <1>1 DEF Opens, SameValues
  <2>9. SentOnce'
    <3>1. ASSUME NEW g \in Chan
          PROVE  IsInjective(Whole(g)') /\ \A v \in ToSet(Whole(g)') : Spent(v, g)'
      <4>1. CASE g = s
        BY <2>3, <2>6, <2>7, <4>1
      <4>2. CASE g # s
        BY <2>8, <4>2, SentSame DEF Values
      <4> QED
        BY <4>1, <4>2
    <3> QED
      BY <3>1 DEF SentOnce
  <2>10. Early'
    <3>1. ASSUME NEW q \in Signals, q \notin opened' PROVE Arrived(q)'
      <4>1. /\ q \in Chan /\ q # s /\ q \notin opened
            /\ pending'[q] = pending[q] /\ chan'[q].closed = chan[q].closed
        BY <1>1, <3>1, CoroutinesAssumption DEF Opens
      <4> QED
        BY <2>8, <4>1, EarlySame DEF Values
    <3> QED
      BY <3>1 DEF Early, Arrived
  <2>11. NoneBehind'
    BY DEF Values, NoneBehind, Opens
  <2> QED
    BY <2>9, <2>10, <2>11 DEF Values
<1> QED
  BY <1>2, <1>3, OpensWhole

LEMMA StoresValues ==
    ASSUME Typed, Typed', Wears, Values, NEW s, Stores(s, <<Outside, signals>>),
           signals' = signals + 1
    PROVE  Values'
<1> DEFINE v == <<Outside, signals>>
<1>1. /\ s \in Signals \ opened /\ UNCHANGED <<chan, delivered, opened>>
      /\ pending' = [pending EXCEPT ![s] = Append(@, v)]
      /\ pending \in [Signals -> Seq(Value)]
  BY DataTypes DEF Stores, ChannelTypes
<1>2. /\ signals \in Nat /\ v \in Value /\ signals < signals'
  BY CoroutinesAssumption DEF Typed, TypeOK, Value
<1>3. \A g \in Chan : SameValues(g)
  BY <1>1 DEF SameValues
<1>4. SentOnce'
  BY <1>3, SentSame DEF Values, SentOnce
<1>5. Early'
  <2>1. ASSUME NEW q \in Signals, q \notin opened' PROVE Arrived(q)'
    <3>1. q \in Chan /\ q \notin opened
      BY <1>1, <2>1, CoroutinesAssumption
    <3>2. CASE q # s
      BY <1>1, <1>3, <3>1, <3>2, EarlySame DEF Values
    <3>3. CASE q = s
      <4>1. /\ ~chan[q].closed /\ delivered[q] = <<>> /\ chan[q].senders = <<>>
            /\ IsInjective(pending[q])
            /\ \A w \in ToSet(pending[q]) : w[1] = Outside /\ w[2] < signals
            /\ pending[q] \in Seq(Value)
        BY <1>1, <3>1 DEF Values, Early
      <4>2. \A w \in ToSet(pending[q]) : w[2] \in Nat
        BY <4>1, LenProperties, ElementOfSeq, CoroutinesAssumption DEF ToSet, Value
      <4>3. v \notin ToSet(pending[q])
        BY <1>2, <4>1
      <4>4. pending'[q] = Append(pending[q], v)
        BY <1>1, <3>3
      <4>5. IsInjective(Append(pending[q], v))
        BY <1>2, <4>1, <4>3, AppendOnce
      <4>6. ToSet(Append(pending[q], v)) = ToSet(pending[q]) \cup {v}
        BY <1>2, <4>1, AppendSet
      <4>7. \A w \in ToSet(pending[q]) \cup {v} : w[1] = Outside /\ w[2] < signals'
        BY <1>2, <4>1, <4>2
      <4>8. IsInjective(pending'[q])
        BY <4>4, <4>5, Zenon
      <4>9. \A w \in ToSet(pending'[q]) : w[1] = Outside /\ w[2] < signals'
        BY <4>4, <4>6, <4>7, Zenon
      <4> QED
        BY <1>1, <4>1, <4>8, <4>9 DEF Arrived
    <3> QED
      BY <3>2, <3>3
  <2> QED
    BY <2>1 DEF Early, Arrived
<1>6. NoneBehind'
  BY <1>1 DEF Values, NoneBehind
<1> QED
  BY <1>4, <1>5, <1>6 DEF Values

(* Calls are used up.                                                      *)

LEMMA StepWears ==
    ASSUME Typed, Linked, Grouped, Callers, NEW c \in Co, NEW o, Step(c, o), ~over'
    PROVE  Wears /\ Callers'
<1>1. Calls(c, o) /\ co[c].life = "live" /\ co[c].left \in 1 .. MaxCalls /\ MaxCalls \in Nat
  BY StepForms, Running, Calling, CoroutinesAssumption DEF Calls
<1>2. NoOp.kind = "none" /\ co[c].op \in {NoOp, o}
  BY <1>1, Zenon DEF Calls, NoOp
<1>3. \A d \in Co : /\ co[d].life = "none" => co[d].left = MaxCalls /\ co[d].op = NoOp
                    /\ co[d].op.kind = "send" => co[d].waits
  BY DEF Callers, Linked, Resting
<1>4. signals \in Nat
  BY CoroutinesAssumption DEF Typed, TypeOK
<1>5. CASE \E W, marks, enables : Returns(c, W, marks, enables)
  <2>1. \A d \in Co :
          /\ co'[d].life = co[d].life
          /\ d = c => co'[d].op = NoOp /\ co'[d].left = co[d].left - 1
          /\ d # c => /\ co'[d].op = co[d].op /\ co'[d].waits = co[d].waits
                      /\ co'[d].left = co[d].left
    BY <1>5, ReturnsEffect
  <2>2. signals' = signals
    BY <1>5 DEF Returns, outside
  <2> QED
    BY <1>1, <1>2, <1>3, <1>4, <2>1, <2>2 DEF Wears, Callers
<1>6. ASSUME NEW r \in BOOLEAN, Yields(c, o, r), r \/ o.kind # "send"
      PROVE  Wears /\ Callers'
  <2>1. /\ \A d \in Co : d # c => co'[d] = co[d]
        /\ co'[c].life = co[c].life /\ co'[c].op = o /\ co'[c].left = co[c].left
        /\ co'[c].waits <=> co[c].waits \/ r
    BY <1>6, YieldsEffect
  <2>2. signals' = signals
    BY <1>6 DEF Yields, outside
  <2>3. Wears
    BY <1>1, <1>2, <1>4, <2>1, <2>2 DEF Wears
  <2>4. \A d \in Co : co'[d].life = "none" => co'[d].left = MaxCalls
    BY <1>1, <1>3, <2>1
  <2>5. \A d \in Co : co'[d].op.kind = "send" => co'[d].waits
    BY <1>3, <1>6, <2>1
  <2> QED
    BY <2>3, <2>4, <2>5 DEF Callers
<1>7. CASE o.kind \in {"go", "goGroup"} /\ \E g : Spawns(c, o.co, g)
  <2> PICK g : Spawns(c, o.co, g)
    BY <1>7
  <2> DEFINE n == o.co
  <2>1. co[n].life = "none" /\ n \in Co
    <3>1. o.kind \notin Waiting
      BY <1>7 DEF Waiting
    <3> QED
      BY <1>1, <1>7, <3>1, Calling, SelectedCall, CallArguments DEF Usable, Holds
  <2>2. co' = [co EXCEPT ![c].left = @ - 1, ![n] = NewCo(g)] /\ signals' = signals
    BY DEF Spawns, outside
  <2> HIDE DEF n
  <2>3. co \in [Co -> CoState] /\ n # c
    BY <1>1, <2>1, ControlTypes DEF Control
  <2>4. /\ co'[n].life = "live" /\ co'[n].left = MaxCalls /\ co'[n].op = NoOp
        /\ co'[c] = [co[c] EXCEPT !.left = @ - 1]
        /\ \A d \in Co \ {c, n} : co'[d] = co[d]
    BY <2>1, <2>2, <2>3 DEF NewCo
  <2>5. /\ co'[c].life = co[c].life /\ co'[c].left = co[c].left - 1
        /\ co'[c].op = co[c].op /\ co'[c].waits = co[c].waits
    <3>1. co[c] \in CoState
      BY <2>3
    <3>2. co'[c] = [co[c] EXCEPT !.left = co[c].left - 1]
      BY <2>4
    <3> QED
      BY <3>1, <3>2 DEF CoState
  <2>6. /\ co'[n].left = co[n].left /\ co[n].op = NoOp
        /\ co'[c].left < co[c].left /\ signals <= signals'
    <3>1. co'[n].left = co[n].left /\ co[n].op = NoOp
      BY <1>3, <2>1, <2>4
    <3>2. co'[c].left < co[c].left
      BY <1>1, <2>5
    <3>3. signals <= signals'
      BY <1>4, <2>2
    <3> QED
      BY <3>1, <3>2, <3>3
  <2>7. \A d \in Co : \/ co'[d].left < co[d].left
                      \/ co'[d].left = co[d].left /\ co[d].op \in {NoOp, co'[d].op}
    <3> SUFFICES ASSUME NEW d \in Co
                 PROVE  \/ co'[d].left < co[d].left
                        \/ co'[d].left = co[d].left /\ co[d].op \in {NoOp, co'[d].op}
      OBVIOUS
    <3>1. CASE d = c
      BY <2>6, <3>1
    <3>2. CASE d = n
      BY <2>6, <3>2
    <3>3. CASE d \notin {c, n}
      BY <2>4, <3>3
    <3> QED
      BY <3>1, <3>2, <3>3
  <2>8. Callers'
    BY <1>1, <1>2, <1>3, <2>4, <2>5 DEF Callers
  <2> QED
    BY <2>6, <2>7, <2>8 DEF Wears
<1>8. CASE Panics(c)
  BY <1>8 DEF Panics
<1> QED
  BY <1>5, <1>6, <1>7, <1>8, StepForms

\* Elsewhere coroutines are woken or finish.
LEMMA OthersWear ==
    ASSUME Typed, Callers, signals' \in {signals, signals + 1},
           \A d \in Co : co'[d] \in {co[d], [co[d] EXCEPT !.woken = TRUE],
                                     [co[d] EXCEPT !.life = "finished"]}
    PROVE  Wears /\ Callers'
<1>1. signals \in Nat /\ co \in [Co -> CoState]
  BY CoroutinesAssumption DEF Typed, TypeOK
<1>2. \A d \in Co : /\ co'[d].left = co[d].left /\ co'[d].op = co[d].op
                    /\ co'[d].waits = co[d].waits /\ co'[d].life \in {co[d].life, "finished"}
  BY <1>1 DEF CoState
<1>3. Wears
  BY <1>1, <1>2 DEF Wears
<1>4. Callers'
  BY <1>2 DEF Callers
<1> QED
  BY <1>3, <1>4

(* What every step does to the channels.                                   *)

Exchanges ==
    \/ Keeps
    \/ \E h \in Chan, v \in Value :
         Accepts(h, v) /\ v \notin ToSet(Whole(h)) /\ Spent(v, h)'
    \/ \E h \in Chan : Gives(h)
    \/ \E s \in Signals : Opens(s)
    \/ \E s \in Signals : Stores(s, <<Outside, signals>>) /\ signals' = signals + 1

LEMMA ExchangesValues ==
    ASSUME Typed, Typed', Wears, Values, Exchanges
    PROVE  Values'
BY KeepsValues, AcceptsValues, GivesValues, OpensValues, StoresValues DEF Exchanges

LEMMA ExchangesFifo ==
    ASSUME Typed, Values, Exchanges
    PROVE  Fifo!Next
<1>1. Signals \subseteq Chan
  BY CoroutinesAssumption
<1> QED
  BY <1>1, KeepsFifo, AcceptsFifo, GivesFifo, OpensFifo, StoresFifo
  DEF Exchanges, Values, Fifo!Next

LEMMA UnchangedKeeps ==
    ASSUME UNCHANGED <<chan, opened, pending, delivered>>
    PROVE  Exchanges
BY DEF Exchanges, Keeps, SameValues

LEMMA OneAlike ==
    ASSUME Typed, NEW h \in Chan, h \in Signals => h \in opened, UNCHANGED <<opened, pending>>,
           NEW r \in Channel, chan' = [chan EXCEPT ![h] = r], r.closed = chan[h].closed,
           Size[h] > 0 /\ chan[h].senders = <<>> => r.senders = <<>>,
           NEW list \in Seq(Value), delivered' = [delivered EXCEPT ![h] = list]
    PROVE  Alike(h) /\ Queue(h)' = r.buffer \o r.senders /\ delivered'[h] = list
<1>1. chan \in [Chan -> Channel] /\ delivered \in [Chan -> Seq(Value)]
  BY DataTypes DEF ChannelTypes
<1>2. /\ chan'[h] = r /\ \A g \in Chan \ {h} : chan'[g] = chan[g]
      /\ delivered'[h] = list /\ \A g \in Chan \ {h} : delivered'[g] = delivered[g]
      /\ delivered' \in [Chan -> Seq(Value)]
  BY <1>1
<1>3. \A g \in Chan : chan'[g].closed = chan[g].closed /\ (g # h => SameValues(g))
  BY <1>2 DEF SameValues
<1>4. Alike(h)
  BY <1>2, <1>3 DEF Alike
<1> QED
  BY <1>2, <1>4 DEF Queue

LEMMA HandOverAccepts ==
    ASSUME Typed, ReceiversFirst, NEW h \in Chan, NEW v \in Value, HandOver(h, v),
           h \in Signals => h \in opened, UNCHANGED <<opened, pending>>
    PROVE  Accepts(h, v)
<1> DEFINE r == [chan[h] EXCEPT !.receivers = Tail(@)]
           list == Append(delivered[h], v)
<1>1. /\ chan[h] \in Channel /\ delivered[h] \in Seq(Value)
      /\ chan[h].receivers \in Seq(Co \cup Fut) /\ chan[h].receivers # <<>>
  BY DataTypes DEF ChannelTypes, HandOver
<1>2. Tail(chan[h].receivers) \in Seq(Co \cup Fut)
  BY <1>1, TailElements
<1>3. /\ r \in Channel /\ r.buffer = chan[h].buffer /\ r.senders = chan[h].senders
      /\ r.closed = chan[h].closed
  BY <1>1, <1>2 DEF Channel
<1>4. list \in Seq(Value)
  BY <1>1, ValueAppended
<1>5. chan' = [chan EXCEPT ![h] = r] /\ delivered' = [delivered EXCEPT ![h] = list]
  BY DEF HandOver, Receives
<1> HIDE DEF r, list
<1>6. /\ Alike(h) /\ Queue(h)' = chan[h].buffer \o chan[h].senders
      /\ delivered'[h] = Append(delivered[h], v)
  <2>1. Alike(h) /\ Queue(h)' = r.buffer \o r.senders /\ delivered'[h] = list
    BY <1>3, <1>4, <1>5, OneAlike
  <2> QED
    BY <1>3, <2>1 DEF list
<1>7. chan[h].buffer = <<>> /\ chan[h].senders = <<>> /\ ~chan[h].closed
  BY <1>1 DEF ReceiversFirst
<1>8. Queue(h) = <<>> /\ Queue(h)' = <<>>
  BY <1>6, <1>7, ConcatEmptySeq DEF Queue
<1> QED
  BY <1>6, <1>7, <1>8 DEF Accepts

LEMMA PutInBufferAccepts ==
    ASSUME Typed, NoneBehind, NEW h \in Chan, NEW v \in Value, PutInBuffer(h, v),
           h \in Signals => h \in opened, UNCHANGED <<opened, pending>>
    PROVE  Accepts(h, v)
<1> DEFINE r == [chan[h] EXCEPT !.buffer = Append(@, v)]
<1>1. /\ chan[h] \in Channel /\ chan[h].buffer \in Seq(Value) /\ delivered[h] \in Seq(Value)
      /\ delivered \in [Chan -> Seq(Value)]
      /\ Len(chan[h].buffer) \in Nat /\ Size[h] \in Nat /\ Len(chan[h].buffer) < Size[h]
      /\ ~chan[h].closed
  BY DataTypes DEF ChannelTypes, PutInBuffer, HasCapacity
<1>2. Append(chan[h].buffer, v) \in Seq(Value)
  BY <1>1, ValueAppended
<1>3. /\ r \in Channel /\ r.buffer = Append(chan[h].buffer, v) /\ r.senders = chan[h].senders
      /\ r.closed = chan[h].closed
  BY <1>1, <1>2 DEF Channel
<1>4. /\ chan' = [chan EXCEPT ![h] = r]
      /\ delivered' = [delivered EXCEPT ![h] = delivered[h]]
  BY <1>1 DEF PutInBuffer
<1>5. chan[h].senders = <<>>
  BY <1>1 DEF NoneBehind
<1> HIDE DEF r
<1>6. /\ Alike(h) /\ Queue(h)' = r.buffer \o r.senders /\ delivered'[h] = delivered[h]
  BY <1>1, <1>3, <1>4, OneAlike
<1>7. Queue(h)' = Append(Queue(h), v)
  BY <1>1, <1>2, <1>3, <1>5, <1>6, ConcatEmptySeq DEF Queue
<1> QED
  BY <1>1, <1>6, <1>7 DEF Accepts

LEMMA OffersAccepts ==
    ASSUME Typed, NEW h \in Chan, NEW v \in Value, Size[h] = 0, ~chan[h].closed,
           chan' = [chan EXCEPT ![h].senders = Append(@, v)], UNCHANGED delivered,
           h \in Signals => h \in opened, UNCHANGED <<opened, pending>>
    PROVE  Accepts(h, v)
<1> DEFINE r == [chan[h] EXCEPT !.senders = Append(@, v)]
<1>1. /\ chan[h] \in Channel /\ chan[h].buffer \in Seq(Value) /\ chan[h].senders \in Seq(Value)
      /\ delivered[h] \in Seq(Value) /\ delivered \in [Chan -> Seq(Value)]
  BY DataTypes DEF ChannelTypes
<1>2. Append(chan[h].senders, v) \in Seq(Value)
  BY <1>1, ValueAppended
<1>3. /\ r \in Channel /\ r.buffer = chan[h].buffer /\ r.senders = Append(chan[h].senders, v)
      /\ r.closed = chan[h].closed
  BY <1>1, <1>2 DEF Channel
<1>4. /\ chan' = [chan EXCEPT ![h] = r]
      /\ delivered' = [delivered EXCEPT ![h] = delivered[h]]
  BY <1>1
<1> HIDE DEF r
<1>5. /\ Alike(h) /\ Queue(h)' = r.buffer \o r.senders /\ delivered'[h] = delivered[h]
  <2>1. Size[h] > 0 /\ chan[h].senders = <<>> => r.senders = <<>>
    OBVIOUS
  <2> QED
    BY <1>1, <1>3, <1>4, <2>1, OneAlike
<1>6. Queue(h)' = Append(Queue(h), v)
  <2>1. chan[h].buffer \o Append(chan[h].senders, v)
          = Append(chan[h].buffer \o chan[h].senders, v)
    <3>1. \A b, s \in Seq(Value) : b \o Append(s, v) = Append(b \o s, v)
      BY AppendLast
    <3> QED
      BY <1>1, <3>1, Zenon
  <2> QED
    BY <1>3, <1>5, <2>1, Zenon DEF Queue
<1> QED
  BY <1>5, <1>6 DEF Accepts

LEMMA TakeFromBufferGives ==
    ASSUME Typed, NEW h \in Chan, TakeFromBuffer(h),
           h \in Signals => h \in opened, UNCHANGED <<opened, pending>>
    PROVE  Gives(h)
<1> DEFINE r == [chan[h] EXCEPT !.buffer = Tail(@)]
           list == Append(delivered[h], Head(chan[h].buffer))
<1>1. /\ chan[h] \in Channel /\ delivered[h] \in Seq(Value)
      /\ chan[h].buffer \in Seq(Value) /\ chan[h].buffer # <<>>
      /\ chan[h].senders \in Seq(Value)
  BY DataTypes DEF ChannelTypes, TakeFromBuffer
<1>2. Tail(chan[h].buffer) \in Seq(Value) /\ Head(chan[h].buffer) \in Value
  BY <1>1, TailElements
<1>3. /\ r \in Channel /\ r.buffer = Tail(chan[h].buffer) /\ r.senders = chan[h].senders
      /\ r.closed = chan[h].closed
  BY <1>1, <1>2 DEF Channel
<1>4. list \in Seq(Value)
  BY <1>1, <1>2, ValueAppended
<1>5. chan' = [chan EXCEPT ![h] = r] /\ delivered' = [delivered EXCEPT ![h] = list]
  BY DEF TakeFromBuffer, Receives
<1> HIDE DEF r, list
<1>6. Alike(h) /\ Queue(h)' = r.buffer \o r.senders /\ delivered'[h] = list
  BY <1>3, <1>4, <1>5, OneAlike
<1>7. /\ chan[h].buffer \o chan[h].senders # <<>>
      /\ Head(chan[h].buffer \o chan[h].senders) = Head(chan[h].buffer)
      /\ Tail(chan[h].buffer \o chan[h].senders) = Tail(chan[h].buffer) \o chan[h].senders
  BY <1>1, FirstOfTwo
<1> QED
  BY <1>3, <1>6, <1>7, Zenon DEF Gives, Queue, list

LEMMA TakeFromSenderGives ==
    ASSUME Typed, NEW h \in Chan, TakeFromSender(h),
           h \in Signals => h \in opened, UNCHANGED <<opened, pending>>
    PROVE  Gives(h)
<1> DEFINE r == [chan[h] EXCEPT !.senders = Tail(@)]
           list == Append(delivered[h], Head(chan[h].senders))
<1>1. /\ chan[h] \in Channel /\ delivered[h] \in Seq(Value)
      /\ chan[h].senders \in Seq(Value) /\ chan[h].senders # <<>>
      /\ chan[h].buffer = <<>>
  BY DataTypes DEF ChannelTypes, TakeFromSender
<1>2. Tail(chan[h].senders) \in Seq(Value) /\ Head(chan[h].senders) \in Value
  BY <1>1, TailElements
<1>3. /\ r \in Channel /\ r.buffer = <<>> /\ r.senders = Tail(chan[h].senders)
      /\ r.closed = chan[h].closed
  BY <1>1, <1>2 DEF Channel
<1>4. list \in Seq(Value)
  BY <1>1, <1>2, ValueAppended
<1>5. chan' = [chan EXCEPT ![h] = r] /\ delivered' = [delivered EXCEPT ![h] = list]
  BY DEF TakeFromSender, Receives
<1> HIDE DEF r, list
<1>6. /\ Alike(h) /\ Queue(h)' = r.buffer \o r.senders /\ delivered'[h] = list
  <2>1. Size[h] > 0 /\ chan[h].senders = <<>> => r.senders = <<>>
    BY <1>1
  <2> QED
    BY <1>3, <1>4, <1>5, <2>1, OneAlike
<1>7. Queue(h) = chan[h].senders /\ Queue(h)' = Tail(chan[h].senders)
  BY <1>1, <1>2, <1>3, <1>6, ConcatEmptySeq DEF Queue
<1> QED
  BY <1>1, <1>6, <1>7 DEF Gives, list

\* The value of a call that has not been registered.
LEMMA FreshCall ==
    ASSUME Typed, Values, NEW c \in Co, co[c].op.kind # "send", NEW h \in Chan
    PROVE  Call(c) \notin ToSet(Whole(h))
<1>1. co[c].left \in Nat /\ c # Outside /\ Call(c)[1] = c /\ Call(c)[2] = co[c].left
  BY CoroutinesAssumption DEF Typed, TypeOK, CoState, Call
<1>2. ~Spent(Call(c), h)
  BY <1>1 DEF Spent
<1> QED
  BY <1>2 DEF Values, SentOnce

LEMMA SendExchanges ==
    ASSUME SendsUnbuffered, Typed, Linked, Enlisted, Callers, Values,
           NEW c \in Co, NEW o, Send(c, o)
    PROVE  Exchanges
<1> PICK k, v : k = Selected(o) /\ v = Call(c)
  OBVIOUS
<1> DEFINE h == k.on
           blocking == k.kind = "send"
<1>1. /\ Calls(c, o) /\ k.kind \in {"send", "sendNB"} /\ ~co[c].woken
      /\ UNCHANGED <<opened, pending>>
  BY DEF Send
<1>2. /\ h \in Chan /\ v \in Value /\ (h \in Signals => h \in opened)
      /\ o.kind # "select" => k = o
      /\ o.kind = "select" => k.kind = "send" /\ CaseReady(k)
  BY <1>1, SelectedChannel
<1>3. \/ HandOver(h, v) /\ Returns(c, {Head(chan[h].receivers)}, blocking, ~blocking)
      \/ PutInBuffer(h, v) /\ Returns(c, {}, blocking, ~blocking)
      \/ UNCHANGED <<chan, delivered>>
      \/ /\ ~chan[h].closed /\ ~CanSend(h) /\ blocking /\ Yields(c, o, TRUE) /\ ~co[c].waits
         /\ chan' = [chan EXCEPT ![h].senders = Append(@, v)] /\ UNCHANGED delivered
  BY DEF Send
<1>4. /\ o \in AllCalls /\ co[c].left \in Nat /\ v[1] = c /\ v[2] = co[c].left
  BY <1>1, Calling, CoroutinesAssumption DEF Call
<1> HIDE DEF h
<1>5. ASSUME co[c].op.kind = "send"
      PROVE  Size[h] = 0 /\ chan[h].senders # <<>>
  <2>1. o = co[c].op
    <3>1. co[c].op # NoOp
      BY <1>5 DEF NoOp
    <3> QED
      BY <1>1, <3>1, Zenon DEF Calls
  <2>2. o.kind = "send" /\ h = o.on
    BY <1>2, <1>5, <2>1 DEF h
  <2>3. v \in Offers(h)
    BY <1>1, <1>2, <2>1, <2>2 DEF Enlisted, Call
  <2> QED
    BY <1>4, <2>2, <2>3, EmptySeq DEF SendsUnbuffered, Offers, ToSet
<1>6. CASE /\ HandOver(h, v) \/ PutInBuffer(h, v)
           /\ \E W, marks, enables : Returns(c, W, marks, enables)
  <2>1. co[c].op.kind # "send"
    <3>1. chan[h].receivers # <<>> => chan[h].senders = <<>>
      BY <1>2 DEF Linked, Lists, ReceiversFirst
    <3>2. HasCapacity(h) => Size[h] # 0
      BY <1>2, DataTypes DEF HasCapacity
    <3> QED
      BY <1>5, <1>6, <3>1, <3>2 DEF HandOver, PutInBuffer
  <2>2. Accepts(h, v)
    BY <1>1, <1>2, <1>6, HandOverAccepts, PutInBufferAccepts DEF Linked, Lists, Values
  <2>3. co'[c].left = co[c].left - 1
    BY <1>6, ReturnsEffect
  <2>4. v[2] > co'[c].left
    BY <1>4, <2>3
  <2>5. Spent(v, h)'
    BY <1>4, <2>4 DEF Spent
  <2> QED
    BY <1>2, <2>1, <2>2, <2>5, FreshCall DEF Exchanges
<1>7. CASE UNCHANGED <<chan, delivered>>
  BY <1>1, <1>7, UnchangedKeeps
<1>8. CASE /\ ~chan[h].closed /\ ~CanSend(h) /\ blocking /\ Yields(c, o, TRUE) /\ ~co[c].waits
           /\ chan' = [chan EXCEPT ![h].senders = Append(@, v)] /\ UNCHANGED delivered
  <2>1. o.kind = "send" /\ h = o.on
    <3>1. o.kind # "select"
      BY <1>2, <1>8 DEF CaseReady, h
    <3> QED
      BY <1>2, <1>8, <3>1 DEF h
  <2>2. Size[h] = 0
    BY <1>4, <2>1 DEF SendsUnbuffered
  <2>3. co[c].op.kind # "send"
    BY <1>8 DEF Callers
  <2>4. Accepts(h, v)
    BY <1>1, <1>2, <1>8, <2>2, OffersAccepts
  <2>5. co'[c].op = o /\ co'[c].left = co[c].left
    BY <1>8, YieldsEffect
  <2>6. Spent(v, h)'
    BY <1>4, <2>1, <2>5 DEF Spent
  <2> QED
    BY <1>2, <2>3, <2>4, <2>6, FreshCall DEF Exchanges
<1> QED
  BY <1>3, <1>6, <1>7, <1>8

\* Only the list of receivers changes.
LEMMA ReceiversKeep ==
    ASSUME Typed, UNCHANGED <<opened, pending, delivered>>,
           \A g \in Chan : /\ chan'[g].buffer = chan[g].buffer
                           /\ chan'[g].senders = chan[g].senders
                           /\ chan'[g].closed = chan[g].closed
    PROVE  Exchanges
BY DEF Exchanges, Keeps, SameValues

LEMMA ReceiveExchanges ==
    ASSUME Typed, NEW c \in Co, NEW o, Receive(c, o)
    PROVE  Exchanges
<1> PICK k : k = Selected(o)
  OBVIOUS
<1> DEFINE h == k.on
<1>1. /\ Calls(c, o) /\ k.kind \in {"receive", "receiveNB"}
      /\ UNCHANGED <<opened, pending>>
  BY DEF Receive
<1>2. h \in Chan /\ (h \in Signals => h \in opened)
  BY <1>1, SelectedChannel
<1>3. \/ TakeFromBuffer(h)
      \/ TakeFromSender(h)
      \/ UNCHANGED <<chan, delivered>>
      \/ chan' = [chan EXCEPT ![h].receivers = Append(@, c)] /\ UNCHANGED delivered
  BY DEF Receive
<1> HIDE DEF h
<1>4. CASE TakeFromBuffer(h) \/ TakeFromSender(h)
  BY <1>1, <1>2, <1>4, TakeFromBufferGives, TakeFromSenderGives DEF Exchanges
<1>5. CASE UNCHANGED <<chan, delivered>>
  BY <1>1, <1>5, UnchangedKeeps
<1>6. CASE chan' = [chan EXCEPT ![h].receivers = Append(@, c)] /\ UNCHANGED delivered
  <2>1. \A g \in Chan : /\ chan'[g].buffer = chan[g].buffer
                        /\ chan'[g].senders = chan[g].senders
                        /\ chan'[g].closed = chan[g].closed
    BY <1>2, <1>6, DataTypes DEF ChannelTypes, Channel
  <2> QED
    BY <1>1, <1>6, <2>1, ReceiversKeep
<1> QED
  BY <1>3, <1>4, <1>5, <1>6

\* Channels close.
LEMMA ClosesKeep ==
    ASSUME Typed, UNCHANGED <<opened, pending, delivered>>,
           \A g \in Chan : /\ chan'[g].buffer = chan[g].buffer
                           /\ chan'[g].senders = chan[g].senders
                           /\ chan[g].closed => chan'[g].closed
                           /\ g \in Signals \ opened => chan'[g].closed = chan[g].closed
    PROVE  Exchanges
BY DEF Exchanges, Keeps, SameValues

LEMMA CloseChanExchanges ==
    ASSUME Typed, NEW c \in Co, NEW o, CloseChan(c, o)
    PROVE  Exchanges
<1> DEFINE h == o.on
<1>1. /\ Calls(c, o) /\ o.kind = "close" /\ UNCHANGED <<opened, pending, delivered>>
      /\ \/ chan' = [chan EXCEPT ![h].closed = TRUE]
         \/ chan' = [chan EXCEPT ![h].closed = TRUE, ![h].receivers = <<>>]
  BY DEF CloseChan
<1>2. h \in Chan /\ (h \in Signals => h \in opened)
  BY <1>1, Calling, SelectedCall, CallArguments DEF AllOpened, Opened
<1> HIDE DEF h
<1>3. \A g \in Chan : /\ chan'[g].buffer = chan[g].buffer
                      /\ chan'[g].senders = chan[g].senders
                      /\ chan[g].closed => chan'[g].closed
                      /\ g # h => chan'[g] = chan[g]
  BY <1>1, <1>2, DataTypes DEF ChannelTypes, Channel
<1> QED
  BY <1>1, <1>2, <1>3, ClosesKeep

LEMMA CancelsExchanges ==
    ASSUME Typed, NEW x, Cancels(x), UNCHANGED <<opened, pending, delivered>>
    PROVE  Exchanges
<1>1. /\ chan' = [h \in Chan |-> IF h \in Canceling(x)
                                THEN [chan[h] EXCEPT !.closed = TRUE, !.receivers = <<>>]
                                ELSE chan[h]]
      /\ Canceling(x) \subseteq Ctx /\ Signals \cap Ctx = {}
  BY CoroutinesAssumption DEF Cancels, Canceling, LiveBelow
<1>2. \A g \in Chan : /\ chan'[g].buffer = chan[g].buffer
                      /\ chan'[g].senders = chan[g].senders
                      /\ chan[g].closed => chan'[g].closed
                      /\ g \notin Canceling(x) => chan'[g] = chan[g]
  BY <1>1, DataTypes DEF ChannelTypes, Channel
<1> QED
  BY <1>1, <1>2, ClosesKeep

LEMMA WithCancelExchanges ==
    ASSUME Typed, Linked, NEW c \in Co, NEW o, WithCancel(c, o)
    PROVE  Exchanges
<1> PICK late : late = (ctx[o.parent].status = "canceled")
  OBVIOUS
<1>1. /\ Calls(c, o) /\ o.kind = "withCancel" /\ UNCHANGED <<opened, pending, delivered>>
      /\ chan' = [chan EXCEPT ![o.on].closed = late]
  BY DEF WithCancel
<1>2. o.on \in Ctx /\ o.on \in Chan /\ o.on \notin Signals /\ ctx[o.on].status = "none"
  BY <1>1, Calling, SelectedCall, CallArguments, CoroutinesAssumption
  DEF Usable, Holds, Waiting
<1>3. ~chan[o.on].closed
  BY <1>2 DEF Linked, Lists, DoneChannels
<1>4. \A g \in Chan : /\ chan'[g].buffer = chan[g].buffer
                      /\ chan'[g].senders = chan[g].senders
                      /\ g # o.on => chan'[g] = chan[g]
  BY <1>1, <1>2, DataTypes DEF ChannelTypes, Channel
<1> QED
  BY <1>1, <1>2, <1>3, <1>4, ClosesKeep

LEMMA ScheduleTimerExchanges ==
    ASSUME Typed, NEW c \in Co, NEW o, ScheduleTimer(c, o)
    PROVE  Exchanges
<1>1. /\ Calls(c, o) /\ o.kind = "timer" /\ UNCHANGED <<opened, pending, delivered>>
      /\ \/ UNCHANGED chan
         \/ chan' = [chan EXCEPT ![o.parent].receivers = Append(@, o.on)]
  BY DEF ScheduleTimer
<1>2. o.parent \in Chan
  BY <1>1, Calling, SelectedCall, CallArguments, CoroutinesAssumption
<1>3. \A g \in Chan : /\ chan'[g].buffer = chan[g].buffer
                      /\ chan'[g].senders = chan[g].senders
                      /\ chan'[g].closed = chan[g].closed
  <2>1. CASE UNCHANGED chan
    BY <2>1
  <2>2. CASE chan' = [chan EXCEPT ![o.parent].receivers = Append(@, o.on)]
    <3> DEFINE h == o.parent
               r == Append(chan[h].receivers, o.on)
    <3>1. chan' = [chan EXCEPT ![h] = [chan[h] EXCEPT !.receivers = r]] /\ h \in Chan
      BY <1>2, <2>2
    <3> HIDE DEF h, r
    <3> QED
      BY <3>1, DataTypes DEF ChannelTypes, Channel
  <2> QED
    BY <1>1, <2>1, <2>2
<1> QED
  BY <1>1, <1>3, ReceiversKeep

LEMMA SignalChannelExchanges ==
    ASSUME Typed, NEW c \in Co, NEW o, SignalChannel(c, o)
    PROVE  Exchanges
<1> DEFINE s == o.on
<1>1. /\ Calls(c, o) /\ o.kind = "signalChannel" /\ UNCHANGED delivered
      /\ opened' = opened \cup {s} /\ pending' = [pending EXCEPT ![s] = <<>>]
      /\ chan' = [chan EXCEPT ![s].buffer = @ \o Reverse(pending[s])]
  BY DEF SignalChannel
<1>2. s \in Signals /\ s \in Chan
  BY <1>1, Calling, SelectedCall, CallArguments, CoroutinesAssumption
<1> HIDE DEF s
<1> DEFINE b == chan[s].buffer \o Reverse(pending[s])
<1>3. chan' = [chan EXCEPT ![s] = [chan[s] EXCEPT !.buffer = b]]
  BY <1>1
<1> HIDE DEF b
<1>4. /\ \A g \in Chan : /\ chan'[g].closed = chan[g].closed
                         /\ chan'[g].senders = chan[g].senders
                         /\ g # s => chan'[g].buffer = chan[g].buffer
      /\ chan'[s].buffer = b
  BY <1>2, <1>3, DataTypes DEF ChannelTypes, Channel
<1> QED
  BY <1>1, <1>2, <1>4 DEF Exchanges, Opens, b

LEMMA StepExchanges ==
    ASSUME SendsUnbuffered, Typed, Linked, Enlisted, Callers, Values,
           NEW c \in Co, NEW o, Step(c, o)
    PROVE  Exchanges
<1>1. Send(c, o) \/ Receive(c, o) \/ CloseChan(c, o) => Exchanges
  BY SendExchanges, ReceiveExchanges, CloseChanExchanges
<1>2. Answered(c, o) \/ SelectYields(c, o) \/ SelectDefault(c, o) \/ Get(c, o) \/ Go(c, o)
        => Exchanges
  BY UnchangedKeeps DEF Answered, SelectYields, SelectDefault, Get, Go, data
<1>3. GroupGo(c, o) \/ Add(c, o) \/ Done(c, o) \/ Wait(c, o) \/ Disconnect(c, o) => Exchanges
  BY UnchangedKeeps DEF GroupGo, Add, Done, Wait, Disconnect
<1>4. WithCancel(c, o) \/ ScheduleTimer(c, o) \/ SignalChannel(c, o) => Exchanges
  BY WithCancelExchanges, ScheduleTimerExchanges, SignalChannelExchanges
<1>5. Cancel(c, o) => Exchanges
  BY CancelsExchanges DEF Cancel
<1> QED
  BY <1>1, <1>2, <1>3, <1>4, <1>5 DEF Step

LEMMA FinishExchanges ==
    ASSUME Typed, NEW c \in Co, NEW err, Finish(c, err)
    PROVE  Exchanges
<1>1. /\ UNCHANGED <<opened, pending, delivered>>
      /\ Cancels(co[c].group) \/ UNCHANGED chan
  BY DEF Finish
<1> QED
  BY <1>1, CancelsExchanges, UnchangedKeeps

LEMMA ReceiveSignalExchanges ==
    ASSUME Typed, Linked, Values, NEW s \in Signals, ReceiveSignal(s)
    PROVE  Exchanges
<1> PICK v : v = <<Outside, signals>>
  OBVIOUS
<1>1. /\ signals' = signals + 1 /\ UNCHANGED opened
      /\ \/ s \in opened /\ HandOver(s, v) /\ UNCHANGED pending
         \/ s \in opened /\ PutInBuffer(s, v) /\ UNCHANGED pending
         \/ UNCHANGED <<chan, delivered, pending>>
         \/ /\ s \notin opened /\ pending' = [pending EXCEPT ![s] = Append(@, v)]
            /\ UNCHANGED <<chan, delivered>>
  BY DEF ReceiveSignal
<1>2. s \in Chan /\ v \in Value /\ signals \in Nat /\ v[1] = Outside /\ v[2] = signals
  BY CoroutinesAssumption DEF Typed, TypeOK, Value
<1>3. Spent(v, s)' /\ ~Spent(v, s)
  BY <1>1, <1>2, CoroutinesAssumption DEF Spent
<1>4. v \notin ToSet(Whole(s))
  BY <1>2, <1>3 DEF Values, SentOnce
<1>5. CASE s \in opened /\ (HandOver(s, v) \/ PutInBuffer(s, v)) /\ UNCHANGED pending
  <2>1. Accepts(s, v)
    BY <1>1, <1>2, <1>5, HandOverAccepts, PutInBufferAccepts DEF Linked, Lists, Values
  <2> QED
    BY <1>2, <1>3, <1>4, <2>1 DEF Exchanges
<1>6. CASE UNCHANGED <<chan, delivered, pending>>
  BY <1>1, <1>6, UnchangedKeeps
<1>7. CASE /\ s \notin opened /\ pending' = [pending EXCEPT ![s] = Append(@, v)]
           /\ UNCHANGED <<chan, delivered>>
  BY <1>1, <1>7 DEF Exchanges, Stores
<1> QED
  BY <1>1, <1>5, <1>6, <1>7

LEMMA TimerFiredExchanges ==
    ASSUME Typed, NEW f, TimerFired(f)
    PROVE  Exchanges
<1>1. /\ UNCHANGED <<opened, pending, delivered>>
      /\ chan' = [h \in Chan |->
                    [chan[h] EXCEPT !.receivers = RemoveReceiveCallback(@, f)]]
  BY DEF TimerFired
<1>2. \A g \in Chan : /\ chan'[g].buffer = chan[g].buffer
                      /\ chan'[g].senders = chan[g].senders
                      /\ chan'[g].closed = chan[g].closed
  BY <1>1, DataTypes DEF ChannelTypes, Channel
<1> QED
  BY <1>1, <1>2, ReceiversKeep

LEMMA NextExchanges ==
    ASSUME SendsUnbuffered, Typed, Linked, Enlisted, Callers, Values, Next
    PROVE  Exchanges
<1>1. CASE \E c \in Co, o \in AllCalls : Step(c, o)
  BY <1>1, StepExchanges
<1>2. CASE \E c \in Co, err \in BOOLEAN : Finish(c, err)
  BY <1>2, FinishExchanges
<1>3. CASE \E s \in Signals : ReceiveSignal(s)
  BY <1>3, ReceiveSignalExchanges
<1>4. CASE \E f \in Fut : TimerFired(f)
  BY <1>4, TimerFiredExchanges
<1>5. CASE WorkflowCanceled
  BY <1>5, CancelsExchanges DEF WorkflowCanceled
<1>6. CASE Exit
  BY <1>6, UnchangedKeeps DEF Exit, data
<1> QED
  BY <1>1, <1>2, <1>3, <1>4, <1>5, <1>6 DEF Next

(***************************************************************************)
(* The values of the channels, until a panic or the end of the scheduler,  *)
(* after which nothing runs.                                               *)
(***************************************************************************)
Sent == IF over THEN Idle ELSE Callers /\ Values

LEMMA InitSent == Init => Sent
<1> SUFFICES ASSUME Init PROVE Callers /\ Values
  BY DEF Init, Sent
<1>1. NoOp.kind = "none"
  BY DEF NoOp
<1>2. Callers
  BY <1>1 DEF Init, Callers, NewCo, Unborn
<1>3. /\ \A S : <<>> \in Seq(S)
      /\ IsInjective(<<>>) /\ ToSet(<<>>) = {} /\ <<>> \o <<>> = <<>>
  BY EmptySeq, ConcatEmptySeq DEF IsInjective, ToSet
<1>4. \A h \in Chan : /\ chan[h].buffer = <<>> /\ chan[h].senders = <<>> /\ ~chan[h].closed
                      /\ delivered[h] = <<>>
  BY DEF Init
<1>5. \A h \in Chan : Whole(h) = <<>>
  BY <1>3, <1>4, Zenon DEF Whole, Queue
<1>6. SentOnce
  BY <1>3, <1>5 DEF SentOnce
<1>7. Signals \subseteq Chan /\ \A s \in Signals : pending[s] = <<>>
  BY CoroutinesAssumption DEF Init
<1>8. Early /\ NoneBehind
  BY <1>3, <1>4, <1>7 DEF Early, NoneBehind
<1> QED
  BY <1>2, <1>6, <1>8 DEF Values

LEMMA InitFifo == Init => Fifo!Init
<1> SUFFICES ASSUME Init PROVE Fifo!Init
  OBVIOUS
<1>1. \A h \in Chan : chan[h].buffer \o chan[h].senders = <<>> /\ ~chan[h].closed
  BY ConcatEmptySeq DEF Init
<1> QED
  BY <1>1 DEF Fifo!Init, Init

\* A panic leaves nothing running, and so does the end.
LEMMA OverIdle ==
    ASSUME Typed, [Next]_vars, over' = TRUE, over => Idle
    PROVE  Idle'
<1>1. ASSUME NEW c \in Co, NEW o \in AllCalls, Step(c, o) PROVE Idle'
  <2>1. turn # 0
    <3>1. Calls(c, o)
      BY <1>1, StepForms
    <3> QED
      BY <3>1, ControlTypes DEF Calls, Runs
  <2>2. ~over
    BY <2>1 DEF Idle
  <2> QED
    BY <1>1, <2>2, StepForms DEF Returns, Yields, Spawns, Panics, Idle
<1>2. ASSUME NEW c \in Co, NEW err \in BOOLEAN, Finish(c, err) PROVE Idle'
  <2>1. turn # 0 /\ UNCHANGED over
    BY <1>2, ControlTypes DEF Finish, Runs, Control, Scheduled
  <2> QED
    BY <2>1 DEF Idle
<1>3. ASSUME NEW s \in Signals, ReceiveSignal(s) PROVE Idle'
  BY <1>3 DEF ReceiveSignal
<1>4. ASSUME NEW f \in Fut, TimerFired(f) PROVE Idle'
  BY <1>4 DEF TimerFired
<1>5. CASE WorkflowCanceled
  BY <1>5 DEF WorkflowCanceled
<1>6. CASE Exit
  BY <1>6 DEF Exit, scheduling, Idle
<1>7. CASE UNCHANGED vars
  BY <1>7 DEF vars, Idle
<1> QED
  BY <1>1, <1>2, <1>3, <1>4, <1>5, <1>6, <1>7 DEF Next

LEMMA NextWears ==
    ASSUME Typed, Linked, Grouped, Callers, Next, ~over'
    PROVE  Wears /\ Callers'
<1>1. CASE \E c \in Co, o \in AllCalls : Step(c, o)
  BY <1>1, StepWears
<1>2. co \in [Co -> CoState]
  BY ControlTypes DEF Control
<1>3. ASSUME NEW c \in Co, NEW err \in BOOLEAN, Finish(c, err) PROVE Wears /\ Callers'
  <2>1. signals' = signals
    BY <1>3 DEF Finish, outside
  <2>2. \A d \in Co : co'[d] \in {co[d], [co[d] EXCEPT !.woken = TRUE],
                                  [co[d] EXCEPT !.life = "finished"]}
    BY <1>3 DEF Finish
  <2> QED
    BY <2>1, <2>2, OthersWear
<1>4. ASSUME NEW s \in Signals, ReceiveSignal(s) PROVE Wears /\ Callers'
  <2>1. /\ signals' = signals + 1
        /\ UNCHANGED co \/ co' = [co EXCEPT ![Head(chan[s].receivers)].woken = TRUE]
    BY <1>4 DEF ReceiveSignal
  <2>2. \A d \in Co : co'[d] \in {co[d], [co[d] EXCEPT !.woken = TRUE],
                                  [co[d] EXCEPT !.life = "finished"]}
    BY <1>2, <2>1
  <2> QED
    BY <2>1, <2>2, OthersWear
<1>5. ASSUME NEW f \in Fut, TimerFired(f) PROVE Wears /\ Callers'
  BY <1>5, OthersWear DEF TimerFired, outside
<1>6. CASE WorkflowCanceled
  <2>1. signals' = signals
    BY <1>6 DEF WorkflowCanceled, outside
  <2>2. \A d \in Co : co'[d] \in {co[d], [co[d] EXCEPT !.woken = TRUE],
                                  [co[d] EXCEPT !.life = "finished"]}
    BY <1>6 DEF WorkflowCanceled
  <2> QED
    BY <2>1, <2>2, OthersWear
<1>7. CASE Exit
  BY <1>7 DEF Exit
<1> QED
  BY <1>1, <1>3, <1>4, <1>5, <1>6, <1>7 DEF Next

LEMMA NextSent ==
    SendsUnbuffered =>
      (Typed /\ Reaching /\ Regular /\ Sent /\ [Next]_vars =>
         Sent' /\ [Fifo!Next]_(Fifo!vars))
<1> SUFFICES ASSUME SendsUnbuffered, Typed, Reaching, Regular, Sent, [Next]_vars
             PROVE  Sent' /\ [Fifo!Next]_(Fifo!vars)
  OBVIOUS
<1>1. over \in BOOLEAN /\ Typed' /\ over' \in BOOLEAN
  <2>1. Typed'
    BY NextTyped
  <2> QED
    BY <2>1, ControlTypes DEF Typed, TypeOK
<1>2. CASE over
  <2>1. over' /\ Idle
    BY <1>1, <1>2, OverStays DEF Sent
  <2>2. Sent'
    BY <1>1, <1>2, <2>1, OverIdle DEF Sent
  <2>3. UNCHANGED <<chan, delivered>>
    <3>1. CASE UNCHANGED vars
      BY <3>1 DEF vars
    <3>2. ASSUME NEW c \in Co, NEW o \in AllCalls, Step(c, o) PROVE FALSE
      BY <2>1, <3>2, StepForms, ControlTypes DEF Calls, Runs, Control, Scheduled, Idle
    <3>3. ASSUME NEW c \in Co, NEW err \in BOOLEAN, Finish(c, err) PROVE FALSE
      BY <2>1, <3>3, ControlTypes DEF Finish, Runs, Control, Scheduled, Idle
    <3>4. CASE Exit
      BY <3>4 DEF Exit, data
    <3> QED
      BY <1>2, <3>1, <3>2, <3>3, <3>4 DEF Next, ReceiveSignal, TimerFired, WorkflowCanceled
  <2> QED
    BY <2>2, <2>3 DEF Fifo!vars
<1>3. CASE ~over /\ UNCHANGED vars
  <2>1. Sent'
    BY <1>3 DEF vars, Sent, Idle, Callers, Values, SentOnce, Early, NoneBehind, Whole, Queue, Spent
  <2> QED
    BY <1>3, <2>1 DEF vars, Fifo!vars
<1>4. CASE ~over /\ Next
  <2>1. /\ Linked /\ Grouped /\ Enlisted /\ Callers /\ Values
    BY <1>4 DEF Regular, Rounds, Sent
  <2>2. Exchanges /\ Fifo!Next
    BY <1>4, <2>1, NextExchanges, ExchangesFifo
  <2>3. Sent'
    <3>1. CASE over'
      BY <1>1, <1>4, <3>1, OverIdle DEF Sent
    <3>2. CASE ~over'
      <4>1. Wears /\ Callers'
        BY <1>4, <2>1, <3>2, NextWears
      <4> QED
        BY <1>1, <2>1, <2>2, <3>2, <4>1, ExchangesValues DEF Sent
    <3> QED
      BY <3>1, <3>2
  <2> QED
    BY <2>2, <2>3
<1> QED
  BY <1>1, <1>2, <1>3, <1>4

(***************************************************************************)
(* Channels are queues, where no Send is called on a buffered channel (a   *)
(* case of Select may, and SendNonblocking): a value goes in once, comes   *)
(* out once and in the order it went in, whether it was buffered, waited   *)
(* with its sender, or was handed to a waiting receiver, and nothing goes  *)
(* into a closed channel (channel.go).  A Send that blocked on a full      *)
(* buffered channel may put its value in twice (channel.go:98).            *)
(***************************************************************************)
THEOREM ChannelsAreQueues == SendsUnbuffered => (Spec => FifoSpec)
<1> SUFFICES ASSUME SendsUnbuffered PROVE Spec => FifoSpec
  OBVIOUS
<1> DEFINE IInv == Typed /\ Reaching /\ Regular /\ Sent
<1>1. Init => IInv
  BY InitTyped, InitReaching, InitLinked, InitRounds, InitSent DEF Regular
<1>2. IInv /\ [Next]_vars => IInv'
  BY NextTyped, NextReaching, NextRegular, NextSent
<1>3. IInv /\ [Next]_vars => [Fifo!Next]_(Fifo!vars)
  BY NextSent
<1>4. Init => Fifo!Init
  BY InitFifo
<1> QED
  BY <1>1, <1>2, <1>3, <1>4, PTL DEF Spec, FifoSpec, Fifo!Spec
=============================================================================
