----------------------- MODULE RedisBackendOnceProofs -----------------------
(***************************************************************************)
(* The Redis backend handles what is pending exactly once, though several  *)
(* workers may execute the same task and no lock keeps them apart: what    *)
(* leaves a stream of pending events enters the history, and the result of *)
(* an activity and the expiry of a timer arrive once, for every number of  *)
(* workers, instances, executions and steps.                               *)
(***************************************************************************)
EXTENDS RedisBackendProofs, FiniteSetTheorems

-----------------------------------------------------------------------------
(* How a step changes the streams of pending events.                       *)

\* The stream of an execution keeps its events and gets new ones of some kinds.
Extended(z, kinds) ==
    /\ Len(pending[z]) <= Len(pending'[z])
    /\ \A i \in 1 .. Len(pending[z]) : pending'[z][i] = pending[z][i]
    /\ \A i \in 1 .. Len(pending'[z]) :
         i > Len(pending[z]) => pending'[z][i].kind \in kinds

LEMMA PendingType ==
    ASSUME TypeOK, NEW z \in Exec
    PROVE  /\ pending[z] \in Seq(Event) /\ Len(pending[z]) \in Nat
           /\ DOMAIN pending[z] = 1 .. Len(pending[z])
<1>1. pending[z] \in Seq(Event)
  BY DEF TypeOK
<1> QED
  BY <1>1

\* The events of timers and activities.
LEMMA FutureEvents ==
    ASSUME TypeOK, NEW f \in futures
    PROVE  /\ f[1] \in Exec /\ f[2] \in 1 .. MaxSteps /\ f = <<f[1], f[2]>>
           /\ Ev("timer", f[2]) \in Event
<1>1. f \in Exec \X (1 .. MaxSteps)
  BY DEF TypeOK
<1>2. f[2] \in 0 .. MaxSteps
  BY <1>1, RedisAssumption
<1> QED
  BY <1>1, <1>2, EvType DEF EventKinds

LEMMA ActivityEvents ==
    ASSUME TypeOK, NEW w \in Workers, holds[w] # NoTask
    PROVE  /\ holds[w][1] \in Exec /\ holds[w][2] \in 1 .. MaxSteps
           /\ Ev("result", holds[w][2]) \in Event
<1>1. holds[w] \in Exec \X (1 .. MaxSteps) \X {"executing", "known"}
  BY DEF TypeOK
<1>2. holds[w][1] \in Exec /\ holds[w][2] \in 1 .. MaxSteps
  BY <1>1
<1>3. holds[w][2] \in 0 .. MaxSteps
  BY <1>2, RedisAssumption
<1> QED
  BY <1>2, <1>3, EvType DEF EventKinds

LEMMA PendingTypeNext ==
    ASSUME TypeOK', NEW z \in Exec
    PROVE  /\ pending'[z] \in Seq(Event) /\ Len(pending'[z]) \in Nat
           /\ DOMAIN pending'[z] = 1 .. Len(pending'[z])
<1>1. pending'[z] \in Seq(Event)
  BY DEF TypeOK
<1> QED
  BY <1>1

LEMMA HistoryType ==
    ASSUME TypeOK, NEW z \in Exec
    PROVE  /\ history[z] \in Seq([seq : Nat, event : Event]) /\ Len(history[z]) \in Nat
           /\ DOMAIN history[z] = 1 .. Len(history[z])
<1>1. history[z] \in Seq([seq : Nat, event : Event])
  BY DEF TypeOK
<1> QED
  BY <1>1

LEMMA EventsType ==
    ASSUME TypeOK, NEW w \in Workers
    PROVE  worker[w].events \in Seq(Event) /\ Len(worker[w].events) \in Nat
<1>1. worker[w].events \in Seq(Event)
  BY DEF TypeOK, WorkerState
<1> QED
  BY <1>1

LEMMA SameExtended ==
    ASSUME TypeOK, NEW z \in Exec, pending'[z] = pending[z], NEW kinds
    PROVE  Extended(z, kinds)
BY PendingType DEF Extended

LEMMA AppendExtended ==
    ASSUME TypeOK, NEW z \in Exec, NEW ev \in Event,
           pending'[z] = Append(pending[z], ev)
    PROVE  /\ Extended(z, {ev.kind})
           /\ Len(pending'[z]) = Len(pending[z]) + 1
           /\ pending'[z][Len(pending[z]) + 1] = ev
<1>1. pending[z] \in Seq(Event) /\ Len(pending[z]) \in Nat
  BY PendingType
<1>2. /\ Len(pending'[z]) = Len(pending[z]) + 1
      /\ \A i \in 1 .. Len(pending[z]) : pending'[z][i] = pending[z][i]
      /\ pending'[z][Len(pending[z]) + 1] = ev
  BY <1>1
<1> QED
  BY <1>1, <1>2 DEF Extended

LEMMA StreamsAppended ==
    ASSUME TypeOK, NEW x \in Exec, NEW ev \in Event,
           pending' = [pending EXCEPT ![x] = Append(@, ev)]
    PROVE  /\ \A z \in Exec : Extended(z, {ev.kind})
           /\ \A z \in Exec \ {x} : pending'[z] = pending[z]
           /\ Len(pending'[x]) = Len(pending[x]) + 1
           /\ pending'[x][Len(pending[x]) + 1] = ev
<1>1. pending'[x] = Append(pending[x], ev) /\ \A z \in Exec \ {x} : pending'[z] = pending[z]
  BY DEF TypeOK
<1> QED
  BY <1>1, SameExtended, AppendExtended

\* The elements of two sequences in a row.
Joins(u, s, t) ==
    /\ DOMAIN u = 1 .. Len(s) + Len(t)
    /\ \A i \in 1 .. Len(s) : u[i] = s[i]
    /\ \A i \in 1 .. Len(t) :
         Len(s) + i \in 1 .. Len(s) + Len(t) /\ u[Len(s) + i] = t[i]

LEMMA ConcatJoins ==
    ASSUME NEW S, NEW s \in Seq(S), NEW t \in Seq(S)
    PROVE  Joins(s \o t, s, t)
<1> DEFINE u == s \o t
           m == Len(s)
           n == Len(t)
<1>1. m \in Nat /\ n \in Nat
  OBVIOUS
<1>2. u \in Seq(S) /\ Len(u) = m + n
  BY ConcatProperties
<1>3. \A i \in 1 .. m + n : u[i] = IF i <= m THEN s[i] ELSE t[i - m]
  BY ConcatProperties
<1> HIDE DEF u, m, n
<1>4. DOMAIN u = 1 .. m + n
  <2>1. DOMAIN u = 1 .. Len(u)
    BY <1>2
  <2> QED
    BY <1>2, <2>1
<1>5. \A i \in 1 .. m : i \in 1 .. m + n /\ i <= m
  BY <1>1
<1>6. \A i \in 1 .. n : m + i \in 1 .. m + n /\ (m + i) - m = i /\ ~(m + i <= m)
  BY <1>1
<1>7. \A i \in 1 .. m : u[i] = s[i]
  BY <1>3, <1>5
<1>8. \A i \in 1 .. n : u[m + i] = t[i]
  BY <1>3, <1>6
<1> QED
  BY <1>4, <1>6, <1>7, <1>8 DEF Joins, u, m, n

\* A completion appends what the worker has executed to the history.
LEMMA HistoryGrows ==
    ASSUME TypeOK, NEW w \in Workers, worker[w].task[1] \in Exec, NEW h,
           h = history[worker[w].task[1]] \o Executed(w)
    PROVE  LET old == history[worker[w].task[1]] IN
           /\ DOMAIN h = 1 .. Len(old) + Len(worker[w].events)
           /\ \A i \in 1 .. Len(old) : h[i] = old[i]
           /\ \A i \in 1 .. Len(worker[w].events) :
                /\ Len(old) + i \in DOMAIN h
                /\ h[Len(old) + i].event = worker[w].events[i]
<1> DEFINE old == history[worker[w].task[1]]
           new == Executed(w)
<1>1. old \in Seq([seq : Nat, event : Event]) /\ Len(old) \in Nat
  BY HistoryType
<1>2. /\ worker[w].events \in Seq(Event) /\ Len(worker[w].events) \in Nat
      /\ DOMAIN worker[w].events = 1 .. Len(worker[w].events)
  <2>1. worker[w].events \in Seq(Event)
    BY EventsType
  <2> QED
    BY <2>1
<1>3. /\ new \in Seq([seq : Nat, event : Event]) /\ Len(new) = Len(worker[w].events)
      /\ \A i \in 1 .. Len(worker[w].events) : new[i].event = worker[w].events[i]
  <2>1. \A i \in 1 .. Len(worker[w].events) : new[i].event = worker[w].events[i]
    BY <1>2 DEF Executed
  <2>2. worker[w] \in WorkerState
    BY DEF TypeOK
  <2>3. /\ Executed(w) \in Seq([seq : Nat, event : Event])
        /\ Len(Executed(w)) = Len(worker[w].events)
    BY <2>2, ExecutedType
  <2> QED
    BY <2>1, <2>3
<1> DEFINE n == Len(worker[w].events)
           m == Len(old)
           S == [seq : Nat, event : Event]
<1>4. h = old \o new
  BY DEF old, new
<1>5. /\ m \in Nat /\ n \in Nat /\ Len(new) = n /\ Len(old) = m
      /\ old \in Seq(S) /\ new \in Seq(S)
      /\ \A i \in 1 .. n : new[i].event = worker[w].events[i]
  BY <1>1, <1>2, <1>3
<1> HIDE DEF old, new, n, m, S
<1>6. /\ DOMAIN h = 1 .. m + n
      /\ \A i \in 1 .. m : h[i] = old[i]
      /\ \A i \in 1 .. n : m + i \in 1 .. m + n /\ h[m + i] = new[i]
  <2>1. Joins(h, old, new)
    BY <1>4, <1>5, ConcatJoins
  <2> QED
    BY <1>5, <2>1 DEF Joins
<1> QED
  BY <1>5, <1>6 DEF old, n, m

\* What is left of a stream that a worker has read.
LEMMA TrimEffect ==
    ASSUME TypeOK, NEW w \in Workers, worker[w].task[1] \in Exec
    PROVE  LET s == pending[worker[w].task[1]] IN
           /\ \A i \in 1 .. Len(AfterTrim(w)) :
                Read(w) + i \in 1 .. Len(s) /\ AfterTrim(w)[i] = s[Read(w) + i]
           /\ \A i \in 1 .. Len(s) : i > Read(w) =>
                i - Read(w) \in 1 .. Len(AfterTrim(w)) /\ AfterTrim(w)[i - Read(w)] = s[i]
<1> DEFINE s == pending[worker[w].task[1]]
<1>1. s \in Seq(Event) /\ Len(s) \in Nat /\ Read(w) \in Nat
  BY PendingType, ReadType
<1>2. AfterTrim(w) = SubSeq(s, Read(w) + 1, Len(s))
  BY DEF AfterTrim
<1> HIDE DEF s
<1>3. \A i \in Read(w) + 1 .. Len(s) : s[i] \in Event
  BY <1>1
<1>4. /\ Len(AfterTrim(w)) = IF Read(w) + 1 <= Len(s) THEN Len(s) - (Read(w) + 1) + 1 ELSE 0
      /\ \A i \in 1 .. Len(s) - (Read(w) + 1) + 1 : AfterTrim(w)[i] = s[(Read(w) + 1) + i - 1]
  <2>1. Read(w) + 1 \in Int /\ Len(s) \in Int
    BY <1>1
  <2> QED
    BY <1>2, <1>3, <2>1, SubSeqProperties
<1>5. Len(AfterTrim(w)) = IF Read(w) <= Len(s) THEN Len(s) - Read(w) ELSE 0
  BY <1>1, <1>4
<1>6. \A i \in 1 .. Len(AfterTrim(w)) : AfterTrim(w)[i] = s[Read(w) + i]
  BY <1>1, <1>4, <1>5
<1>7. \A i \in 1 .. Len(AfterTrim(w)) : Read(w) + i \in 1 .. Len(s)
  BY <1>1, <1>5
<1>8. \A i \in 1 .. Len(s) : i > Read(w) =>
        i - Read(w) \in 1 .. Len(AfterTrim(w)) /\ Read(w) + (i - Read(w)) = i
  BY <1>1, <1>5
<1>9. \A i \in 1 .. Len(s) : i > Read(w) => AfterTrim(w)[i - Read(w)] = s[i]
  BY <1>6, <1>8
<1> QED
  BY <1>6, <1>7, <1>8, <1>9 DEF s

\* The streams after a completion.
LEMMA CompleteStreams ==
    ASSUME TypeOK, Tasked, NEW w \in Workers, NEW outcome, NEW y \in Exec \cup {NoExec},
           NEW t, CompleteWorkflowTask(w, outcome, y, t)
    PROVE  LET x == worker[w].task[1] IN
           /\ \A i \in 1 .. Len(pending'[x]) :
                \/ pending'[x][i].kind = "conflict"
                \/ /\ Read(w) + i \in 1 .. Len(pending[x])
                   /\ pending'[x][i] = pending[x][Read(w) + i]
           /\ \A i \in 1 .. Len(pending[x]) : i > Read(w) =>
                /\ i - Read(w) \in 1 .. Len(pending'[x])
                /\ pending'[x][i - Read(w)] = pending[x][i]
           /\ \A z \in Exec \ {x} : Extended(z, {"start", "child"})
<1> DEFINE x       == worker[w].task[1]
           closed  == outcome \in {"finish", "continue", "discard"}
           n       == steps + 1
           to      == Told(x, outcome)
           cleared == IF closed THEN [active EXCEPT ![Id(x)] = NoExec] ELSE active
           clash   == y # NoExec /\ cleared[Id(y)] # NoExec
           makes   == y # NoExec /\ ~clash
           conflict == Ev("conflict", IF outcome = "sub" THEN n ELSE 0)
           events  == AfterTrim(w) \o (IF clash THEN <<conflict>> ELSE <<>>)
           rest    == AfterTrim(w)
           start   == Ev("start", 0)
           child   == Ev("child", inst[x].n)
<1>1. /\ x \in Exec /\ Id(x) \in Ids
      /\ worker[w] \in WorkerState /\ inst[x] \in Instance
  BY CompleteReads
<1>2. pending' = [z \in Exec |->
                   IF z = x THEN events
                   ELSE IF makes /\ z = y THEN Append(pending[z], start)
                   ELSE IF z = to THEN Append(pending[z], child)
                   ELSE pending[z]]
  BY DEF CompleteWorkflowTask
<1>3. /\ start \in Event /\ child \in Event /\ conflict \in Event
      /\ start.kind = "start" /\ child.kind = "child" /\ conflict.kind = "conflict"
  <2>1. MaxSteps \in Nat /\ inst[x].n \in 0 .. MaxSteps
    BY <1>1, RedisAssumption DEF Instance
  <2>2. (IF outcome = "sub" THEN n ELSE 0) \in 0 .. MaxSteps
    <3>1. outcome = "sub" => steps < MaxSteps
      BY DEF CompleteWorkflowTask
    <3> QED
      BY <2>1, <3>1 DEF TypeOK
  <2> QED
    BY <2>1, <2>2, EvType DEF Ev, EventKinds
<1>4. /\ rest \in Seq(Event) /\ Len(rest) \in Nat
      /\ \A i \in 1 .. Len(rest) :
           Read(w) + i \in 1 .. Len(pending[x]) /\ rest[i] = pending[x][Read(w) + i]
      /\ \A i \in 1 .. Len(pending[x]) : i > Read(w) =>
           i - Read(w) \in 1 .. Len(rest) /\ rest[i - Read(w)] = pending[x][i]
  <2>1. rest \in Seq(Event)
    BY <1>1, TrimType
  <2>2. Len(rest) \in Nat
    BY <2>1
  <2> QED
    BY <1>1, <2>1, <2>2, TrimEffect
<1> HIDE DEF conflict, rest, start, child, makes, to
<1>5. /\ \A i \in 1 .. Len(rest) : i \in 1 .. Len(events) /\ events[i] = rest[i]
      /\ \A i \in 1 .. Len(events) : i \in 1 .. Len(rest) \/ events[i] = conflict
  <2> HIDE DEF clash
  <2>1. events = rest \o (IF clash THEN <<conflict>> ELSE <<>>)
    BY DEF rest
  <2>2. CASE clash
    <3>1. events = Append(rest, conflict)
      BY <1>3, <1>4, <2>1, <2>2
    <3> HIDE DEF events
    <3>2. /\ Len(events) = Len(rest) + 1
          /\ \A i \in 1 .. Len(rest) : events[i] = rest[i]
          /\ events[Len(rest) + 1] = conflict
      <4>1. rest \in Seq(Event) /\ conflict \in Event
        BY <1>3, <1>4
      <4> QED
        BY <3>1, <4>1, AppendProperties
    <3>3. \A i \in 1 .. Len(events) : i \in 1 .. Len(rest) \/ i = Len(rest) + 1
      BY <1>4, <3>2
    <3>4. \A i \in 1 .. Len(rest) : i \in 1 .. Len(events)
      BY <1>4, <3>2
    <3> QED
      BY <3>2, <3>3, <3>4
  <2>3. CASE ~clash
    <3>1. events = rest
      BY <1>4, <2>1, <2>3
    <3> HIDE DEF events
    <3> QED
      BY <3>1
  <2> QED
    BY <2>2, <2>3
<1> HIDE DEF x, events, clash
<1>6. pending'[x] = events
  BY <1>1, <1>2
<1>7. \A i \in 1 .. Len(pending'[x]) :
        \/ pending'[x][i].kind = "conflict"
        \/ /\ Read(w) + i \in 1 .. Len(pending[x])
           /\ pending'[x][i] = pending[x][Read(w) + i]
  BY <1>3, <1>4, <1>5, <1>6
<1>8. \A i \in 1 .. Len(pending[x]) : i > Read(w) =>
        /\ i - Read(w) \in 1 .. Len(pending'[x])
        /\ pending'[x][i - Read(w)] = pending[x][i]
  BY <1>4, <1>5, <1>6
<1>9. ASSUME NEW z \in Exec \ {x} PROVE Extended(z, {"start", "child"})
  <2>1. CASE pending'[z] = pending[z]
    BY <2>1, SameExtended
  <2>2. CASE pending'[z] = Append(pending[z], start)
    BY <1>3, <2>2, AppendExtended DEF Extended
  <2>3. CASE pending'[z] = Append(pending[z], child)
    BY <1>3, <2>3, AppendExtended DEF Extended
  <2> QED
    BY <1>2, <2>1, <2>2, <2>3
<1> QED
  BY <1>7, <1>8, <1>9 DEF x
-----------------------------------------------------------------------------
(* What workers know.                                                      *)

\* Instances that have finished stay so, and whoever has read the last sequence
\* id of an instance knows its state.
Abreast ==
    \A w \in Workers : worker[w].at \in {"known", "executing"} =>
      LET x == worker[w].task[1] IN
      inst[x] # NoInst =>
        /\ worker[w].state = "Finished" => inst[x].state = "Finished"
        /\ worker[w].last = inst[x].last => worker[w].state = inst[x].state

\* A worker whose completion will be accepted executes what its stream begins with.
Snapshots ==
    \A w \in Workers : worker[w].at = "executing" =>
      LET x      == worker[w].task[1]
          events == worker[w].events
      IN
      /\ events # <<>>
      /\ /\ inst[x] # NoInst /\ inst[x].state # "Finished"
         /\ worker[w].last = inst[x].last
         => /\ worker[w].upto = trimmed[x] + Len(events)
            /\ Len(events) <= Len(pending[x])
            /\ \A i \in 1 .. Len(events) : pending[x][i] = events[i]

SnapInv == Abreast /\ Snapshots

LEMMA SnapInit == Init => SnapInv
BY DEF Init, SnapInv, Abreast, Snapshots, Free

\* Events are added to streams.
LEMMA SnapKept ==
    ASSUME TypeOK, TypeOK', Tasked, SnapInv, UNCHANGED <<inst, trimmed>>,
           NEW kinds, \A z \in Exec : Extended(z, kinds),
           \A v \in Workers : \/ worker'[v] = worker[v]
                              \/ worker'[v].at \notin {"known", "executing"}
    PROVE  SnapInv'
<1>1. Abreast'
  BY DEF SnapInv, Abreast
<1>2. Snapshots'
  <2> SUFFICES ASSUME NEW v \in Workers, worker'[v].at = "executing"
               PROVE  LET x      == worker'[v].task[1]
                          events == worker'[v].events
                      IN  /\ events # <<>>
                          /\ /\ inst'[x] # NoInst /\ inst'[x].state # "Finished"
                             /\ worker'[v].last = inst'[x].last
                             => /\ worker'[v].upto = trimmed'[x] + Len(events)
                                /\ Len(events) <= Len(pending'[x])
                                /\ \A i \in 1 .. Len(events) : pending'[x][i] = events[i]
    BY DEF Snapshots
  <2> DEFINE x == worker[v].task[1]
             events == worker[v].events
  <2>1. worker'[v] = worker[v] /\ x \in Exec
    BY DEF Tasked
  <2>2. /\ events # <<>>
        /\ /\ inst[x] # NoInst /\ inst[x].state # "Finished"
           /\ worker[v].last = inst[x].last
           => /\ worker[v].upto = trimmed[x] + Len(events)
              /\ Len(events) <= Len(pending[x])
              /\ \A i \in 1 .. Len(events) : pending[x][i] = events[i]
    BY <2>1 DEF SnapInv, Snapshots
  <2>3. /\ Len(pending[x]) <= Len(pending'[x])
        /\ \A i \in 1 .. Len(pending[x]) : pending'[x][i] = pending[x][i]
    BY <2>1 DEF Extended
  <2>4. Len(events) \in Nat /\ Len(pending[x]) \in Nat /\ Len(pending'[x]) \in Nat
    BY <2>1, EventsType, PendingType, PendingTypeNext
  <2> SUFFICES ASSUME inst[x] # NoInst, inst[x].state # "Finished",
                      worker[v].last = inst[x].last
               PROVE  Len(events) <= Len(pending'[x])
                      /\ \A i \in 1 .. Len(events) : pending'[x][i] = events[i]
    BY <2>1, <2>2
  <2> HIDE DEF x, events
  <2> QED
    BY <2>2, <2>3, <2>4
<1> QED
  BY <1>1, <1>2 DEF SnapInv

LEMMA SnapCreate ==
    ASSUME TypeOK, TypeOK', Tasked, FenceInv, SnapInv, NEW x \in Exec,
           CreateWorkflowInstance(x)
    PROVE  SnapInv'
<1>1. /\ UNCHANGED worker /\ inst[x] = NoInst /\ x \notin gone
      /\ \A z \in Exec \ {x} : inst'[z] = inst[z] /\ pending'[z] = pending[z]
      /\ UNCHANGED trimmed
  BY DEF CreateWorkflowInstance, Fresh
<1>2. \A w \in Workers : worker[w].at \in {"known", "executing"} => worker[w].task[1] # x
  BY <1>1 DEF FenceInv, Behind
<1>3. \A w \in Workers : worker[w].at \in {"known", "executing"} =>
        worker[w].task[1] \in Exec \ {x}
  BY <1>2 DEF Tasked
<1> QED
  BY <1>1, <1>3 DEF SnapInv, Abreast, Snapshots

LEMMA SnapRemove ==
    ASSUME TypeOK, Tasked, SnapInv, NEW x \in Exec, RemoveWorkflowInstance(x) \/ Expires(x)
    PROVE  SnapInv'
<1>1. /\ UNCHANGED worker /\ inst'[x] = NoInst
      /\ \A z \in Exec \ {x} : /\ inst'[z] = inst[z] /\ pending'[z] = pending[z]
                              /\ trimmed'[z] = trimmed[z]
  BY DEF RemoveWorkflowInstance, Expires, TypeOK
<1>2. \A w \in Workers : worker[w].at \in {"known", "executing"} =>
        worker[w].task[1] \in Exec
  BY DEF Tasked
<1> QED
  BY <1>1, <1>2 DEF SnapInv, Abreast, Snapshots

LEMMA SnapRead ==
    ASSUME TypeOK, Tasked, SnapInv, NEW w \in Workers, ReadInstance(w) \/ ReadPending(w)
    PROVE  SnapInv'
<1> DEFINE x == worker[w].task[1]
<1>1. /\ UNCHANGED <<inst, trimmed, pending>> /\ x \in Exec /\ worker[w] \in WorkerState
      /\ \A v \in Workers \ {w} : worker'[v] = worker[v]
      /\ worker'[w] = Free => worker'[w].at = "free"
  BY DEF ReadInstance, ReadPending, instances, TypeOK, Tasked, Free
<1>2. CASE ReadInstance(w)
  <2>1. \/ worker'[w] = Free
        \/ /\ worker'[w].at = "known" /\ worker'[w].task = worker[w].task
           /\ worker'[w].state = inst[x].state /\ worker'[w].last = inst[x].last
    BY <1>1, <1>2 DEF ReadInstance, TypeOK, WorkerState
  <2>2. Abreast'
    BY <1>1, <2>1 DEF SnapInv, Abreast
  <2>3. \A v \in Workers : worker'[v].at = "executing" => worker'[v] = worker[v]
    BY <1>1, <2>1
  <2>4. Snapshots'
    BY <1>1, <2>3 DEF SnapInv, Snapshots
  <2> QED
    BY <2>2, <2>4 DEF SnapInv
<1>3. CASE ReadPending(w)
  <2>1. \/ worker'[w] = Free
        \/ /\ worker[w].at = "known"
           /\ worker'[w].at = "executing" /\ worker'[w].task = worker[w].task
           /\ worker'[w].state = worker[w].state /\ worker'[w].last = worker[w].last
           /\ worker'[w].events = pending[x] /\ pending[x] # <<>>
           /\ worker'[w].upto = trimmed[x] + Len(pending[x])
    BY <1>1, <1>3 DEF ReadPending, TypeOK, WorkerState
  <2>2. Len(pending[x]) \in Nat
    BY <1>1, PendingType
  <2>3. Abreast'
    BY <1>1, <2>1 DEF SnapInv, Abreast
  <2>4. Snapshots'
    BY <1>1, <2>1, <2>2 DEF SnapInv, Snapshots
  <2> QED
    BY <2>3, <2>4 DEF SnapInv
<1> QED
  BY <1>2, <1>3

\* A completion that is not of a finished instance is one of the current task.
LEMMA CompletesCurrent ==
    ASSUME TypeOK, Tasked, FenceInv, SnapInv, NEW w \in Workers, NEW outcome,
           NEW y \in Exec \cup {NoExec}, NEW t, CompleteWorkflowTask(w, outcome, y, t)
    PROVE  LET x      == worker[w].task[1]
               events == worker[w].events
           IN
           /\ outcome = "discard" => inst[x].state = "Finished"
           /\ outcome # "discard" =>
                /\ inst[x].state # "Finished" /\ worker[w].last = inst[x].last
                /\ Read(w) = Len(events) /\ Len(events) > 0
                /\ Len(events) <= Len(pending[x])
                /\ \A i \in 1 .. Len(events) : pending[x][i] = events[i]
<1> DEFINE x      == worker[w].task[1]
           events == worker[w].events
<1>1. /\ x \in Exec /\ inst[x] # NoInst /\ worker[w].at = "executing"
      /\ outcome \in Outcomes(worker[w].state)
  BY CompleteReads DEF CompleteWorkflowTask
<1>2. outcome = "discard" <=> worker[w].state = "Finished"
  <2>1. "discard" \notin Commands
    BY RedisAssumption
  <2> QED
    BY <1>1, <2>1 DEF Outcomes
<1>3. ASSUME outcome = "discard" PROVE inst[x].state = "Finished"
  BY <1>1, <1>2, <1>3 DEF SnapInv, Abreast
<1>4. ASSUME outcome # "discard"
      PROVE  /\ inst[x].state # "Finished" /\ worker[w].last = inst[x].last
             /\ Read(w) = Len(events) /\ Len(events) > 0
             /\ Len(events) <= Len(pending[x])
             /\ \A i \in 1 .. Len(events) : pending[x][i] = events[i]
  <2>1. worker[w].last = inst[x].last
    BY <1>4, FencedIsLast
  <2>2. inst[x].state # "Finished"
    BY <1>1, <1>2, <1>4, <2>1 DEF SnapInv, Abreast
  <2>3. /\ events # <<>> /\ worker[w].upto = trimmed[x] + Len(events)
        /\ Len(events) <= Len(pending[x])
        /\ \A i \in 1 .. Len(events) : pending[x][i] = events[i]
    BY <1>1, <2>1, <2>2 DEF SnapInv, Snapshots
  <2>4. events \in Seq(Event) /\ Len(events) \in Nat /\ trimmed[x] \in Nat
    BY <1>1, EventsType DEF TypeOK
  <2>5. Len(events) > 0
    BY <2>3, <2>4
  <2>6. Read(w) = Len(events)
    BY <2>3, <2>4, <2>5 DEF Read
  <2> QED
    BY <2>1, <2>2, <2>3, <2>5, <2>6
<1> QED
  BY <1>3, <1>4

LEMMA SnapComplete ==
    ASSUME TypeOK, TypeOK', Tasked, FenceInv, SnapInv, NEW w \in Workers, NEW outcome,
           NEW y \in Exec \cup {NoExec}, NEW t, CompleteWorkflowTask(w, outcome, y, t)
    PROVE  SnapInv'
<1> DEFINE x == worker[w].task[1]
<1>1. /\ x \in Exec /\ inst[x] \in Instance /\ inst[x] # NoInst
      /\ worker' = [worker EXCEPT ![w] = Free]
      /\ trimmed' = [trimmed EXCEPT ![x] = @ + Read(w)]
  BY CompleteReads DEF CompleteWorkflowTask
<1>2. /\ inst'[x].last = IF outcome = "discard" THEN inst[x].last
                         ELSE worker[w].last + Len(worker[w].events)
      /\ \A z \in Exec \ {x} :
           inst'[z] = inst[z] \/ (inst[z] = NoInst /\ z \notin gone)
  BY CompleteInst
<1>3. \A z \in Exec \ {x} : Extended(z, {"start", "child"}) /\ trimmed'[z] = trimmed[z]
  BY <1>1, CompleteStreams DEF TypeOK
<1>4. ASSUME NEW v \in Workers, worker'[v].at \in {"known", "executing"}
      PROVE  /\ worker'[v] = worker[v] /\ v # w /\ worker[v].task[1] \in Exec
             /\ worker[v].task[1] # x => inst'[worker[v].task[1]] = inst[worker[v].task[1]]
  <2>1. worker'[v] = worker[v] /\ v # w
    BY <1>1, <1>4 DEF TypeOK, Free
  <2>2. worker[v].task[1] \in Exec
    BY <1>4, <2>1 DEF Tasked
  <2>3. inst[worker[v].task[1]] = NoInst => worker[v].task[1] \in gone
    BY <1>4, <2>1 DEF FenceInv, Behind
  <2> QED
    BY <1>2, <2>1, <2>2, <2>3
<1>5. ASSUME NEW v \in Workers, worker'[v].at \in {"known", "executing"},
             worker[v].task[1] = x
      PROVE  \/ /\ outcome = "discard" /\ inst[x].state = "Finished"
                /\ inst'[x].state = "Finished" /\ inst'[x].last = inst[x].last
             \/ /\ outcome # "discard" /\ worker[v].last < inst'[x].last
                /\ worker[v].state # "Finished"
  <2>1. CASE outcome = "discard"
    <3>1. inst'[x].state = "Finished"
      BY <1>1, <2>1, CompletedState
    <3> QED
      BY <1>2, <2>1, <3>1, CompletesCurrent
  <2>2. CASE outcome # "discard"
    <3>1. /\ inst[x].state # "Finished" /\ worker[w].last = inst[x].last
          /\ Len(worker[w].events) > 0
      BY <2>2, CompletesCurrent
    <3>2. worker[v].last <= inst[x].last /\ worker[v].state # "Finished"
      BY <1>1, <1>4, <1>5, <3>1 DEF FenceInv, Behind, SnapInv, Abreast
    <3>3. worker[v].last \in Nat /\ inst[x].last \in Nat /\ Len(worker[w].events) \in Nat
      BY <1>1, EventsType DEF TypeOK, WorkerState, Instance
    <3> QED
      BY <1>2, <2>2, <3>1, <3>2, <3>3
  <2> QED
    BY <2>1, <2>2
<1>6. Abreast'
  <2> SUFFICES ASSUME NEW v \in Workers, worker'[v].at \in {"known", "executing"},
                      inst'[worker'[v].task[1]] # NoInst
               PROVE  LET z == worker'[v].task[1] IN
                      /\ worker'[v].state = "Finished" => inst'[z].state = "Finished"
                      /\ worker'[v].last = inst'[z].last => worker'[v].state = inst'[z].state
    BY DEF Abreast
  <2>1. CASE worker[v].task[1] # x
    BY <1>4, <2>1 DEF SnapInv, Abreast
  <2>2. CASE worker[v].task[1] = x
    <3>1. /\ worker'[v] = worker[v]
          /\ worker[v].state = "Finished" => inst[x].state = "Finished"
          /\ worker[v].last = inst[x].last => worker[v].state = inst[x].state
      BY <1>1, <1>4, <2>2 DEF SnapInv, Abreast
    <3>2. worker[v].last \in Nat
      BY DEF TypeOK, WorkerState
    <3>3. inst'[x].last \in Nat
      BY <1>1, CompleteInst DEF Instance
    <3> HIDE DEF x
    <3> QED
      BY <1>5, <2>2, <3>1, <3>2, <3>3
  <2> QED
    BY <2>1, <2>2
<1>7. Snapshots'
  <2> SUFFICES ASSUME NEW v \in Workers, worker'[v].at = "executing"
               PROVE  LET z      == worker'[v].task[1]
                          events == worker'[v].events
                      IN  /\ events # <<>>
                          /\ /\ inst'[z] # NoInst /\ inst'[z].state # "Finished"
                             /\ worker'[v].last = inst'[z].last
                             => /\ worker'[v].upto = trimmed'[z] + Len(events)
                                /\ Len(events) <= Len(pending'[z])
                                /\ \A i \in 1 .. Len(events) : pending'[z][i] = events[i]
    BY DEF Snapshots
  <2> DEFINE z      == worker[v].task[1]
             events == worker[v].events
  <2>1. /\ worker'[v] = worker[v] /\ z \in Exec
        /\ events # <<>>
        /\ /\ inst[z] # NoInst /\ inst[z].state # "Finished"
           /\ worker[v].last = inst[z].last
           => /\ worker[v].upto = trimmed[z] + Len(events)
              /\ Len(events) <= Len(pending[z])
              /\ \A i \in 1 .. Len(events) : pending[z][i] = events[i]
    BY <1>4 DEF SnapInv, Snapshots
  <2>2. CASE z = x
    <3>1. worker[v].last \in Nat /\ inst'[x].last \in Nat
      BY <1>1, CompleteInst DEF TypeOK, WorkerState, Instance
    <3>2. ~(inst'[x].state # "Finished" /\ worker[v].last = inst'[x].last)
      BY <1>5, <2>2, <3>1
    <3> QED
      BY <2>1, <2>2, <3>2
  <2>3. CASE z # x
    <3>1. /\ inst'[z] = inst[z] /\ trimmed'[z] = trimmed[z]
          /\ Len(pending[z]) <= Len(pending'[z])
          /\ \A i \in 1 .. Len(pending[z]) : pending'[z][i] = pending[z][i]
      BY <1>3, <1>4, <2>1, <2>3 DEF Extended
    <3>2. Len(events) \in Nat /\ Len(pending[z]) \in Nat /\ Len(pending'[z]) \in Nat
      BY <2>1, EventsType, PendingType, PendingTypeNext
    <3> SUFFICES ASSUME inst[z] # NoInst, inst[z].state # "Finished",
                        worker[v].last = inst[z].last
                 PROVE  /\ worker[v].upto = trimmed[z] + Len(events)
                        /\ Len(events) <= Len(pending'[z])
                        /\ \A i \in 1 .. Len(events) : pending'[z][i] = events[i]
      BY <2>1, <3>1
    <3>3. /\ worker[v].upto = trimmed[z] + Len(events)
          /\ Len(events) <= Len(pending[z])
          /\ \A i \in 1 .. Len(events) : pending[z][i] = events[i]
      BY <2>1
    <3> HIDE DEF z, events
    <3> QED
      BY <3>1, <3>2, <3>3
  <2> QED
    BY <2>2, <2>3
<1> QED
  BY <1>6, <1>7 DEF SnapInv

LEMMA SnapStep ==
    ASSUME TypeOK, TypeOK', Tasked, FenceInv, SnapInv, [Next]_vars
    PROVE  SnapInv'
<1>1. UNCHANGED pending => \A z \in Exec : Extended(z, {})
  BY SameExtended
<1>2. ASSUME NEW x \in Exec,
             \/ CreateWorkflowInstance(x) \/ SignalReads(x) \/ CancelReads(x)
             \/ RemoveWorkflowInstance(x) \/ Expires(x)
      PROVE  SnapInv'
  <2>1. CASE SignalReads(x) \/ CancelReads(x)
    BY <1>1, <2>1, SnapKept DEF SignalReads, CancelReads, instances
  <2> QED
    BY <1>2, <2>1, SnapCreate, SnapRemove
<1>3. CASE ClientWrites
  <2>1. client[1] \in Exec /\ client[2] \in Event
    BY <1>3 DEF ClientWrites, TypeOK
  <2>2. \A z \in Exec : Extended(z, {client[2].kind})
    BY <1>3, <2>1, StreamsAppended DEF ClientWrites
  <2> QED
    BY <1>3, <2>2, SnapKept DEF ClientWrites
<1>4. ASSUME NEW f \in futures, ScheduleFutureEvent(f) PROVE SnapInv'
  <2>1. f[1] \in Exec /\ Ev("timer", f[2]) \in Event
    BY FutureEvents
  <2>2. \A z \in Exec : Extended(z, {Ev("timer", f[2]).kind})
    BY <1>4, <2>1, StreamsAppended DEF ScheduleFutureEvent
  <2> QED
    BY <1>4, <2>2, SnapKept DEF ScheduleFutureEvent
<1>5. ASSUME NEW e \in stream, LockExpires(e) PROVE SnapInv'
  BY <1>1, <1>5, SnapKept DEF LockExpires, instances
<1>6. ASSUME NEW e \in stream, NEW w \in Workers, Dequeue(w, e) PROVE SnapInv'
  <2>1. \A v \in Workers : worker'[v] = worker[v] \/ worker'[v].at = "dequeued"
    BY <1>6 DEF Dequeue, TypeOK, WorkerState
  <2> QED
    BY <1>1, <1>6, <2>1, SnapKept DEF Dequeue, instances
<1>7. ASSUME NEW w \in Workers, ReadInstance(w) \/ ReadPending(w) PROVE SnapInv'
  BY <1>7, SnapRead
<1>8. ASSUME NEW w \in Workers, Fail(w) PROVE SnapInv'
  <2>1. \A v \in Workers : worker'[v] = worker[v] \/ worker'[v].at = "free"
    BY <1>8 DEF Fail, TypeOK, Free
  <2> QED
    BY <1>1, <1>8, <2>1, SnapKept DEF Fail, instances
<1>9. ASSUME NEW w \in Workers, ExtendWorkflowTask(w) PROVE SnapInv'
  BY <1>1, <1>9, SnapKept DEF ExtendWorkflowTask, instances
<1>10. ASSUME NEW w \in Workers, NEW outcome \in Commands \cup {"discard"},
              NEW y \in Exec \cup {NoExec}, NEW t \in {0} \cup {f[2] : f \in futures},
              CompleteWorkflowTask(w, outcome, y, t)
       PROVE  SnapInv'
  BY <1>10, SnapComplete
<1>11. ASSUME NEW w \in Workers, ReadActivityInstance(w) \/ ExtendActivityTask(w)
       PROVE  SnapInv'
  BY <1>1, <1>11, SnapKept DEF ReadActivityInstance, ExtendActivityTask, instances
<1>12. ASSUME NEW w \in Workers, CompleteActivityTask(w) PROVE SnapInv'
  <2>1. CASE StillQueued(w)
    <3>1. holds[w][1] \in Exec /\ Ev("result", holds[w][2]) \in Event
      BY <1>12, ActivityEvents DEF CompleteActivityTask
    <3>2. \A z \in Exec : Extended(z, {Ev("result", holds[w][2]).kind})
      BY <1>12, <2>1, <3>1, StreamsAppended DEF CompleteActivityTask
    <3> QED
      BY <1>12, <3>2, SnapKept DEF CompleteActivityTask
  <2>2. CASE ~StillQueued(w)
    BY <1>1, <1>12, <2>2, SnapKept DEF CompleteActivityTask
  <2> QED
    BY <2>1, <2>2
<1>13. ASSUME NEW a \in activities,
              ActivityLockExpires(a) \/ \E w \in Workers : DequeueActivity(w, a)
       PROVE  SnapInv'
  BY <1>1, <1>13, SnapKept DEF ActivityLockExpires, DequeueActivity, instances
<1>14. CASE UNCHANGED vars
  BY <1>1, <1>14, SnapKept DEF vars
<1> QED
  BY <1>2, <1>3, <1>4, <1>5, <1>6, <1>7, <1>8, <1>9, <1>10, <1>11, <1>12, <1>13, <1>14
  DEF Next

-----------------------------------------------------------------------------
(* Pending events become history.                                          *)

\* The steps that change streams of pending events.
LEMMA PendingWriters ==
    ASSUME TypeOK, [Next]_vars
    PROVE  \/ UNCHANGED pending
           \/ \E x \in Exec, ev \in Event : pending' = [pending EXCEPT ![x] = Append(@, ev)]
           \/ \E x \in Exec : RemoveWorkflowInstance(x) \/ Expires(x)
           \/ \E w \in Workers, outcome \in Commands \cup {"discard"},
                y \in Exec \cup {NoExec}, t \in {0} \cup {f[2] : f \in futures} :
               CompleteWorkflowTask(w, outcome, y, t)
<1>1. ASSUME NEW x \in Exec, CreateWorkflowInstance(x)
      PROVE  \E ev \in Event : pending' = [pending EXCEPT ![x] = Append(@, ev)]
  <2>1. Ev("start", 0) \in Event
    BY RedisAssumption, EvType DEF EventKinds
  <2> QED
    BY <1>1, <2>1 DEF CreateWorkflowInstance
<1>2. ASSUME ClientWrites
      PROVE  \E x \in Exec, ev \in Event : pending' = [pending EXCEPT ![x] = Append(@, ev)]
  BY <1>2 DEF ClientWrites, TypeOK
<1>3. ASSUME NEW f \in futures, ScheduleFutureEvent(f)
      PROVE  \E x \in Exec, ev \in Event : pending' = [pending EXCEPT ![x] = Append(@, ev)]
  BY <1>3, FutureEvents DEF ScheduleFutureEvent
<1>4. ASSUME NEW w \in Workers, CompleteActivityTask(w)
      PROVE  \/ UNCHANGED pending
             \/ \E x \in Exec, ev \in Event : pending' = [pending EXCEPT ![x] = Append(@, ev)]
  BY <1>4, ActivityEvents DEF CompleteActivityTask
<1>5. ASSUME NEW w \in Workers,
             \/ ReadInstance(w) \/ ReadPending(w) \/ Fail(w) \/ ExtendWorkflowTask(w)
             \/ ReadActivityInstance(w) \/ ExtendActivityTask(w)
             \/ \E a \in activities : DequeueActivity(w, a)
      PROVE  UNCHANGED pending
  BY <1>5 DEF ReadInstance, ReadPending, Fail, ExtendWorkflowTask, ReadActivityInstance,
              ExtendActivityTask, DequeueActivity, instances
<1>6. ASSUME NEW x \in Exec, SignalReads(x) \/ CancelReads(x) PROVE UNCHANGED pending
  BY <1>6 DEF SignalReads, CancelReads, instances
<1>7. ASSUME NEW e \in stream, LockExpires(e) \/ \E w \in Workers : Dequeue(w, e)
      PROVE  UNCHANGED pending
  BY <1>7 DEF LockExpires, Dequeue, instances
<1>8. ASSUME NEW a \in activities, ActivityLockExpires(a) PROVE UNCHANGED pending
  BY <1>8 DEF ActivityLockExpires, instances
<1>9. CASE UNCHANGED vars
  BY <1>9 DEF vars
<1> QED
  BY <1>1, <1>2, <1>3, <1>4, <1>5, <1>6, <1>7, <1>8, <1>9 DEF Next

LEMMA CompletionMoves ==
    ASSUME TypeOK, TypeOK', Tasked, FenceInv, SnapInv, NEW w \in Workers, NEW outcome,
           NEW y \in Exec \cup {NoExec}, NEW t, CompleteWorkflowTask(w, outcome, y, t),
           NEW i \in 1 .. Len(pending[worker[w].task[1]])
    PROVE  LET x == worker[w].task[1] IN
           \/ inst[x].state = "Finished"
           \/ pending[x][i] \in ToSet(pending'[x])
           \/ \E j \in DOMAIN history'[x] : history'[x][j].event = pending[x][i]
<1> DEFINE x      == worker[w].task[1]
           events == worker[w].events
           old    == Len(history[x])
<1>1. x \in Exec /\ Len(pending[x]) \in Nat /\ Read(w) \in Nat
  BY CompleteReads, PendingType, ReadType
<1>2. CASE outcome = "discard"
  BY <1>2, CompletesCurrent
<1>3. CASE outcome # "discard" /\ i > Read(w)
  <2>1. /\ i - Read(w) \in 1 .. Len(pending'[x])
        /\ pending'[x][i - Read(w)] = pending[x][i]
    BY <1>3, CompleteStreams
  <2>2. DOMAIN pending'[x] = 1 .. Len(pending'[x])
    BY <1>1, PendingTypeNext
  <2> QED
    BY <2>1, <2>2 DEF ToSet
<1>4. CASE outcome # "discard" /\ i <= Read(w)
  <2>1. i \in 1 .. Len(events) /\ pending[x][i] = events[i]
    BY <1>1, <1>4, CompletesCurrent
  <2>2. history'[x] = history[x] \o Executed(w)
    BY <1>1, <1>4 DEF CompleteWorkflowTask, TypeOK
  <2>3. /\ old + i \in DOMAIN history'[x]
        /\ history'[x][old + i].event = events[i]
    BY <1>1, <2>1, <2>2, HistoryGrows
  <2> QED
    BY <2>1, <2>3
<1> QED
  BY <1>1, <1>2, <1>3, <1>4

LEMMA EventsStep ==
    ASSUME TypeOK, Tasked, FenceInv, SnapInv, [Next]_vars
    PROVE  EventsMove
<1> SUFFICES ASSUME NEW x \in Exec, NEW ev \in ToSet(pending[x]), ev \notin ToSet(pending'[x])
             PROVE  \/ \E i \in DOMAIN history'[x] : history'[x][i].event = ev
                    \/ x \in gone'
                    \/ inst[x].state = "Finished"
  BY DEF EventsMove
<1>1. TypeOK'
  BY TypeStep
<1>2. PICK i \in 1 .. Len(pending[x]) : ev = pending[x][i]
  BY PendingType DEF ToSet
<1>3. ASSUME NEW kinds, Extended(x, kinds) PROVE FALSE
  BY <1>1, <1>2, <1>3, PendingType, PendingTypeNext DEF Extended, ToSet
<1>4. pending'[x] # pending[x]
  OBVIOUS
<1>5. ASSUME NEW z \in Exec, NEW e \in Event, pending' = [pending EXCEPT ![z] = Append(@, e)]
      PROVE  FALSE
  BY <1>3, <1>5, StreamsAppended
<1>6. ASSUME NEW z \in Exec, RemoveWorkflowInstance(z) \/ Expires(z) PROVE x \in gone'
  <2>1. x # z => pending'[x] = pending[x]
    BY <1>6 DEF RemoveWorkflowInstance, Expires, TypeOK
  <2> QED
    BY <1>4, <1>6, <2>1 DEF RemoveWorkflowInstance, Expires
<1>7. ASSUME NEW w \in Workers, NEW outcome, NEW y \in Exec \cup {NoExec}, NEW t,
             CompleteWorkflowTask(w, outcome, y, t)
      PROVE  \/ \E j \in DOMAIN history'[x] : history'[x][j].event = ev
             \/ inst[x].state = "Finished"
  <2>1. x = worker[w].task[1]
    BY <1>3, <1>7, CompleteStreams
  <2> QED
    BY <1>1, <1>2, <1>7, <2>1, CompletionMoves
<1> QED
  BY <1>4, <1>5, <1>6, <1>7, PendingWriters

LEMMA SnapHolds == Spec => [](TypeOK /\ Tasked /\ FenceInv /\ SnapInv)
<1>1. Init => TypeOK /\ Tasked /\ FenceInv /\ SnapInv
  BY InitTypes, FenceInit, SnapInit
<1>2. TypeOK /\ Tasked /\ FenceInv /\ SnapInv /\ [Next]_vars
      => (TypeOK /\ Tasked /\ FenceInv /\ SnapInv)'
  <2> SUFFICES ASSUME TypeOK, Tasked, FenceInv, SnapInv, [Next]_vars
               PROVE  (TypeOK /\ Tasked /\ FenceInv /\ SnapInv)'
    OBVIOUS
  <2>1. TypeOK' /\ Tasked' /\ FenceInv'
    BY TypeStep, FenceStep
  <2> QED
    BY <2>1, SnapStep
<1> QED
  BY <1>1, <1>2, PTL DEF Spec

(***************************************************************************)
(* No pending event is lost: one that leaves its stream is in the history  *)
(* after the same step, unless the execution has finished or its keys are  *)
(* deleted.  Several workers may have executed the same task, and new      *)
(* events come while they do (XTRIM in complete_workflow_task.lua).        *)
(***************************************************************************)
THEOREM EventsKept == Spec => EventsMoveToHistory
<1>1. TypeOK /\ Tasked /\ FenceInv /\ SnapInv /\ [Next]_vars => [EventsMove]_vars
  BY EventsStep
<1> QED
  BY <1>1, SnapHolds, PTL DEF Spec, EventsMoveToHistory

-----------------------------------------------------------------------------
(* Results and timers.                                                     *)

Marks == {"result", "timer"}

\* The activity or the timer that an event is going to come from.
Source(x, kind, n) ==
    \/ kind = "result" /\ \E a \in activities : a.exec = x /\ a.n = n
    \/ kind = "timer" /\ <<x, n>> \in futures

\* Where an event is: at position l of the pending events, at position -l of the
\* history, or, at 0, still to come.
At(x, kind, n, l) ==
    \/ l = 0 /\ Source(x, kind, n)
    \/ l \in 1 .. Len(pending[x]) /\ pending[x][l] = Ev(kind, n)
    \/ -l \in 1 .. Len(history[x]) /\ history[x][-l].event = Ev(kind, n)

\* An event is in one place only, and its number has been given out.
OnePlace ==
    \A x \in Exec, kind \in Marks, n \in 1 .. MaxSteps :
      /\ \A l, m \in Int : At(x, kind, n, l) /\ At(x, kind, n, m) => l = m
      /\ \A l \in Int : At(x, kind, n, l) => n <= steps

OneEntry == \A a, b \in activities : a.exec = b.exec /\ a.n = b.n => a = b

ClientKinds == client # NoTask => client[2].kind \in {"signal", "cancel"}

OnceInv == OnePlace /\ OneEntry /\ ClientKinds

LEMMA OnceInit == Init => OnceInv
<1> SUFFICES ASSUME Init PROVE OnceInv
  OBVIOUS
<1>1. ASSUME NEW x \in Exec, NEW kind, NEW n, NEW l \in Int PROVE ~At(x, kind, n, l)
  <2>1. pending[x] = <<>> /\ history[x] = <<>> /\ activities = {} /\ futures = {}
    BY DEF Init
  <2>2. Len(<<>>) = 0
    OBVIOUS
  <2>3. l \notin 1 .. Len(pending[x]) /\ -l \notin 1 .. Len(history[x])
    BY <2>1, <2>2
  <2> QED
    BY <2>1, <2>3 DEF At, Source
<1> QED
  BY <1>1 DEF Init, OnceInv, OnePlace, OneEntry, ClientKinds

\* Only the numbers given out by the step can come to a place that was not there.
LEMMA OnePlaceKept ==
    ASSUME TypeOK, TypeOK', OnePlace, steps <= steps',
           \A x \in Exec, kind \in Marks, n \in 1 .. MaxSteps :
             \/ \A l \in Int : At(x, kind, n, l)' => At(x, kind, n, l)
             \/ \A l, m \in Int : At(x, kind, n, l)' /\ At(x, kind, n, m)' => l = m /\ n <= steps'
    PROVE  OnePlace'
<1> SUFFICES ASSUME NEW x \in Exec, NEW kind \in Marks, NEW n \in 1 .. MaxSteps
             PROVE  /\ \A l, m \in Int : At(x, kind, n, l)' /\ At(x, kind, n, m)' => l = m
                    /\ \A l \in Int : At(x, kind, n, l)' => n <= steps'
  BY DEF OnePlace
<1>1. CASE \A l \in Int : At(x, kind, n, l)' => At(x, kind, n, l)
  <2>1. /\ \A l, m \in Int : At(x, kind, n, l) /\ At(x, kind, n, m) => l = m
        /\ \A l \in Int : At(x, kind, n, l) => n <= steps
    BY DEF OnePlace
  <2>2. n \in Int /\ steps \in Int /\ steps' \in Int
    BY RedisAssumption DEF TypeOK
  <2> QED
    BY <1>1, <2>1, <2>2
<1>2. CASE \A l, m \in Int : At(x, kind, n, l)' /\ At(x, kind, n, m)' => l = m /\ n <= steps'
  BY <1>2
<1> QED
  BY <1>1, <1>2

\* A stream that gets other events leaves this one where it was.
LEMMA AtExtended ==
    ASSUME TypeOK, TypeOK', NEW x \in Exec, NEW kinds, Extended(x, kinds),
           history'[x] = history[x], NEW kind \in Marks \ kinds, NEW n,
           Source(x, kind, n)' => Source(x, kind, n),
           NEW l \in Int, At(x, kind, n, l)'
    PROVE  At(x, kind, n, l)
<1>1. CASE l = 0 /\ Source(x, kind, n)'
  BY <1>1 DEF At
<1>2. CASE l \in 1 .. Len(pending'[x]) /\ pending'[x][l] = Ev(kind, n)
  <2>1. pending'[x][l].kind = kind
    BY <1>2 DEF Ev
  <2>2. l <= Len(pending[x])
    BY <1>2, <2>1, PendingType DEF Extended
  <2>3. l \in 1 .. Len(pending[x])
    BY <1>2, <2>2, PendingType
  <2> QED
    BY <1>2, <2>3 DEF At, Extended
<1>3. CASE -l \in 1 .. Len(history'[x]) /\ history'[x][-l].event = Ev(kind, n)
  BY <1>3 DEF At
<1> QED
  BY <1>1, <1>2, <1>3 DEF At

\* So does a stream that gets another event.
LEMMA AtOther ==
    ASSUME TypeOK, TypeOK', NEW x \in Exec, NEW ev \in Event,
           pending'[x] = Append(pending[x], ev), history'[x] = history[x],
           NEW kind \in Marks, NEW n, Ev(kind, n) # ev,
           Source(x, kind, n)' => Source(x, kind, n),
           NEW l \in Int, At(x, kind, n, l)'
    PROVE  At(x, kind, n, l)
<1>1. /\ Len(pending[x]) \in Nat /\ Len(pending'[x]) = Len(pending[x]) + 1
      /\ pending'[x][Len(pending[x]) + 1] = ev
      /\ \A i \in 1 .. Len(pending[x]) : pending'[x][i] = pending[x][i]
  BY PendingType, AppendExtended DEF Extended
<1>2. CASE l = 0 /\ Source(x, kind, n)'
  BY <1>2 DEF At
<1>3. CASE l \in 1 .. Len(pending'[x]) /\ pending'[x][l] = Ev(kind, n)
  <2>1. l # Len(pending[x]) + 1
    BY <1>1, <1>3
  <2>2. l \in 1 .. Len(pending[x])
    BY <1>1, <1>3, <2>1
  <2> QED
    BY <1>1, <1>3, <2>2 DEF At
<1>4. CASE -l \in 1 .. Len(history'[x]) /\ history'[x][-l].event = Ev(kind, n)
  BY <1>4 DEF At
<1> QED
  BY <1>2, <1>3, <1>4 DEF At

\* The step in which an event arrives: what it came from is gone.
LEMMA AtArrives ==
    ASSUME TypeOK, TypeOK', OnePlace, NEW x \in Exec, NEW kind \in Marks,
           NEW n \in 1 .. MaxSteps, Source(x, kind, n), ~Source(x, kind, n)',
           pending'[x] = Append(pending[x], Ev(kind, n)), history'[x] = history[x],
           NEW l \in Int, At(x, kind, n, l)'
    PROVE  l = Len(pending[x]) + 1 /\ n <= steps
<1>1. At(x, kind, n, 0) /\ 0 \in Int
  BY DEF At
<1>2. \A m \in Int : At(x, kind, n, m) => m = 0
  BY <1>1 DEF OnePlace
<1>3. n <= steps
  BY <1>1 DEF OnePlace
<1>4. Len(pending[x]) \in Nat /\ Len(history[x]) \in Nat
  BY PendingType, HistoryType
<1>5. /\ Len(pending'[x]) = Len(pending[x]) + 1
      /\ \A i \in 1 .. Len(pending[x]) : pending'[x][i] = pending[x][i]
  <2>1. pending[x] \in Seq(Event)
    BY PendingType
  <2> QED
    BY <2>1
<1>6. l # 0
  BY <1>4 DEF At
<1>7. CASE l \in 1 .. Len(pending'[x]) /\ pending'[x][l] = Ev(kind, n)
  <2>1. l \in 1 .. Len(pending[x]) => At(x, kind, n, l)
    BY <1>5, <1>7 DEF At
  <2> QED
    BY <1>2, <1>3, <1>4, <1>5, <1>6, <1>7, <2>1
<1>8. CASE -l \in 1 .. Len(history'[x]) /\ history'[x][-l].event = Ev(kind, n)
  BY <1>2, <1>6, <1>8 DEF At
<1> QED
  BY <1>6, <1>7, <1>8 DEF At

\* What a completion schedules bears a new number.
Scheduled(outcome, kind, n) ==
    /\ n = steps + 1
    /\ \/ outcome = "activity" /\ kind = "result"
       \/ outcome = "timer" /\ kind = "timer"

Comes(outcome, kind, n, l) == l = 0 /\ Scheduled(outcome, kind, n)

LEMMA CompletionSources ==
    ASSUME TypeOK, Tasked, NEW w \in Workers, NEW outcome, NEW y, NEW t,
           CompleteWorkflowTask(w, outcome, y, t),
           NEW x \in Exec, NEW kind \in Marks, NEW n, Source(x, kind, n)'
    PROVE  Source(x, kind, n) \/ (x = worker[w].task[1] /\ Scheduled(outcome, kind, n))
<1>1. worker[w].task[1] \in Exec
  BY CompleteReads
<1>2. CASE kind = "result"
  <2>1. PICK a \in activities' : a.exec = x /\ a.n = n
    BY <1>2 DEF Source
  <2>2. CASE a \in activities
    BY <1>2, <2>1, <2>2 DEF Source
  <2>3. CASE a \notin activities
    <3>1. activities' = activities \cup
            (IF outcome = "activity"
             THEN {[exec |-> worker[w].task[1], n |-> steps + 1, held |-> FALSE, idle |-> FALSE]}
             ELSE {})
      BY DEF CompleteWorkflowTask
    <3>2. /\ outcome = "activity"
          /\ a = [exec |-> worker[w].task[1], n |-> steps + 1, held |-> FALSE, idle |-> FALSE]
      BY <2>1, <2>3, <3>1
    <3> QED
      BY <1>2, <2>1, <3>2 DEF Scheduled
  <2> QED
    BY <2>2, <2>3
<1>3. CASE kind = "timer"
  <2>1. <<x, n>> \in futures \/ (outcome = "timer" /\ <<x, n>> = <<worker[w].task[1], steps + 1>>)
    BY <1>3 DEF Source, CompleteWorkflowTask
  <2> QED
    BY <1>3, <2>1 DEF Source, Scheduled
<1> QED
  BY <1>2, <1>3 DEF Marks

LEMMA Shifted ==
    ASSUME NEW l \in Int, NEW o \in Nat, NEW r \in Nat, -l \in 1 .. o + r
    PROVE  /\ ~(l > 0)
           /\ l < -o => -l - o \in 1 .. r /\ o + (-l - o) = -l
           /\ ~(l < -o) => -l \in 1 .. o
OBVIOUS

\* Where an event of the completed execution has been before.
Was(w, x, l) ==
    IF l > 0 THEN l + Read(w)
    ELSE IF l < -Len(history[x]) THEN -l - Len(history[x])
    ELSE l

LEMMA AtCompleted ==
    ASSUME TypeOK, TypeOK', Tasked, FenceInv, SnapInv, NEW w \in Workers, NEW outcome,
           NEW y \in Exec \cup {NoExec}, NEW t, CompleteWorkflowTask(w, outcome, y, t),
           NEW x \in Exec, x = worker[w].task[1], NEW kind \in Marks, NEW n,
           NEW l \in Int, At(x, kind, n, l)', ~Comes(outcome, kind, n, l)
    PROVE  /\ Was(w, x, l) \in Int /\ At(x, kind, n, Was(w, x, l))
           /\ l < -Len(history[x]) => Was(w, x, l) \in 1 .. Read(w)
<1> DEFINE old == Len(history[x])
           was == Was(w, x, l)
<1>1. old \in Nat /\ Read(w) \in Nat /\ Len(pending[x]) \in Nat /\ Len(pending'[x]) \in Nat
  BY HistoryType, PendingType, PendingTypeNext, ReadType
<1> SUFFICES /\ was \in Int /\ At(x, kind, n, was)
             /\ l < -old => was \in 1 .. Read(w)
  OBVIOUS
<1>2. /\ l > 0 => was = l + Read(w)
      /\ ~(l > 0) /\ l < -old => was = -l - old
      /\ ~(l > 0) /\ ~(l < -old) => was = l
  BY DEF Was
<1> HIDE DEF was
<1>3. CASE l = 0 /\ Source(x, kind, n)'
  <2>1. Source(x, kind, n)
    BY <1>3, CompletionSources DEF Comes
  <2> QED
    BY <1>1, <1>3, <1>2, <2>1 DEF At
<1>4. CASE l \in 1 .. Len(pending'[x]) /\ pending'[x][l] = Ev(kind, n)
  <2>1. pending'[x][l].kind = kind
    BY <1>4 DEF Ev
  <2>2. Read(w) + l \in 1 .. Len(pending[x]) /\ pending'[x][l] = pending[x][Read(w) + l]
    BY <1>4, <2>1, CompleteStreams DEF Marks
  <2>3. l > 0 /\ was = Read(w) + l
    <3>1. l > 0 /\ l + Read(w) = Read(w) + l
      BY <1>1, <1>4
    <3> QED
      BY <1>2, <3>1
  <2>4. was \in Int /\ ~(l < -old)
    BY <1>1, <2>3
  <2>5. At(x, kind, n, was)
    BY <1>4, <2>2, <2>3 DEF At
  <2> QED
    BY <2>4, <2>5
<1>5. CASE -l \in 1 .. Len(history'[x]) /\ history'[x][-l].event = Ev(kind, n)
  <2>1. CASE outcome = "discard"
    <3>1. history' = history
      BY <2>1 DEF CompleteWorkflowTask
    <3>2. l < 0 /\ ~(l < -old)
      BY <1>1, <1>5, <3>1
    <3> QED
      BY <1>1, <1>5, <1>2, <3>1, <3>2 DEF At
  <2>2. CASE outcome # "discard"
    <3>1. history'[x] = history[x] \o Executed(w)
      BY <2>2 DEF CompleteWorkflowTask, TypeOK
    <3>2. /\ DOMAIN history'[x] = 1 .. old + Len(worker[w].events)
          /\ \A i \in 1 .. old : history'[x][i] = history[x][i]
          /\ \A i \in 1 .. Len(worker[w].events) :
               history'[x][old + i].event = worker[w].events[i]
      BY <3>1, HistoryGrows
    <3>3. /\ Len(worker[w].events) = Read(w) /\ Read(w) <= Len(pending[x])
          /\ \A i \in 1 .. Read(w) : pending[x][i] = worker[w].events[i]
      BY <2>2, CompletesCurrent
    <3>4. DOMAIN history'[x] = 1 .. Len(history'[x])
      <4>1. history'[x] \in Seq([seq : Nat, event : Event])
        BY DEF TypeOK
      <4> QED
        BY <4>1
    <3>5. -l \in 1 .. old + Read(w)
      BY <1>5, <3>2, <3>3, <3>4
    <3>6. /\ ~(l > 0)
          /\ l < -old => -l - old \in 1 .. Read(w) /\ old + (-l - old) = -l
          /\ ~(l < -old) => -l \in 1 .. old
      BY <1>1, <3>5, Shifted
    <3>7. CASE l < -old
      <4>1. -l - old \in 1 .. Read(w) /\ old + (-l - old) = -l /\ was = -l - old
        BY <1>2, <3>7, <3>6
      <4>2. pending[x][was] = Ev(kind, n)
        <5>1. was \in 1 .. Read(w) /\ old + was = -l
          BY <4>1
        <5>2. history'[x][old + was].event = worker[w].events[was]
          BY <3>2, <3>3, <5>1
        <5> QED
          BY <1>5, <3>3, <5>1, <5>2
      <4>3. was \in 1 .. Len(pending[x]) /\ was \in 1 .. Read(w) /\ was \in Int
        <5>1. was \in 1 .. Read(w)
          BY <3>7, <3>6, <4>1
        <5>2. Read(w) <= Len(pending[x])
          BY <3>3
        <5> QED
          BY <1>1, <5>1, <5>2
      <4>4. At(x, kind, n, was)
        BY <4>2, <4>3 DEF At
      <4> QED
        BY <4>3, <4>4
    <3>8. CASE ~(l < -old)
      <4>1. -l \in 1 .. old /\ was = l
        BY <1>2, <3>8, <3>6
      <4>2. At(x, kind, n, was)
        BY <1>5, <3>2, <4>1 DEF At, old
      <4> QED
        BY <3>8, <4>1, <4>2
    <3> QED
      BY <3>7, <3>8
  <2> QED
    BY <2>1, <2>2
<1> QED
  BY <1>3, <1>4, <1>5 DEF At

\* Different places come from different places.
LEMMA Injective ==
    ASSUME NEW l \in Int, NEW m \in Int, NEW o \in Nat, NEW r \in Nat, NEW p \in Int,
           l > 0 => p = l + r,
           ~(l > 0) /\ l < -o => p = -l - o /\ p \in 1 .. r,
           ~(l > 0) /\ ~(l < -o) => p = l,
           m > 0 => p = m + r,
           ~(m > 0) /\ m < -o => p = -m - o /\ p \in 1 .. r,
           ~(m > 0) /\ ~(m < -o) => p = m
    PROVE  l = m
OBVIOUS

LEMMA WasDifferent ==
    ASSUME NEW l \in Int, NEW m \in Int, NEW w, NEW x, Was(w, x, l) = Was(w, x, m),
           Was(w, x, l) \in Int, Len(history[x]) \in Nat, Read(w) \in Nat,
           l < -Len(history[x]) => Was(w, x, l) \in 1 .. Read(w),
           m < -Len(history[x]) => Was(w, x, m) \in 1 .. Read(w)
    PROVE  l = m
<1> DEFINE o == Len(history[x])
           p == Was(w, x, l)
<1>1. /\ l > 0 => p = l + Read(w)
      /\ ~(l > 0) /\ l < -o => p = -l - o
      /\ ~(l > 0) /\ ~(l < -o) => p = l
  BY DEF Was
<1>2. p = Was(w, x, m)
  OBVIOUS
<1>3. /\ m > 0 => p = m + Read(w)
      /\ ~(m > 0) /\ m < -o => p = -m - o
      /\ ~(m > 0) /\ ~(m < -o) => p = m
  BY <1>2 DEF Was
<1>4. p \in Int /\ o \in Nat /\ Read(w) \in Nat
      /\ (l < -o => p \in 1 .. Read(w)) /\ (m < -o => p \in 1 .. Read(w))
  BY <1>2
<1> HIDE DEF o, p
<1> QED
  BY <1>1, <1>3, <1>4, Injective

LEMMA OnceComplete ==
    ASSUME TypeOK, TypeOK', Tasked, FenceInv, SnapInv, OnceInv, NEW w \in Workers,
           NEW outcome, NEW y \in Exec \cup {NoExec}, NEW t,
           CompleteWorkflowTask(w, outcome, y, t), NEW x \in Exec, x = worker[w].task[1]
    PROVE  OnceInv'
<1>1. /\ steps \in Nat /\ steps' \in Nat /\ steps <= steps'
      /\ outcome \in {"activity", "timer"} => steps' = steps + 1
  <2>1. steps' = IF outcome \in {"activity", "timer", "sub"} THEN steps + 1 ELSE steps
    BY DEF CompleteWorkflowTask
  <2>2. steps \in Nat
    BY RedisAssumption DEF TypeOK
  <2> QED
    BY <2>1, <2>2
<1>2. OnePlace'
  <2>1. ASSUME NEW z \in Exec \ {x}, NEW kind \in Marks, NEW n \in 1 .. MaxSteps,
               NEW l \in Int, At(z, kind, n, l)'
        PROVE  At(z, kind, n, l)
    <3>1. Extended(z, {"start", "child"}) /\ kind \notin {"start", "child"}
      BY CompleteStreams DEF Marks
    <3>2. history'[z] = history[z]
      BY DEF CompleteWorkflowTask, TypeOK
    <3>3. Source(z, kind, n)' => Source(z, kind, n)
      BY CompletionSources
    <3> QED
      BY <2>1, <3>1, <3>2, <3>3, AtExtended
  <2>2. ASSUME NEW kind \in Marks, NEW n \in 1 .. MaxSteps, Scheduled(outcome, kind, n),
               NEW l \in Int, At(x, kind, n, l)'
        PROVE  l = 0 /\ n <= steps'
    <3>1. CASE l # 0
      <4>1. ~Comes(outcome, kind, n, l)
        BY <3>1 DEF Comes
      <4>2. Was(w, x, l) \in Int /\ At(x, kind, n, Was(w, x, l))
        BY <2>2, <4>1, AtCompleted
      <4>3. n <= steps
        BY <4>2 DEF OnceInv, OnePlace
      <4> QED
        BY <1>1, <2>2, <4>3 DEF Scheduled
    <3>2. n <= steps'
      BY <1>1, <2>2 DEF Scheduled
    <3> QED
      BY <3>1, <3>2
  <2>3. ASSUME NEW kind \in Marks, NEW n \in 1 .. MaxSteps, ~Scheduled(outcome, kind, n),
               NEW l \in Int, NEW m \in Int, At(x, kind, n, l)', At(x, kind, n, m)'
        PROVE  l = m /\ n <= steps'
    <3>1. ~Comes(outcome, kind, n, l) /\ ~Comes(outcome, kind, n, m)
      BY <2>3 DEF Comes
    <3>2. /\ Was(w, x, l) \in Int /\ At(x, kind, n, Was(w, x, l))
          /\ l < -Len(history[x]) => Was(w, x, l) \in 1 .. Read(w)
      BY <2>3, <3>1, AtCompleted
    <3>3. /\ Was(w, x, m) \in Int /\ At(x, kind, n, Was(w, x, m))
          /\ m < -Len(history[x]) => Was(w, x, m) \in 1 .. Read(w)
      BY <2>3, <3>1, AtCompleted
    <3>4. Was(w, x, l) = Was(w, x, m) /\ n <= steps
      BY <3>2, <3>3 DEF OnceInv, OnePlace
    <3>5. l = m
      BY <3>2, <3>3, <3>4, HistoryType, ReadType, WasDifferent
    <3>6. n \in Nat
      OBVIOUS
    <3> QED
      BY <1>1, <3>4, <3>5, <3>6
  <2>4. ASSUME NEW z \in Exec, NEW kind \in Marks, NEW n \in 1 .. MaxSteps
        PROVE  \/ \A l \in Int : At(z, kind, n, l)' => At(z, kind, n, l)
               \/ \A l, m \in Int : At(z, kind, n, l)' /\ At(z, kind, n, m)' => l = m /\ n <= steps'
    <3>1. CASE z # x
      BY <2>1, <3>1
    <3>2. CASE z = x /\ Scheduled(outcome, kind, n)
      BY <2>2, <3>2
    <3>3. CASE z = x /\ ~Scheduled(outcome, kind, n)
      BY <2>3, <3>3
    <3> QED
      BY <3>1, <3>2, <3>3
  <2> QED
    BY <1>1, <2>4, OnePlaceKept DEF OnceInv
<1>3. OneEntry'
  <2>1. ASSUME NEW a \in activities PROVE a.n <= steps
    <3>1. a.exec \in Exec /\ a.n \in 1 .. MaxSteps
      BY DEF TypeOK
    <3>2. At(a.exec, "result", a.n, 0) /\ 0 \in Int
      BY DEF At, Source
    <3> QED
      BY <3>1, <3>2 DEF OnceInv, OnePlace, Marks
  <2>2. activities' = activities \cup
          (IF outcome = "activity"
           THEN {[exec |-> x, n |-> steps + 1, held |-> FALSE, idle |-> FALSE]} ELSE {})
    BY DEF CompleteWorkflowTask
  <2>3. \A a \in activities : a.n # steps + 1
    BY <1>1, <2>1
  <2> DEFINE new == [exec |-> x, n |-> steps + 1, held |-> FALSE, idle |-> FALSE]
  <2>4. new.n = steps + 1
    OBVIOUS
  <2> HIDE DEF new
  <2>5. \A a \in activities' : a \in activities \/ a = new
    BY <2>2 DEF new
  <2> QED
    BY <2>3, <2>4, <2>5 DEF OnceInv, OneEntry
<1>4. ClientKinds'
  BY DEF CompleteWorkflowTask, OnceInv, ClientKinds
<1> QED
  BY <1>2, <1>3, <1>4 DEF OnceInv

\* Steps by which no event arrives.
LEMMA OnceQuiet ==
    ASSUME TypeOK, TypeOK', OnePlace, steps <= steps', NEW kinds, kinds \cap Marks = {},
           \A z \in Exec : Extended(z, kinds) /\ history'[z] = history[z],
           \A z \in Exec, kind \in Marks, n \in 1 .. MaxSteps :
             Source(z, kind, n)' => Source(z, kind, n)
    PROVE  OnePlace'
<1>1. ASSUME NEW z \in Exec, NEW kind \in Marks, NEW n \in 1 .. MaxSteps, NEW l \in Int,
             At(z, kind, n, l)'
      PROVE  At(z, kind, n, l)
  <2>1. kind \in Marks \ kinds
    OBVIOUS
  <2> QED
    BY <1>1, <2>1, AtExtended
<1> QED
  BY <1>1, OnePlaceKept

LEMMA OnceUntouched ==
    ASSUME TypeOK, TypeOK', OnceInv, steps <= steps', UNCHANGED <<pending, history, futures>>,
           UNCHANGED client \/ ClientKinds', OneEntry',
           \A a \in activities' : \E b \in activities : b.exec = a.exec /\ b.n = a.n
    PROVE  OnceInv'
<1>1. \A z \in Exec : Extended(z, {}) /\ history'[z] = history[z]
  BY SameExtended
<1>2. ASSUME NEW z \in Exec, NEW kind \in Marks, NEW n \in 1 .. MaxSteps,
             Source(z, kind, n)'
      PROVE  Source(z, kind, n)
  BY <1>2 DEF Source
<1>3. OnePlace'
  BY <1>1, <1>2, OnceQuiet DEF OnceInv
<1> QED
  BY <1>3 DEF OnceInv, ClientKinds

LEMMA OnceSame ==
    ASSUME TypeOK, TypeOK', OnceInv,
           UNCHANGED <<pending, history, futures, activities, steps, client>>
    PROVE  OnceInv'
<1>1. steps \in Int
  BY RedisAssumption DEF TypeOK
<1>2. steps <= steps'
  BY <1>1
<1> QED
  BY <1>2, OnceUntouched DEF OnceInv, OneEntry

\* An entry that is claimed, extended or seen to be idle is the same entry.
LEMMA OnceClaim ==
    ASSUME TypeOK, TypeOK', OnceInv, UNCHANGED <<pending, history, futures, steps, client>>,
           NEW a \in activities, NEW b, b.exec = a.exec, b.n = a.n,
           activities' = (activities \ {a}) \cup {b}
    PROVE  OnceInv'
<1>1. \A c \in activities' : \E d \in activities : d.exec = c.exec /\ d.n = c.n
  OBVIOUS
<1>2. OneEntry'
  BY DEF OnceInv, OneEntry
<1>3. steps \in Int
  BY RedisAssumption DEF TypeOK
<1>4. steps <= steps'
  BY <1>3
<1> QED
  BY <1>1, <1>2, <1>4, OnceUntouched

\* A signal, a cancellation or the start of an execution is written.
LEMMA OnceWrite ==
    ASSUME TypeOK, TypeOK', OnceInv, UNCHANGED <<history, futures, activities, steps>>,
           NEW x \in Exec, NEW ev \in Event, ev.kind \notin Marks,
           pending' = [pending EXCEPT ![x] = Append(@, ev)]
    PROVE  OnePlace' /\ OneEntry'
<1>1. \A z \in Exec : Extended(z, {ev.kind}) /\ history'[z] = history[z]
  BY StreamsAppended
<1>2. steps \in Int
  BY RedisAssumption DEF TypeOK
<1>3. steps <= steps' /\ {ev.kind} \cap Marks = {}
  BY <1>2
<1>4. \A z \in Exec, kind \in Marks, n \in 1 .. MaxSteps :
        Source(z, kind, n)' => Source(z, kind, n)
  BY DEF Source
<1>5. OnePlace'
  BY <1>1, <1>3, <1>4, OnceQuiet DEF OnceInv
<1> QED
  BY <1>5 DEF OnceInv, OneEntry

\* The result of an activity or a timer is written and its source deleted.
LEMMA OnceArrives ==
    ASSUME TypeOK, TypeOK', OnceInv, UNCHANGED <<history, steps, client>>,
           NEW x \in Exec, NEW kind \in Marks, NEW n \in 1 .. MaxSteps,
           Source(x, kind, n), ~Source(x, kind, n)',
           pending' = [pending EXCEPT ![x] = Append(@, Ev(kind, n))],
           activities' \subseteq activities, futures' \subseteq futures
    PROVE  OnceInv'
<1>1. Ev(kind, n) \in Event /\ Ev(kind, n).kind = kind /\ Ev(kind, n).n = n
  <2>1. kind \in EventKinds /\ n \in 0 .. MaxSteps
    BY RedisAssumption DEF Marks, EventKinds
  <2> QED
    BY <2>1, EvType DEF Ev
<1>2. /\ pending'[x] = Append(pending[x], Ev(kind, n))
      /\ \A z \in Exec \ {x} : pending'[z] = pending[z]
      /\ \A z \in Exec : history'[z] = history[z]
  BY DEF TypeOK
<1>3. \A z, k, m : Source(z, k, m)' => Source(z, k, m)
  BY DEF Source
<1>4. steps \in Int /\ steps <= steps'
  <2>1. steps \in Int
    BY RedisAssumption DEF TypeOK
  <2> QED
    BY <2>1
<1>5. ASSUME NEW z \in Exec, NEW k \in Marks, NEW m \in 1 .. MaxSteps
      PROVE  \/ \A l \in Int : At(z, k, m, l)' => At(z, k, m, l)
             \/ \A l, j \in Int : At(z, k, m, l)' /\ At(z, k, m, j)' => l = j /\ m <= steps'
  <2>1. CASE z # x
    <3>1. Extended(z, {})
      BY <1>2, <2>1, SameExtended
    <3>2. k \in Marks \ {}
      OBVIOUS
    <3> QED
      BY <1>2, <1>3, <3>1, <3>2, AtExtended
  <2>2. CASE z = x /\ k = kind /\ m = n
    <3>1. \A l \in Int : At(x, kind, n, l)' => l = Len(pending[x]) + 1 /\ n <= steps
      BY <1>2, AtArrives DEF OnceInv
    <3> QED
      BY <2>2, <3>1
  <2>3. CASE z = x /\ ~(k = kind /\ m = n)
    <3>1. Ev(k, m) # Ev(kind, n)
      BY <1>1, <2>3 DEF Ev
    <3> QED
      BY <1>1, <1>2, <1>3, <2>3, <3>1, AtOther
  <2> QED
    BY <2>1, <2>2, <2>3
<1>6. OnePlace'
  BY <1>4, <1>5, OnePlaceKept DEF OnceInv
<1> QED
  BY <1>6 DEF OnceInv, OneEntry, ClientKinds

LEMMA OnceRemove ==
    ASSUME TypeOK, TypeOK', OnceInv, NEW x \in Exec, RemoveWorkflowInstance(x) \/ Expires(x)
    PROVE  OnceInv'
<1>1. /\ UNCHANGED <<futures, activities, client, steps>>
      /\ pending'[x] = <<>> /\ history'[x] = <<>>
      /\ \A z \in Exec \ {x} : pending'[z] = pending[z] /\ history'[z] = history[z]
  BY DEF RemoveWorkflowInstance, Expires, TypeOK, tasks
<1>2. steps \in Int /\ steps <= steps'
  <2>1. steps \in Int
    BY RedisAssumption DEF TypeOK
  <2> QED
    BY <1>1, <2>1
<1>3. ASSUME NEW z \in Exec, NEW kind \in Marks, NEW n \in 1 .. MaxSteps, NEW l \in Int,
             At(z, kind, n, l)'
      PROVE  At(z, kind, n, l)
  <2>1. l \notin 1 .. Len(<<>>) /\ -l \notin 1 .. Len(<<>>)
    OBVIOUS
  <2>2. CASE z = x
    BY <1>1, <1>3, <2>1, <2>2 DEF At, Source
  <2>3. CASE z # x
    BY <1>1, <1>3, <2>3 DEF At, Source
  <2> QED
    BY <2>2, <2>3
<1>4. OnePlace'
  BY <1>2, <1>3, OnePlaceKept DEF OnceInv
<1> QED
  BY <1>1, <1>4 DEF OnceInv, OneEntry, ClientKinds

LEMMA OnceResult ==
    ASSUME TypeOK, TypeOK', OnceInv, NEW w \in Workers, CompleteActivityTask(w)
    PROVE  OnceInv'
<1>1. PICK x \in Exec, n \in 1 .. MaxSteps : x = holds[w][1] /\ n = holds[w][2]
  BY ActivityEvents DEF CompleteActivityTask
<1>2. UNCHANGED <<history, futures, steps, client>>
  BY DEF CompleteActivityTask
<1>3. CASE StillQueued(w)
  <2>1. Source(x, "result", n)
    BY <1>1, <1>3 DEF StillQueued, Holds, Source
  <2>2. activities' = {a \in activities : ~Holds(w, a)}
    BY <1>3 DEF CompleteActivityTask
  <2>3. ~Source(x, "result", n)'
    <3>1. holds[w] # NoTask
      BY DEF CompleteActivityTask
    <3> QED
      BY <1>1, <2>2, <3>1 DEF Holds, Source
  <2>4. pending' = [pending EXCEPT ![x] = Append(@, Ev("result", n))]
    BY <1>1, <1>3 DEF CompleteActivityTask
  <2> QED
    BY <1>2, <2>1, <2>2, <2>3, <2>4, OnceArrives DEF Marks
<1>4. CASE ~StillQueued(w)
  <2>1. UNCHANGED <<activities, pending>>
    BY <1>4 DEF CompleteActivityTask
  <2> QED
    BY <1>2, <2>1, OnceSame
<1> QED
  BY <1>3, <1>4

LEMMA OnceFuture ==
    ASSUME TypeOK, TypeOK', OnceInv, NEW f \in futures, ScheduleFutureEvent(f)
    PROVE  OnceInv'
<1>1. PICK x \in Exec, n \in 1 .. MaxSteps : f = <<x, n>>
  BY FutureEvents
<1>2. /\ UNCHANGED <<history, activities, steps, client>>
      /\ futures' = futures \ {<<x, n>>}
      /\ pending' = [pending EXCEPT ![x] = Append(@, Ev("timer", n))]
  BY <1>1 DEF ScheduleFutureEvent
<1>3. Source(x, "timer", n) /\ ~Source(x, "timer", n)'
  BY <1>1, <1>2 DEF Source
<1> QED
  BY <1>2, <1>3, OnceArrives DEF Marks

LEMMA OnceStep ==
    ASSUME TypeOK, TypeOK', Tasked, FenceInv, SnapInv, OnceInv, [Next]_vars
    PROVE  OnceInv'
<1>1. ASSUME NEW x \in Exec, CreateWorkflowInstance(x) PROVE OnceInv'
  <2>1. Ev("start", 0) \in Event /\ Ev("start", 0).kind \notin Marks
    BY RedisAssumption, EvType DEF EventKinds, Ev, Marks
  <2>2. /\ UNCHANGED <<history, futures, activities, steps, client>>
        /\ pending' = [pending EXCEPT ![x] = Append(@, Ev("start", 0))]
    BY <1>1 DEF CreateWorkflowInstance
  <2> QED
    BY <2>1, <2>2, OnceWrite DEF OnceInv, ClientKinds
<1>2. ASSUME NEW x \in Exec, SignalReads(x) \/ CancelReads(x) PROVE OnceInv'
  <2>1. /\ UNCHANGED <<pending, history, futures, activities>> /\ steps' = steps + 1
        /\ client'[2].kind \in {"signal", "cancel"}
    BY <1>2 DEF SignalReads, CancelReads, instances, Ev
  <2>2. steps <= steps'
    BY <2>1, RedisAssumption DEF TypeOK
  <2> QED
    BY <2>1, <2>2, OnceUntouched DEF OnceInv, OneEntry, ClientKinds
<1>3. ASSUME NEW x \in Exec, RemoveWorkflowInstance(x) \/ Expires(x) PROVE OnceInv'
  BY <1>3, OnceRemove
<1>4. CASE ClientWrites
  <2>1. /\ client # NoTask /\ client' = NoTask /\ UNCHANGED <<history, futures, activities, steps>>
        /\ pending' = [pending EXCEPT ![client[1]] = Append(@, client[2])]
    BY <1>4 DEF ClientWrites
  <2>2. client[1] \in Exec /\ client[2] \in Event /\ client[2].kind \notin Marks
    BY <2>1 DEF TypeOK, OnceInv, ClientKinds, Marks
  <2> QED
    BY <2>1, <2>2, OnceWrite DEF OnceInv, ClientKinds
<1>5. ASSUME NEW f \in futures, ScheduleFutureEvent(f) PROVE OnceInv'
  BY <1>5, OnceFuture
<1>6. ASSUME NEW e \in stream, LockExpires(e) \/ \E w \in Workers : Dequeue(w, e)
      PROVE  OnceInv'
  BY <1>6, OnceSame DEF LockExpires, Dequeue, instances
<1>7. ASSUME NEW w \in Workers,
             \/ ReadInstance(w) \/ ReadPending(w) \/ Fail(w) \/ ExtendWorkflowTask(w)
             \/ ReadActivityInstance(w)
      PROVE  OnceInv'
  BY <1>7, OnceSame DEF ReadInstance, ReadPending, Fail, ExtendWorkflowTask,
                        ReadActivityInstance, instances
<1>8. ASSUME NEW w \in Workers, NEW outcome \in Commands \cup {"discard"},
             NEW y \in Exec \cup {NoExec}, NEW t \in {0} \cup {f[2] : f \in futures},
             CompleteWorkflowTask(w, outcome, y, t)
      PROVE  OnceInv'
  <2>1. PICK x \in Exec : x = worker[w].task[1]
    BY <1>8, CompleteReads
  <2> QED
    BY <1>8, <2>1, OnceComplete
<1>9. ASSUME NEW w \in Workers, CompleteActivityTask(w) PROVE OnceInv'
  BY <1>9, OnceResult
<1>10. ASSUME NEW w \in Workers, ExtendActivityTask(w) PROVE OnceInv'
  <2>1. PICK a \in activities : activities' = (activities \ {a}) \cup {[a EXCEPT !.idle = FALSE]}
    BY <1>10 DEF ExtendActivityTask
  <2>2. [a EXCEPT !.idle = FALSE].exec = a.exec /\ [a EXCEPT !.idle = FALSE].n = a.n
    BY DEF TypeOK
  <2> QED
    BY <1>10, <2>1, <2>2, OnceClaim DEF ExtendActivityTask, instances
<1>11. ASSUME NEW w \in Workers, NEW a \in activities, DequeueActivity(w, a) PROVE OnceInv'
  <2> DEFINE b == [a EXCEPT !.held = TRUE, !.idle = FALSE]
  <2>1. b.exec = a.exec /\ b.n = a.n
    BY DEF TypeOK
  <2> HIDE DEF b
  <2> QED
    BY <1>11, <2>1, OnceClaim DEF DequeueActivity, instances, b
<1>12. ASSUME NEW a \in activities, ActivityLockExpires(a) PROVE OnceInv'
  <2>1. [a EXCEPT !.idle = TRUE].exec = a.exec /\ [a EXCEPT !.idle = TRUE].n = a.n
    BY DEF TypeOK
  <2> QED
    BY <1>12, <2>1, OnceClaim DEF ActivityLockExpires, instances
<1>13. CASE UNCHANGED vars
  BY <1>13, OnceSame DEF vars
<1> QED
  BY <1>1, <1>2, <1>3, <1>4, <1>5, <1>6, <1>7, <1>8, <1>9, <1>10, <1>11, <1>12, <1>13
  DEF Next

LEMMA AtMostOne ==
    ASSUME NEW S, \A a, b \in S : a = b
    PROVE  Cardinality(S) \in {0, 1} /\ (Cardinality(S) = 1 => S # {})
<1>1. CASE S = {}
  BY <1>1, FS_EmptySet
<1>2. CASE S # {}
  <2>1. PICK a \in S : S = {a}
    BY <1>2
  <2> QED
    BY <1>2, <2>1, FS_Singleton
<1> QED
  BY <1>1, <1>2

LEMMA OneOccurrence ==
    ASSUME TypeOK, OnePlace, NEW x \in Exec, NEW kind \in Marks, NEW n \in 1 .. MaxSteps,
           NEW S, \A a, b \in S : a = b, S # {} => Source(x, kind, n)
    PROVE  Occurrences(x, Ev(kind, n)) + Cardinality(S) <= 1
<1> DEFINE P == {i \in DOMAIN pending[x] : pending[x][i] = Ev(kind, n)}
           H == {i \in DOMAIN history[x] : history[x][i].event = Ev(kind, n)}
<1>1. \A l, m \in Int : At(x, kind, n, l) /\ At(x, kind, n, m) => l = m
  BY DEF OnePlace
<1>2. ASSUME NEW i \in P PROVE i \in Int /\ i > 0 /\ At(x, kind, n, i)
  BY PendingType DEF At
<1>3. ASSUME NEW i \in H PROVE i \in Int /\ i > 0 /\ -i \in Int /\ At(x, kind, n, -i)
  <2>1. i \in 1 .. Len(history[x]) /\ Len(history[x]) \in Nat
    BY HistoryType
  <2>2. i \in Int /\ i > 0 /\ -i \in Int /\ -(-i) = i
    BY <2>1
  <2> QED
    BY <1>3, <2>1, <2>2 DEF At
<1>4. S # {} => At(x, kind, n, 0)
  BY DEF At
<1> HIDE DEF P, H
<1>5. \A i, j \in P : i = j
  BY <1>1, <1>2
<1>6. \A i, j \in H : i = j
  <2> SUFFICES ASSUME NEW i \in H, NEW j \in H PROVE i = j
    OBVIOUS
  <2>1. -i = -j
    BY <1>1, <1>3
  <2> QED
    BY <1>3, <2>1
<1>7. P = {} \/ H = {}
  <2> SUFFICES ASSUME NEW i \in P, NEW j \in H PROVE FALSE
    OBVIOUS
  <2>1. i = -j
    BY <1>1, <1>2, <1>3
  <2> QED
    BY <1>2, <1>3, <2>1
<1>8. S = {} \/ (P = {} /\ H = {})
  <2> SUFFICES ASSUME At(x, kind, n, 0) PROVE P = {} /\ H = {}
    BY <1>4
  <2>1. ASSUME NEW i \in P PROVE FALSE
    BY <1>1, <1>2, <2>1
  <2>2. ASSUME NEW j \in H PROVE FALSE
    <3>1. -j = 0
      BY <1>1, <1>3, <2>2
    <3> QED
      BY <1>3, <3>1
  <2> QED
    BY <2>1, <2>2
<1>9. /\ Cardinality(P) \in {0, 1} /\ (Cardinality(P) = 1 => P # {})
      /\ Cardinality(H) \in {0, 1} /\ (Cardinality(H) = 1 => H # {})
      /\ Cardinality(S) \in {0, 1} /\ (Cardinality(S) = 1 => S # {})
  BY <1>5, <1>6, AtMostOne
<1>10. Occurrences(x, Ev(kind, n)) = Cardinality(P) + Cardinality(H)
  BY DEF Occurrences, P, H
<1> QED
  BY <1>7, <1>8, <1>9, <1>10

(***************************************************************************)
(* The result of an activity arrives once in its execution, and never      *)
(* while its task is queued, however often the task was claimed, executed  *)
(* and completed (complete_activity_task.lua); a timer fires once          *)
(* (schedule_future_events.lua).  What several workers do with the same    *)
(* workflow task neither repeats nor loses them.                           *)
(***************************************************************************)
THEOREM ResultsArriveOnce == Spec => []ResultsOnce
<1>1. OnceInv /\ TypeOK => ResultsOnce
  <2> SUFFICES ASSUME OnceInv, TypeOK, NEW x \in Exec, NEW n \in 1 .. MaxSteps
               PROVE  /\ Occurrences(x, Ev("result", n))
                           + Cardinality({a \in activities : a.exec = x /\ a.n = n}) <= 1
                      /\ Occurrences(x, Ev("timer", n))
                           + Cardinality({f \in futures : f = <<x, n>>}) <= 1
    BY DEF ResultsOnce
  <2>1. Occurrences(x, Ev("result", n))
          + Cardinality({a \in activities : a.exec = x /\ a.n = n}) <= 1
    <3> DEFINE S == {a \in activities : a.exec = x /\ a.n = n}
    <3>1. /\ \A a, b \in S : a = b
          /\ S # {} => Source(x, "result", n)
      BY DEF OnceInv, OneEntry, Source
    <3> HIDE DEF S
    <3>2. Occurrences(x, Ev("result", n)) + Cardinality(S) <= 1
      BY <3>1, OneOccurrence DEF OnceInv, Marks
    <3> QED
      BY <3>2 DEF S
  <2>2. Occurrences(x, Ev("timer", n)) + Cardinality({f \in futures : f = <<x, n>>}) <= 1
    <3> DEFINE S == {f \in futures : f = <<x, n>>}
    <3>1. /\ \A a, b \in S : a = b
          /\ S # {} => Source(x, "timer", n)
      BY DEF Source
    <3> HIDE DEF S
    <3>2. Occurrences(x, Ev("timer", n)) + Cardinality(S) <= 1
      BY <3>1, OneOccurrence DEF OnceInv, Marks
    <3> QED
      BY <3>2 DEF S
  <2> QED
    BY <2>1, <2>2
<1>2. /\ TypeOK /\ Tasked /\ FenceInv /\ SnapInv /\ OnceInv /\ [Next]_vars
      /\ (TypeOK /\ Tasked /\ FenceInv /\ SnapInv)'
      => OnceInv'
  BY OnceStep
<1> QED
  BY <1>1, <1>2, OnceInit, SnapHolds, PTL DEF Spec
=============================================================================
