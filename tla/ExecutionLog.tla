---------------------------- MODULE ExecutionLog ----------------------------
(***************************************************************************)
(* What a task backend promises about each execution of a workflow: events *)
(* wait in its inbox until a checkpoint moves some of them to its log, in  *)
(* one step and each at most once; once closed the log stays as it is, and *)
(* nothing reopens it.  Who executes the events, how often, and how        *)
(* workers exclude each other is left to the backend.  SqlBackend          *)
(* implements it.                                                          *)
(***************************************************************************)
EXTENDS Sequences

CONSTANTS
    Executions,
    Timers       \* events that may be withdrawn before they are executed

VARIABLES
    status,      \* "new", "open", "closed" or "gone", of each execution
    inbox,       \* events delivered and not yet executed
    log          \* the events that were executed, by checkpoint

vars == <<status, inbox, log>>

Init ==
    /\ status = [x \in Executions |-> "new"]
    /\ inbox = [x \in Executions |-> {}]
    /\ log = [x \in Executions |-> <<>>]

Logged(x) == UNION {log[x][i] : i \in DOMAIN log[x]}

\* Inboxes but x's only grow.
OthersReceive(x) == \A y \in Executions \ {x} : inbox[y] \subseteq inbox'[y]

\* At most one execution besides x comes into being.
OthersOpen(x) ==
    \E new \in SUBSET {y \in Executions \ {x} : status[y] = "new"} :
        /\ \A y, z \in new : y = z
        /\ \A y \in Executions \ {x} : status'[y] = IF y \in new THEN "open" ELSE status[y]

\* A client creates an execution, or sends an event; an activity returns.
Receive ==
    /\ \A x \in Executions : inbox[x] \subseteq inbox'[x]
    /\ log' = log
    /\ \/ status' = status
       \/ \E x \in Executions : /\ status[x] = "new"
                                /\ status' = [status EXCEPT ![x] = "open"]

\* A task of x ends: the events E are executed.
Record(x, E) ==
    /\ status[x] = "open"
    /\ E \subseteq inbox[x] /\ E \cap Logged(x) = {}
    /\ log' = [log EXCEPT ![x] = Append(@, E)]
    /\ inbox'[x] \cap E = {}
    /\ \A e \in inbox[x] \ inbox'[x] : e \in E \/ e \in Timers
    /\ OthersReceive(x) /\ OthersOpen(x)
    /\ status'[x] \in {"open", "closed"}

\* The same, and x is removed at once.
RecordAndRemove(x) ==
    /\ status[x] = "open"
    /\ log' = [log EXCEPT ![x] = <<>>]
    /\ OthersReceive(x) /\ OthersOpen(x)
    /\ status'[x] = "gone"

\* Closed executions are removed; what was delivered to them may stay.
Remove(S) ==
    /\ \A x \in S : status[x] = "closed"
    /\ status' = [x \in Executions |-> IF x \in S THEN "gone" ELSE status[x]]
    /\ \A x \in Executions : log'[x] = log[x] \/ (x \in S /\ log'[x] = <<>>)
    /\ inbox' = inbox

Next ==
    \/ Receive
    \/ \E x \in Executions :
         \/ \E i \in DOMAIN log'[x] : Record(x, log'[x][i])
         \/ RecordAndRemove(x)
    \/ \E S \in SUBSET Executions : Remove(S)

Spec == Init /\ [][Next]_vars
=============================================================================
