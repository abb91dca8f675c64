---------------------------- MODULE FifoChannels ----------------------------
(***************************************************************************)
(* What the channels of a workflow promise their users: a value that a     *)
(* channel accepts is received once, in the order of acceptance, and a     *)
(* closed channel accepts nothing more.  Coroutines implements it.         *)
(* Steps are stated as relations between the old and the new queues.       *)
(***************************************************************************)
EXTENDS Naturals, Sequences, SequencesExt

CONSTANTS Chan,  \* channels
          Value  \* values, one for each call that sends

VARIABLES
    queue,      \* accepted and not yet received
    delivered,  \* received, in order
    shut        \* closed channels

vars == <<queue, delivered, shut>>

Init ==
    /\ queue = [c \in Chan |-> <<>>]
    /\ delivered = [c \in Chan |-> <<>>]
    /\ shut = {}

\* No value is ever accepted twice.
Once(c) == LET all == delivered'[c] \o queue'[c] IN
           /\ IsInjective(all)
           /\ ToSet(all) \subseteq Value

\* Nothing changes for the other channels.
Only(c) == \A d \in Chan \ {c} : queue'[d] = queue[d] /\ delivered'[d] = delivered[d]

\* Values are accepted, buffered or offered by a blocked sender.
Offer(c) ==
    /\ c \notin shut
    /\ IsStrictPrefix(queue[c], queue'[c]) /\ Once(c)
    /\ delivered'[c] = delivered[c] /\ Only(c) /\ UNCHANGED shut

\* A value is accepted and goes straight to a waiting receiver.
Pass(c) ==
    /\ c \notin shut /\ queue[c] = <<>> /\ queue'[c] = <<>>
    /\ Len(delivered'[c]) = Len(delivered[c]) + 1
    /\ IsStrictPrefix(delivered[c], delivered'[c]) /\ Once(c)
    /\ Only(c) /\ UNCHANGED shut

Deliver(c) ==
    /\ queue[c] # <<>> /\ queue'[c] = Tail(queue[c])
    /\ delivered'[c] = Append(delivered[c], Head(queue[c]))
    /\ Only(c) /\ UNCHANGED shut

\* Several at once: the done channels of a canceled context and of its children.
Close ==
    /\ shut \subseteq shut' /\ shut' \subseteq Chan
    /\ UNCHANGED <<queue, delivered>>

Next == Close \/ \E c \in Chan : Offer(c) \/ Pass(c) \/ Deliver(c)

Spec == Init /\ [][Next]_vars
=============================================================================
