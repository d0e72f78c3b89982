---------------------------- MODULE MessageQueue ----------------------------
(***************************************************************************)
(* What poll() promises a sketch (src/mads/mads_agent.hpp:142-150): the    *)
(* messages of the SUB link come in order, each at most once and each      *)
(* whole; one that is malformed or of another format is dropped, alone.    *)
(*                                                                         *)
(* The promise holds while the connection is not disturbed.  After that    *)
(* messages may be lost and a topic may be noise, but no payload is        *)
(* repeated, reordered or made up.  A new connection starts undisturbed.   *)
(***************************************************************************)
EXTENDS Naturals, Sequences

CONSTANTS
    Messages,       \* what publishers send on the subscribed topics
    Deliverable,    \* those poll() has to hand over
    Genuine,        \* those with a payload poll() would take for one
    Tolerated,      \* those that leave the link as they found it
    Nothing         \* no message

VARIABLES
    queue,          \* messages on this connection, not yet taken
    out,            \* what the last successful call handed over
    disturbed,      \* has this connection met anything that poll() cannot take?
    link            \* changes with every connection

vars == <<queue, out, disturbed, link>>

Init ==
    /\ queue = <<>>
    /\ out = Nothing
    /\ disturbed = FALSE
    /\ link = FALSE

Publish(m) ==
    /\ queue' = Append(queue, m)
    /\ disturbed' = (disturbed \/ m \notin Tolerated)
    /\ UNCHANGED <<out, link>>

Deliver ==
    /\ ~disturbed
    /\ queue # <<>>
    /\ Head(queue) \in Deliverable
    /\ out' = [topic |-> Head(queue), payload |-> Head(queue)]
    /\ queue' = Tail(queue)
    /\ UNCHANGED <<disturbed, link>>

Drop ==
    /\ ~disturbed
    /\ queue # <<>>
    /\ Head(queue) \notin Deliverable
    /\ queue' = Tail(queue)
    /\ UNCHANGED <<out, disturbed, link>>

Disturb ==
    /\ disturbed' = TRUE
    /\ UNCHANGED <<queue, out, link>>

\* The first i messages are gone; the last of them may have been handed over.
Lose(i) ==
    /\ disturbed
    /\ queue' = SubSeq(queue, i + 1, Len(queue))
    /\ \/ UNCHANGED out
       \/ /\ queue[i] \in Genuine
          /\ out'.payload = queue[i]
    /\ UNCHANGED <<disturbed, link>>

Reconnect ==
    /\ queue' = <<>>
    /\ disturbed' = FALSE
    /\ link' = ~link
    /\ UNCHANGED out

Take == Deliver \/ Drop
CanTake == ~disturbed /\ queue # <<>>

Next ==
    \/ \E m \in Messages : Publish(m)
    \/ Take
    \/ Disturb
    \/ \E i \in 1..Len(queue) : Lose(i)
    \/ Reconnect

Spec == Init /\ [][Next]_vars

=============================================================================
