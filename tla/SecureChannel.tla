--------------------------- MODULE SecureChannel ----------------------------
(***************************************************************************)
(* What a CURVE session promises the calls that receive: frames of the     *)
(* broker, of this connection only, as they were sealed, in their order    *)
(* and none twice.  Frames may be missing: a damaged one is refused.       *)
(***************************************************************************)
EXTENDS Naturals, Sequences

VARIABLES
    channel,        \* the connection
    sent,           \* frames the broker has sealed on it
    got             \* frames taken, as the broker numbered them

vars == <<channel, sent, got>>

Init ==
    /\ channel = 0
    /\ sent = 0
    /\ got = <<>>

\* Nothing of one connection is taken on the next.
Open ==
    /\ channel' = channel + 1
    /\ sent' = 0
    /\ got' = <<>>

Seal ==
    /\ sent' = sent + 1
    /\ UNCHANGED <<channel, got>>

Take(n) ==
    /\ \A i \in 1..Len(got) : got[i] < n
    /\ got' = Append(got, n)
    /\ UNCHANGED <<channel, sent>>

Next ==
    \/ Open
    \/ Seal
    \/ \E n \in 1..sent : Take(n)

Spec == Init /\ [][Next]_vars

=============================================================================
