------------------------------ MODULE Network ------------------------------
(***************************************************************************)
(* What the agent's code talks to and cannot control: the WiFi radio of    *)
(* the board, the MADS broker, and the three TCP sockets between them      *)
(* (the PUB link, the SUB link, the short-lived settings exchange).  It is *)
(* modelled from how src/mads uses it; WifiTransport, the thin class the   *)
(* code reaches a socket through, is translated.                           *)
(*                                                                         *)
(* A socket is, seen from outside the board:                               *)
(*   "closed"  not open, or stopped by the agent;                          *)
(*   "live"    established, and a broker is at the other end of it;        *)
(*   "silent"  its peer is gone, yet the WiFi module goes on reporting it  *)
(*             as established and accepting writes (DEVELOPER.md:323);     *)
(*   "broken"  its peer is gone and the WiFi module knows;                 *)
(*   "torn"    live, but a failed write left half a message on it: the     *)
(*             peer reads garbage from there on, and goes on sending.      *)
(***************************************************************************)
EXTENDS Naturals

CONSTANTS
    Addrs,          \* addresses the DHCP server may hand out
    NoAddr          \* 0.0.0.0, also the empty hostname

ASSUME NoAddrAssumption == NoAddr \notin Addrs

VARIABLES
    ap,             \* is the access point in range?
    radio,          \* association: "down", "joining", "up"
    ip,             \* WiFi.localIP()
    broker,         \* "down", "accepts" this board's key or "rejects" it
    sock,           \* the state of each socket, see above
    avail           \* does the socket hold bytes nobody has read yet?

netvars == <<ap, radio, ip, broker, sock, avail>>
wifivars == <<ap, radio, ip>>

Sockets == {"pub", "sub", "settings"}
SockStates == {"closed", "live", "silent", "broken", "torn"}

NetTypeOK ==
    /\ ap \in BOOLEAN
    /\ radio \in {"down", "joining", "up"}
    /\ ip \in Addrs \cup {NoAddr}
    /\ broker \in {"down", "accepts", "rejects"}
    /\ sock \in [Sockets -> SockStates]
    /\ avail \in [Sockets -> BOOLEAN]

NetInit ==
    /\ ap \in BOOLEAN
    /\ radio = "down"
    /\ ip = NoAddr
    /\ broker \in {"down", "accepts", "rejects"}
    /\ sock = [l \in Sockets |-> "closed"]
    /\ avail = [l \in Sockets |-> FALSE]

-----------------------------------------------------------------------------
(***************************************************************************)
(* WifiTransport: what an operation on a socket answers and does.          *)
(***************************************************************************)

Reachable == radio = "up" /\ ip # NoAddr /\ broker # "down"

\* WiFiClient::connected() answers 1 without asking the module as long as
\* there are unread bytes, and the module does not notice a silent peer.
Connected(l) ==
    \/ sock[l] \in {"live", "silent", "torn"}
    \/ sock[l] = "broken" /\ avail[l]

\* close() stops the client only if connected() says there is one to stop.
Close(l) ==
    IF Connected(l)
    THEN /\ sock' = [sock EXCEPT ![l] = "closed"]
         /\ avail' = [avail EXCEPT ![l] = FALSE]
    ELSE UNCHANGED <<sock, avail>>

\* connect() closes first; a socket that does not open stays closed.
Connect(l, opens) ==
    /\ opens <=> Reachable
    /\ sock' = [sock EXCEPT ![l] = IF opens THEN "live" ELSE "closed"]
    /\ avail' = [avail EXCEPT ![l] = FALSE]

\* A write that the module takes whole.
CanWrite(l) == sock[l] \in {"live", "silent", "torn"}

\* What a write that comes up short may leave: the socket as it was, if nothing
\* went out, or part of a message on the wire of a live one.
AfterShortWrite(l) ==
    {sock} \cup
    IF sock[l] = "live" THEN {[sock EXCEPT ![l] = "torn"]} ELSE {}

-----------------------------------------------------------------------------
(***************************************************************************)
(* The environment's own steps.                                            *)
(***************************************************************************)

\* The peer of every open socket goes away; the module notices some.
LosePeers ==
    LET lost == { l \in Sockets : sock[l] \in {"live", "torn"} }
    IN  \E noticed \in SUBSET lost :
            sock' = [l \in Sockets |-> IF l \in noticed THEN "broken"
                                      ELSE IF l \in lost THEN "silent"
                                      ELSE sock[l]]

BrokerStops ==
    /\ broker # "down"
    /\ broker' = "down"
    /\ LosePeers
    /\ UNCHANGED <<wifivars, avail>>

\* It reads its keys directory only now, so the policy is fixed until it stops.
BrokerStarts(policy) ==
    /\ broker = "down"
    /\ broker' = policy
    /\ UNCHANGED <<wifivars, sock, avail>>

\* One connection is lost while broker and radio stay up.
PeerLost(l) ==
    /\ sock[l] \in {"live", "torn"}
    /\ \E s \in {"silent", "broken"} : sock' = [sock EXCEPT ![l] = s]
    /\ UNCHANGED <<wifivars, broker, avail>>

\* The module finds out about a silent peer after all.
PeerLossNoticed(l) ==
    /\ sock[l] = "silent"
    /\ sock' = [sock EXCEPT ![l] = "broken"]
    /\ UNCHANGED <<wifivars, broker, avail>>

\* The broker sends: a message to a subscriber, a subscription to a publisher.
\* What the board left half written does not keep it from sending.
PeerSends(l) ==
    /\ sock[l] \in {"live", "torn"}
    /\ ~avail[l]
    /\ avail' = [avail EXCEPT ![l] = TRUE]
    /\ UNCHANGED <<wifivars, broker, sock>>

ApLost ==
    /\ ap
    /\ ap' = FALSE
    /\ radio' = IF radio = "up" THEN "down" ELSE radio
    /\ ip' = NoAddr
    /\ LosePeers
    /\ UNCHANGED <<broker, avail>>

ApBack ==
    /\ ~ap
    /\ ap' = TRUE
    /\ UNCHANGED <<radio, ip, broker, sock, avail>>

\* An association in flight completes, or the module rejoins on its own.
Associates ==
    /\ ap
    /\ radio # "up"
    /\ radio' = "up"
    /\ UNCHANGED <<ap, ip, broker, sock, avail>>

DhcpAnswers ==
    /\ radio = "up"
    /\ ip = NoAddr
    /\ ip' \in Addrs
    /\ UNCHANGED <<ap, radio, broker, sock, avail>>

=============================================================================
