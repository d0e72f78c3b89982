-------------------------- MODULE MadsAgent_proofs --------------------------
(***************************************************************************)
(* What holds of MadsAgent for every choice of intervals, topics and calls.*)
(***************************************************************************)
EXTENDS MadsAgent, TLAPS

\* Both backoffs stay in their range when they grow, also when doubling wraps
\* around the range of a uint32_t (note_handshake_failure(), ensure_wifi()).
LEMMA DoubledInRange ==
    ASSUME NEW max \in 0..(Modulus - 1), NEW interval \in Backoffs(max)
    PROVE  Doubled(interval, max) \in Backoffs(max)
<1>1. ReconnectInterval \in Nat /\ max \in Nat /\ Modulus \in Nat \ {0}
  BY IntervalAssumption
<1>2. interval \in Nat
  BY <1>1 DEF Backoffs
<1> DEFINE twice == (2 * interval) % Modulus
<1>3. twice \in Nat
  BY <1>1, <1>2
<1>4. Doubled(interval, max) = max \/ (interval <= twice /\ twice <= max)
  BY <1>1, <1>2, <1>3 DEF Doubled
<1>5. CASE interval <= twice /\ twice <= max /\ Doubled(interval, max) # max
  <2>1. Doubled(interval, max) = twice
    BY <1>5 DEF Doubled
  <2>2. interval \in ReconnectInterval..max
    BY <1>1, <1>2, <1>3, <1>5, <2>1 DEF Backoffs
  <2> QED
    BY <1>1, <1>2, <1>3, <1>5, <2>1, <2>2 DEF Backoffs
<1>6. CASE Doubled(interval, max) = max
  BY <1>6 DEF Backoffs
<1> QED
  BY <1>4, <1>5, <1>6

\* A backoff that is reset has the retry interval, whatever the maximum is.
LEMMA ResetBackoff == \A max : ReconnectInterval \in Backoffs(max)
  BY DEF Backoffs

\* Every timestamp has a largest age that matters.
LEMMA CapIsNat == \A s \in Stamps : Cap[s] \in Nat
  BY IntervalAssumption DEF Cap, Stamps, Longest

\* Taking timestamps and letting time pass keep the ages in range.
LEMMA StampInRange ==
    ASSUME TypeOK, NEW stamps, Stamp(stamps)
    PROVE  /\ elapsed' \in [Stamps -> Nat]
           /\ \A s \in Stamps : elapsed'[s] <= Cap[s]
  BY CapIsNat DEF TypeOK, Stamp

\* Time passing stops at the largest age that matters.
LEMMA TickInRange ==
    ASSUME TypeOK, Tick
    PROVE  /\ elapsed' \in [Stamps -> Nat]
           /\ \A s \in Stamps : elapsed'[s] <= Cap[s]
  BY CapIsNat DEF TypeOK, Tick

\* So does losing the PUB link, which starts its age afresh.
LEMMA ResetInRange ==
    ASSUME TypeOK, elapsed' = [elapsed EXCEPT !["silent"] = 0]
    PROVE  /\ elapsed' \in [Stamps -> Nat]
           /\ \A s \in Stamps : elapsed'[s] <= Cap[s]
<1>1. \A s \in Stamps : elapsed'[s] = IF s = "silent" THEN 0 ELSE elapsed[s]
  BY DEF TypeOK
<1>2. elapsed' \in [Stamps -> Nat]
  BY DEF TypeOK
<1> QED
  BY <1>1, <1>2, CapIsNat DEF TypeOK

\* Closing or opening a socket leaves a socket table.
LEMMA CloseType ==
    ASSUME NetTypeOK, NEW l \in Sockets, Close(l)
    PROVE  sock' \in [Sockets -> SockStates] /\ avail' \in [Sockets -> BOOLEAN]
  BY DEF NetTypeOK, Close, SockStates

\* connect() leaves a socket table as well, whether it succeeds or not.
LEMMA ConnectType ==
    ASSUME NetTypeOK, NEW l \in Sockets, NEW opens \in BOOLEAN, Connect(l, opens)
    PROVE  sock' \in [Sockets -> SockStates] /\ avail' \in [Sockets -> BOOLEAN]
  BY DEF NetTypeOK, Connect, SockStates

\* What the two uses of Doubled, and remembering a topic, leave behind.
LEMMA BackoffType ==
    ASSUME TypeOK
    PROVE  /\ Doubled(wifi_backoff, WifiBackoffMax) \in Backoffs(WifiBackoffMax)
           /\ Doubled(curve_backoff, CurveBackoffMax) \in Backoffs(CurveBackoffMax)
  BY DoubledInRange, IntervalAssumption DEF TypeOK

\* The table of topics stays a sequence of topics within its slots.
LEMMA TableType ==
    ASSUME TypeOK, NEW t \in Topics, Remembers(t)
    PROVE  table' \in Seq(Topics) /\ Len(table') <= MaxSubTopics
<1>1. CASE t \in Remembered
  BY <1>1 DEF TypeOK, Remembers
<1>2. CASE t \notin Remembered
  <2>1. Cut[t] \in Topics
    BY CutAssumption
  <2>2. table' = Append(table, Cut[t]) /\ Len(table) < MaxSubTopics
    BY <1>2 DEF Remembers
  <2> QED
    BY <2>1, <2>2, IntervalAssumption DEF TypeOK
<1> QED
  BY <1>1, <1>2

\* The environment's steps keep the types of the network.
LEMMA EnvironmentType ==
    ASSUME NetTypeOK,
           \/ BrokerStops
           \/ \E policy \in {"accepts", "rejects"} : BrokerStarts(policy)
           \/ \E l \in Sockets : PeerLost(l) \/ PeerLossNoticed(l)
           \/ PeerSends("pub")
           \/ PeerSends("sub") /\ subscribed # {}
           \/ ApLost \/ ApBack \/ Associates \/ DhcpAnswers
    PROVE  NetTypeOK'
<1> USE DEF NetTypeOK, SockStates, wifivars
<1>1. ASSUME LosePeers PROVE sock' \in [Sockets -> SockStates]
  BY <1>1 DEF LosePeers
<1>2. CASE BrokerStops
  BY <1>1, <1>2 DEF BrokerStops
<1>3. ASSUME NEW policy \in {"accepts", "rejects"}, BrokerStarts(policy)
      PROVE  NetTypeOK'
  BY <1>3 DEF BrokerStarts
<1>4. ASSUME NEW l \in Sockets, PeerLost(l) PROVE NetTypeOK'
  BY <1>4 DEF PeerLost
<1>5. ASSUME NEW l \in Sockets, PeerLossNoticed(l) PROVE NetTypeOK'
  BY <1>5 DEF PeerLossNoticed
<1>6. ASSUME NEW l \in Sockets, PeerSends(l) PROVE NetTypeOK'
  BY <1>6 DEF PeerSends
<1>7. CASE ApLost
  BY <1>1, <1>7 DEF ApLost
<1>8. CASE ApBack \/ Associates \/ DhcpAnswers
  BY <1>8 DEF ApBack, Associates, DhcpAnswers
<1> QED
  BY <1>2, <1>3, <1>4, <1>5, <1>6, <1>7, <1>8 DEF Sockets

-----------------------------------------------------------------------------

\* Every variable keeps its type through every action.
LEMMA TypeInductive == TypeOK /\ [Next]_vars => TypeOK'
<1> SUFFICES ASSUME TypeOK, [Next]_vars PROVE TypeOK'
  OBVIOUS
<1> USE DEF TypeOK, NetTypeOK, Stages, vars, callvars, clockvars, backoffvars,
            subvars, datavars, netvars, wifivars
<1>1. ASSUME Begin PROVE TypeOK'
  BY <1>1
  DEF Begin, Call
<1>2. ASSUME NEW kind \in PubOps, PublishReady(kind) PROVE TypeOK'
  BY <1>2, StampInRange
  DEF PublishReady, Call, FillsEnvelope
<1>3. ASSUME NEW kind \in PubOps, PublishHeldBack(kind) PROVE TypeOK'
  <2>1. sock' \in [Sockets -> SockStates] /\ avail' \in [Sockets -> BOOLEAN]
    BY <1>3, CloseType DEF PublishHeldBack, TearDownPub, Sockets
  <2>2. /\ elapsed' \in [Stamps -> Nat]
        /\ \A s \in Stamps : elapsed'[s] <= Cap[s]
    BY <1>3, StampInRange DEF PublishHeldBack
  <2>3. assumed_up' \in BOOLEAN
    BY <1>3 DEF PublishHeldBack, TearDownPub
  <2>4. envelope' \in Addrs \cup {NoAddr}
    BY <1>3 DEF PublishHeldBack, FillsEnvelope
  <2> QED
    BY <1>3, <2>1, <2>2, <2>3, <2>4 DEF PublishHeldBack, Call
<1>4. ASSUME NEW kind \in PubOps, PublishReconnects(kind) PROVE TypeOK'
  BY <1>4, StampInRange, CloseType, ZenonT(30)
  DEF PublishReconnects, Call, FillsEnvelope, Sockets
<1>5. ASSUME PollReady PROVE TypeOK'
  BY <1>5
  DEF PollReady, Call
<1>6. ASSUME PollHeldBack PROVE TypeOK'
  BY <1>6, CloseType
  DEF PollHeldBack, Call, Sockets
<1>7. ASSUME PollReconnects PROVE TypeOK'
  BY <1>7, StampInRange, CloseType, ZenonT(30)
  DEF PollReconnects, Call, Sockets
<1>8. ASSUME ConnectSub PROVE TypeOK'
  BY <1>8
  DEF ConnectSub, Call
<1>9. ASSUME NEW t \in Topics, SubscribeRefused(t) PROVE TypeOK'
  BY <1>9
  DEF SubscribeRefused, Call
<1>10. ASSUME NEW t \in Topics, SubscribeStored(t) PROVE TypeOK'
  BY <1>10, TableType
  DEF SubscribeStored, Remembers, Call
<1>11. ASSUME NEW t \in Topics, SubscribeSent(t) PROVE TypeOK'
  BY <1>11, TableType
  DEF SubscribeSent, Remembers, Call
<1>12. ASSUME NEW t \in Topics, SubscribeFails(t) PROVE TypeOK'
  <2>1. sock' \in [Sockets -> SockStates]
    BY <1>12 DEF SubscribeFails, AfterShortWrite, SockStates, Sockets
  <2> QED
    BY <1>12, <2>1, TableType DEF SubscribeFails, Remembers, Call
<1>13. ASSUME DrainPub PROVE TypeOK'
  BY <1>13
  DEF DrainPub, Sockets, agentvars
<1>14. ASSUME WifiUp PROVE TypeOK'
  BY <1>14, StampInRange, ResetBackoff
  DEF WifiUp, Associated, Goto
<1>15. ASSUME WifiHeldBack PROVE TypeOK'
  BY <1>15
  DEF WifiHeldBack, Return
<1>16. ASSUME JoinStarts PROVE TypeOK'
  <2>1. elapsed' \in [Stamps -> Nat] /\ \A s \in Stamps : elapsed'[s] <= Cap[s]
    BY <1>16, StampInRange DEF JoinStarts
  <2>2. attempted' \in [Attempts -> BOOLEAN]
    BY <1>16 DEF JoinStarts
  <2>3. NetTypeOK'
    BY <1>16 DEF JoinStarts
  <2>4. /\ pc' = "joining" /\ op' = op /\ answer' = "none"
        /\ UNCHANGED <<assumed_up, backoffvars, subvars, datavars>>
    BY <1>16 DEF JoinStarts, Goto
  <2> QED
    BY <2>1, <2>2, <2>3, <2>4
<1>17. ASSUME JoinSucceeds PROVE TypeOK'
  BY <1>17, StampInRange, ResetBackoff
  DEF JoinSucceeds, Associated, Goto
<1>18. ASSUME JoinTimesOut PROVE TypeOK'
  BY <1>18, BackoffType
  DEF JoinTimesOut, Return
<1>19. ASSUME AddressKnown PROVE TypeOK'
  BY <1>19
  DEF AddressKnown, Goto
<1>20. ASSUME AddressTimesOut PROVE TypeOK'
  BY <1>20
  DEF AddressTimesOut, Return
<1>21. ASSUME NEW opens \in BOOLEAN, DialSettings(opens) PROVE TypeOK'
  <2>1. sock' \in [Sockets -> SockStates] /\ avail' \in [Sockets -> BOOLEAN]
    BY <1>21, ConnectType DEF DialSettings, Sockets
  <2>2. pc' \in Stages /\ op' \in Ops \cup {"none", "begin"} /\ answer' = "none"
    BY <1>21 DEF DialSettings, Goto, Return
  <2>3. settings_ok' \in BOOLEAN
    BY <1>21 DEF DialSettings
  <2> QED
    BY <1>21, <2>1, <2>2, <2>3 DEF DialSettings
<1>22. ASSUME GreetSettings PROVE TypeOK'
  BY <1>22, ResetBackoff
  DEF GreetSettings, Goto
<1>23. ASSUME SettingsArrive PROVE TypeOK'
  BY <1>23, CloseType
  DEF SettingsArrive, Goto, Sockets
<1>24. ASSUME SettingsUnusable PROVE TypeOK'
  BY <1>24, CloseType
  DEF SettingsUnusable, GivesUp, Return, Sockets
<1>25. ASSUME NEW opens \in BOOLEAN, Dial(opens) PROVE TypeOK'
  BY <1>25, ConnectType
  DEF Dial, Goto, Return, Link, Sockets
<1>26. ASSUME GreetPub PROVE TypeOK'
  BY <1>26, StampInRange, ResetBackoff
  DEF GreetPub, Goto, Return
<1>27. ASSUME GreetSub PROVE TypeOK'
  BY <1>27, ResetBackoff
  DEF GreetSub, Goto
<1>28. ASSUME Rejected("greet_settings", "settings") PROVE TypeOK'
  BY <1>28, CloseType, BackoffType
  DEF Rejected, GivesUp, Return, Link, Sockets
<1>29. ASSUME HandshakeFails("greet_settings", "settings") PROVE TypeOK'
  BY <1>29, CloseType
  DEF HandshakeFails, GivesUp, Return, Link, Sockets
<1>30. ASSUME Rejected("greet", Link) PROVE TypeOK'
  BY <1>30, CloseType, BackoffType
  DEF Rejected, GivesUp, Return, Link, Sockets
<1>31. ASSUME HandshakeFails("greet", Link) PROVE TypeOK'
  BY <1>31, CloseType
  DEF HandshakeFails, GivesUp, Return, Link, Sockets
<1>32. ASSUME Replay PROVE TypeOK'
  BY <1>32, StampInRange, ResetBackoff
  DEF Replay, Goto, Return, Remembered
<1>33. ASSUME ReplayFails PROVE TypeOK'
  BY <1>33, CloseType
  DEF ReplayFails, GivesUp, Return, Sockets
<1>34. ASSUME SendDone PROVE TypeOK'
  BY <1>34
  DEF SendDone, Return
<1>35. ASSUME SendFails PROVE TypeOK'
  BY <1>35, CloseType
  DEF SendFails, Return, Sockets
<1>36. ASSUME NEW delivered \in BOOLEAN, Receive(delivered) PROVE TypeOK'
  BY <1>36, StampInRange
  DEF Receive, Return, Sockets
<1>37. ASSUME Tick PROVE TypeOK'
  BY <1>37, TickInRange
  DEF Tick
<1>38. ASSUME Environment PROVE TypeOK'
  <2>1. elapsed' \in [Stamps -> Nat] /\ \A s \in Stamps : elapsed'[s] <= Cap[s]
    <3>1. \/ elapsed' = elapsed
          \/ elapsed' = [elapsed EXCEPT !["silent"] = 0]
      BY <1>38 DEF Environment, AgentUntouched
    <3> QED
      BY <3>1, ResetInRange
  <2>2. NetTypeOK'
    BY <1>38, EnvironmentType DEF Environment
  <2> QED
    BY <1>38, <2>1, <2>2 DEF Environment, AgentUntouched
<1>39. ASSUME BrokerAnswers PROVE TypeOK'
  BY <1>39, StampInRange
  DEF BrokerAnswers
<1>40. CASE UNCHANGED vars
  BY <1>40 DEF agentvars
<1> QED
  BY <1>1, <1>2, <1>3, <1>4, <1>5, <1>6, <1>7, <1>8, <1>9, <1>10, <1>11, <1>12, <1>13, <1>14, <1>15, <1>16, <1>17, <1>18, <1>19, <1>20, <1>21, <1>22, <1>23, <1>24, <1>25, <1>26, <1>27, <1>28, <1>29, <1>30, <1>31, <1>32, <1>33, <1>34, <1>35, <1>36, <1>37, <1>38, <1>39, <1>40
  DEF Next, Calls, Publish, Poll, Subscribe, Proceed, Handshake

\* Every variable has its type in every reachable state.
THEOREM TypeCorrect == Spec => []TypeOK
<1>1. ASSUME Init PROVE TypeOK
  <2>1. elapsed \in [Stamps -> Nat] /\ \A s \in Stamps : elapsed[s] <= Cap[s]
    BY <1>1, CapIsNat DEF Init
  <2>2. table \in Seq(Topics) /\ Len(table) <= MaxSubTopics
    BY <1>1, IntervalAssumption DEF Init
  <2>3. NetTypeOK
    BY <1>1 DEF Init, NetInit, NetTypeOK, SockStates
  <2>4. /\ wifi_backoff \in Backoffs(WifiBackoffMax)
        /\ curve_backoff \in Backoffs(CurveBackoffMax)
    BY <1>1, ResetBackoff DEF Init
  <2> QED
    BY <1>1, <2>1, <2>2, <2>3, <2>4 DEF Init, TypeOK, Stages
<1> QED
  BY <1>1, TypeInductive, PTL DEF Spec

-----------------------------------------------------------------------------
(***************************************************************************)
(* The inductive invariant: what ties the sockets, the timestamps and the  *)
(* place of the current call together.                                     *)
(***************************************************************************)

\* A call is in progress only on an agent that has begun; before, nothing is
\* open, and only the calls that work for a link reach the link's stages.
CallShape ==
    /\ pc = "idle" <=> op = "none"
    /\ ~begun => /\ pc = "idle"
                 /\ ~assumed_up
                 /\ \A l \in Sockets : sock[l] = "closed"
    /\ pc = "send" => op \in PubOps
    /\ pc = "replay" => op \in SubOps

\* The PUB link is younger than the refresh interval when it is written to, no
\* write leaves it torn, and it died after it was opened, or else within the wait
\* for the rest of a handshake that the broker had already granted.
PubAge ==
    /\ sock["pub"] # "torn"
    /\ answer # "none" => elapsed["wait"] <= Timeout
    /\ sock["pub"] = "silent" /\ ~(pc = "greet" /\ Link = "pub")
          => elapsed["silent"] <= elapsed["pub_connect"] + Timeout
    /\ sock["pub"] = "silent" /\ answer = "good" /\ pc = "greet" /\ Link = "pub"
          => elapsed["silent"] <= elapsed["wait"]
    /\ pc = "send" => PubRefresh = 0 \/ elapsed["pub_connect"] < PubRefresh

\* The link is assumed up only while it is open, which it is not on the way
\* through a reconnection.
PubAssumption ==
    /\ assumed_up => sock["pub"] # "closed"
    /\ pc = "send" => sock["pub"] # "closed"
    /\ pc = "greet" /\ Link = "pub" => sock["pub"] # "closed"
    /\ op = "begin" \/ (op \in PubOps /\ pc # "send") => ~assumed_up

\* A live SUB link carries every remembered topic, but for those that subscribe()
\* could not write to it, unless it is being set up.
SubReplay ==
    sock["sub"] = "live" /\ ~(pc \in {"greet", "replay"} /\ Link = "sub")
        => Remembered \subseteq subscribed \cup unsent

\* All callers of ensure_wifi() share the clock that limits WiFi.begin(): it
\* shows the time since the last one, whoever made it.
JoinClock == elapsed["join"] = elapsed["wifi"]

\* The sketch publishes no blobs.
JsonOnly == "blob" \notin Ops

\* CallShape is kept, and so is each of the other parts: first, what closing,
\* opening and losing a socket do to each socket.
LEMMA CloseEffect ==
    ASSUME TypeOK, NEW l \in Sockets, Close(l)
    PROVE  /\ sock'[l] = IF Connected(l) THEN "closed" ELSE sock[l]
           /\ \A k \in Sockets \ {l} : sock'[k] = sock[k] /\ avail'[k] = avail[k]
           /\ ~Connected(l)'
  BY DEF TypeOK, NetTypeOK, Close, Connected

\* connect() opens or closes its own socket and touches no other.
LEMMA ConnectEffect ==
    ASSUME TypeOK, NEW l \in Sockets, NEW opens \in BOOLEAN, Connect(l, opens)
    PROVE  /\ sock'[l] = IF opens THEN "live" ELSE "closed"
           /\ \A k \in Sockets \ {l} : sock'[k] = sock[k] /\ avail'[k] = avail[k]
  BY DEF TypeOK, NetTypeOK, Connect

\* The environment only ever takes a connection away.
LEMMA EnvironmentEffect ==
    ASSUME TypeOK, Environment
    PROVE  \A l \in Sockets :
             /\ \/ sock'[l] = sock[l]
                \/ sock[l] \in {"live", "torn"} /\ sock'[l] \in {"silent", "broken"}
                \/ sock[l] = "silent" /\ sock'[l] = "broken"
             /\ l = "settings" => avail'[l] = avail[l]
<1> SUFFICES ASSUME NEW l \in Sockets
             PROVE  /\ \/ sock'[l] = sock[l]
                       \/ sock[l] \in {"live", "torn"} /\ sock'[l] \in {"silent", "broken"}
                       \/ sock[l] = "silent" /\ sock'[l] = "broken"
                    /\ l = "settings" => avail'[l] = avail[l]
  OBVIOUS
<1> USE DEF TypeOK, NetTypeOK
<1>1. CASE BrokerStops \/ ApLost
  BY <1>1 DEF BrokerStops, ApLost, LosePeers
<1>2. ASSUME NEW k \in Sockets, PeerLost(k) \/ PeerLossNoticed(k)
      PROVE  /\ \/ sock'[l] = sock[l]
                \/ sock[l] \in {"live", "torn"} /\ sock'[l] \in {"silent", "broken"}
                \/ sock[l] = "silent" /\ sock'[l] = "broken"
             /\ avail' = avail
  BY <1>2 DEF PeerLost, PeerLossNoticed
<1>3. CASE PeerSends("pub") \/ PeerSends("sub")
  BY <1>3 DEF PeerSends, Sockets
<1>4. CASE \/ \E policy \in {"accepts", "rejects"} : BrokerStarts(policy)
           \/ ApBack \/ Associates \/ DhcpAnswers
  BY <1>4 DEF BrokerStarts, ApBack, Associates, DhcpAnswers
<1> QED
  BY <1>1, <1>2, <1>3, <1>4 DEF Environment

\* A call in progress works for one of the two links.
LEMMA LinkOfCall ==
    ASSUME TypeOK, CallShape, pc # "idle"
    PROVE  /\ Link \in {"pub", "sub"}
           /\ Link = "pub" <=> op \in {"begin"} \cup PubOps
  BY OpsAssumption DEF TypeOK, CallShape, Link, PubOps, SubOps

\* subscribe() concerns the SUB socket alone.
LEMMA SubscribeEffect ==
    ASSUME TypeOK, NEW t \in Topics, Subscribe(t)
    PROVE  /\ pc = "idle" /\ pc' = "idle" /\ op' = "none"
           /\ \A l \in Sockets \ {"sub"} : sock'[l] = sock[l] /\ avail'[l] = avail[l]
           /\ UNCHANGED <<clockvars, begun, answer>>
<1> USE DEF clockvars, datavars, netvars, wifivars, TypeOK, NetTypeOK, Call
<1>1. CASE SubscribeRefused(t)
  BY <1>1 DEF SubscribeRefused
<1>2. CASE SubscribeStored(t)
  BY <1>2 DEF SubscribeStored, Remembers
<1>3. CASE SubscribeSent(t)
  BY <1>3 DEF SubscribeSent, Remembers
<1>4. CASE SubscribeFails(t)
  <2>1. sock' = sock \/ sock' = [sock EXCEPT !["sub"] = "torn"]
    BY <1>4 DEF SubscribeFails, AfterShortWrite
  <2> QED
    BY <1>4, <2>1 DEF SubscribeFails, Remembers
<1> QED
  BY <1>1, <1>2, <1>3, <1>4 DEF Subscribe

\* The place of the current call and the sockets before begin().
LEMMA CallShapeKept == TypeOK /\ CallShape /\ [Next]_vars => CallShape'
<1> SUFFICES ASSUME TypeOK, CallShape, [Next]_vars PROVE CallShape'
  OBVIOUS
<1> USE DEF CallShape, Sockets, PubOps, SubOps, Link, Connected, vars, callvars, clockvars, backoffvars, subvars, datavars, netvars, wifivars
<1>1. ASSUME Begin PROVE CallShape'
  BY <1>1 DEF Begin, Call
<1>2. ASSUME NEW kind \in PubOps, PublishReady(kind) PROVE CallShape'
  BY <1>2 DEF PublishReady, Call, PubUp, Probes, Fresh, Stamp
<1>3. ASSUME NEW kind \in PubOps, PublishHeldBack(kind) PROVE CallShape'
  BY <1>3, CloseEffect DEF PublishHeldBack, Call, TearDownPub, Stamp
<1>4. ASSUME NEW kind \in PubOps, PublishReconnects(kind) PROVE CallShape'
  BY <1>4, CloseEffect DEF PublishReconnects, Call, Stamp
<1>5. ASSUME PollReady \/ PollHeldBack PROVE CallShape'
  BY <1>5, CloseEffect DEF PollReady, PollHeldBack, Call, SubUp
<1>6. ASSUME PollReconnects PROVE CallShape'
  BY <1>6, CloseEffect DEF PollReconnects, Call, Stamp
<1>7. ASSUME ConnectSub PROVE CallShape'
  BY <1>7 DEF ConnectSub, Call
<1>8. ASSUME NEW t \in Topics, Subscribe(t) PROVE CallShape'
  BY <1>8 DEF Subscribe, SubscribeRefused, SubscribeStored, SubscribeSent, SubscribeFails, Remembers, Call, AfterShortWrite
<1>9. ASSUME DrainPub PROVE CallShape'
  BY <1>9 DEF DrainPub, agentvars
<1>10. ASSUME WifiUp \/ JoinSucceeds PROVE CallShape'
  BY <1>10 DEF WifiUp, JoinSucceeds, Associated, Goto, Stamp
<1>11. ASSUME WifiHeldBack \/ JoinTimesOut \/ AddressTimesOut PROVE CallShape'
  BY <1>11 DEF WifiHeldBack, JoinTimesOut, AddressTimesOut, Return
<1>12. ASSUME JoinStarts PROVE CallShape'
  BY <1>12 DEF JoinStarts, Goto, Stamp
<1>13. ASSUME AddressKnown PROVE CallShape'
  BY <1>13 DEF AddressKnown, Goto
<1>14. ASSUME NEW opens \in BOOLEAN, DialSettings(opens) PROVE CallShape'
  BY <1>14, CloseEffect, ConnectEffect DEF DialSettings, Goto, Return
<1>15. ASSUME GreetSettings \/ SettingsArrive PROVE CallShape'
  BY <1>15, CloseEffect DEF GreetSettings, SettingsArrive, Goto
<1>16. ASSUME SettingsUnusable \/ ReplayFails PROVE CallShape'
  BY <1>16, CloseEffect DEF SettingsUnusable, ReplayFails, GivesUp, Return
<1>17. ASSUME NEW opens \in BOOLEAN, Dial(opens) PROVE CallShape'
  BY <1>17, ConnectEffect DEF Dial, Goto, Return
<1>18. ASSUME GreetPub PROVE CallShape'
  <2>1. op \in {"begin"} \cup PubOps
    BY <1>18, LinkOfCall DEF GreetPub
  <2> QED
    BY <1>18, <2>1 DEF GreetPub, Goto, Return
<1>19. ASSUME GreetSub PROVE CallShape'
  BY <1>19 DEF GreetSub, Goto
<1>20. ASSUME Rejected("greet_settings", "settings") \/ HandshakeFails("greet_settings", "settings") PROVE CallShape'
  BY <1>20, CloseEffect DEF Rejected, HandshakeFails, GivesUp, Return
<1>21. ASSUME Rejected("greet", Link) \/ HandshakeFails("greet", Link) PROVE CallShape'
  BY <1>21, CloseEffect DEF Rejected, HandshakeFails, GivesUp, Return
<1>22. ASSUME Replay PROVE CallShape'
  BY <1>22, CloseEffect DEF Replay, Goto, Return, Stamp
<1>23. ASSUME SendDone PROVE CallShape'
  BY <1>23 DEF SendDone, Return
<1>24. ASSUME SendFails PROVE CallShape'
  BY <1>24, CloseEffect DEF SendFails, Return
<1>25. ASSUME NEW delivered \in BOOLEAN, Receive(delivered) PROVE CallShape'
  BY <1>25 DEF Receive, Return, Stamp
<1>26. ASSUME Tick PROVE CallShape'
  BY <1>26 DEF Tick
<1>27. ASSUME Environment PROVE CallShape'
  BY <1>27, EnvironmentEffect DEF Environment, AgentUntouched
<1>28. ASSUME UNCHANGED vars PROVE CallShape'
  BY <1>28 DEF agentvars
<1>29. ASSUME BrokerAnswers PROVE CallShape'
  BY <1>29 DEF BrokerAnswers, Stamp
<1> QED
  BY <1>1, <1>2, <1>3, <1>4, <1>5, <1>6, <1>7, <1>8, <1>9, <1>10, <1>11, <1>12, <1>13, <1>14, <1>15, <1>16, <1>17, <1>18, <1>19, <1>20, <1>21, <1>22, <1>23, <1>24, <1>25, <1>26, <1>27, <1>28, <1>29
  DEF Next, Calls, Publish, Poll, Proceed, Handshake

\* The age of the PUB link.
LEMMA PubAgeKept == TypeOK /\ CallShape /\ PubAge /\ [Next]_vars => PubAge'
<1> SUFFICES ASSUME TypeOK, CallShape, PubAge, [Next]_vars PROVE PubAge'
  OBVIOUS
<1> USE DEF PubAge, Sockets, Stamps, PubOps, SubOps, Link, vars, callvars, clockvars, backoffvars, subvars, datavars, netvars, wifivars
<1>1. ASSUME Begin PROVE PubAge'
  BY <1>1 DEF Begin, Call
<1>2. ASSUME NEW kind \in PubOps, PublishReady(kind) PROVE PubAge'
  BY <1>2 DEF PublishReady, Call, PubUp, Probes, Fresh, Stamp
<1>3. ASSUME NEW kind \in PubOps, PublishHeldBack(kind) PROVE PubAge'
  BY <1>3, CloseEffect DEF PublishHeldBack, Call, TearDownPub, Stamp
<1>4. ASSUME NEW kind \in PubOps, PublishReconnects(kind) PROVE PubAge'
  BY <1>4, CloseEffect DEF PublishReconnects, Call, Stamp
<1>5. ASSUME PollReady \/ PollHeldBack PROVE PubAge'
  BY <1>5, CloseEffect DEF PollReady, PollHeldBack, Call, SubUp
<1>6. ASSUME PollReconnects PROVE PubAge'
  BY <1>6, CloseEffect DEF PollReconnects, Call, Stamp
<1>7. ASSUME ConnectSub PROVE PubAge'
  BY <1>7 DEF ConnectSub, Call
<1>8. ASSUME NEW t \in Topics, Subscribe(t) PROVE PubAge'
  BY <1>8, SubscribeEffect
<1>9. ASSUME DrainPub PROVE PubAge'
  BY <1>9 DEF DrainPub, agentvars
<1>10. ASSUME WifiUp \/ JoinSucceeds PROVE PubAge'
  BY <1>10 DEF WifiUp, JoinSucceeds, Associated, Goto, Stamp
<1>11. ASSUME WifiHeldBack \/ JoinTimesOut \/ AddressTimesOut PROVE PubAge'
  BY <1>11 DEF WifiHeldBack, JoinTimesOut, AddressTimesOut, Return
<1>12. ASSUME JoinStarts PROVE PubAge'
  BY <1>12 DEF JoinStarts, Goto, Stamp
<1>13. ASSUME AddressKnown PROVE PubAge'
  BY <1>13 DEF AddressKnown, Goto
<1>14. ASSUME NEW opens \in BOOLEAN, DialSettings(opens) PROVE PubAge'
  BY <1>14, CloseEffect, ConnectEffect DEF DialSettings, Goto, Return
<1>15. ASSUME GreetSettings \/ SettingsArrive PROVE PubAge'
  BY <1>15, CloseEffect DEF GreetSettings, SettingsArrive, Goto
<1>16. ASSUME SettingsUnusable \/ ReplayFails PROVE PubAge'
  BY <1>16, CloseEffect DEF SettingsUnusable, ReplayFails, GivesUp, Return
<1>17. ASSUME NEW opens \in BOOLEAN, Dial(opens) PROVE PubAge'
  BY <1>17, ConnectEffect DEF Dial, Goto, Return
<1>18. ASSUME GreetPub PROVE PubAge'
  <2>1. elapsed'["pub_connect"] = 0 /\ elapsed'["silent"] = elapsed["silent"]
    BY <1>18 DEF GreetPub, Stamp
  <2>2. UNCHANGED sock /\ answer' = "none" /\ pc' # "greet"
    BY <1>18 DEF GreetPub, Goto, Return
  <2>3. sock["pub"] = "silent" => elapsed["silent"] <= Timeout
    <3>1. sock["pub"] = "silent"
            => elapsed["silent"] <= elapsed["wait"] /\ elapsed["wait"] <= Timeout
      BY <1>18 DEF GreetPub
    <3>2. elapsed["silent"] \in Nat /\ elapsed["wait"] \in Nat /\ Timeout \in Nat
      BY IntervalAssumption DEF TypeOK
    <3> QED
      BY <3>1, <3>2
  <2> QED
    BY <2>1, <2>2, <2>3, IntervalAssumption
<1>19. ASSUME GreetSub PROVE PubAge'
  BY <1>19 DEF GreetSub, Goto
<1>20. ASSUME Rejected("greet_settings", "settings") \/ HandshakeFails("greet_settings", "settings") PROVE PubAge'
  BY <1>20, CloseEffect DEF Rejected, HandshakeFails, GivesUp, Return
<1>21. ASSUME Rejected("greet", Link) \/ HandshakeFails("greet", Link) PROVE PubAge'
  <2>1. pc' = "idle" /\ sock'["pub"] \in {sock["pub"], "closed"}
    BY <1>21, CloseEffect, LinkOfCall DEF Rejected, HandshakeFails, GivesUp, Return
  <2>2. Link = "pub" => sock'["pub"] # "silent"
    BY <1>21, CloseEffect DEF Rejected, HandshakeFails, GivesUp, Connected
  <2>3. UNCHANGED elapsed /\ answer' = "none"
    BY <1>21 DEF Rejected, HandshakeFails, GivesUp, Return
  <2>4. pc = "greet"
    BY <1>21 DEF Rejected, HandshakeFails
  <2> QED
    BY <2>1, <2>2, <2>3, <2>4
<1>22. ASSUME Replay PROVE PubAge'
  BY <1>22, CloseEffect DEF Replay, Goto, Return, Stamp
<1>23. ASSUME SendDone PROVE PubAge'
  BY <1>23 DEF SendDone, Return
<1>24. ASSUME SendFails PROVE PubAge'
  BY <1>24, CloseEffect DEF SendFails, Return
<1>25. ASSUME NEW delivered \in BOOLEAN, Receive(delivered) PROVE PubAge'
  BY <1>25 DEF Receive, Return, Stamp
<1>26. ASSUME Tick PROVE PubAge'
  <2>1. /\ elapsed["silent"] \in Nat /\ elapsed["pub_connect"] \in Nat
        /\ elapsed["wait"] \in Nat
        /\ elapsed["silent"] <= PubRefresh + Timeout
        /\ elapsed["pub_connect"] <= PubRefresh
        /\ PubRefresh \in Nat /\ Timeout \in Nat
    BY IntervalAssumption DEF TypeOK, Cap
  <2>2. elapsed'["silent"] = IF elapsed["silent"] < PubRefresh + Timeout
                             THEN elapsed["silent"] + 1 ELSE elapsed["silent"]
    BY <1>26 DEF Tick, Cap
  <2>3. elapsed'["pub_connect"] = IF elapsed["pub_connect"] < PubRefresh
                                  THEN elapsed["pub_connect"] + 1
                                  ELSE elapsed["pub_connect"]
    BY <1>26 DEF Tick, Cap
  <2>4. UNCHANGED <<pc, op, answer, sock>> /\ pc # "send"
    BY <1>26 DEF Tick
  <2>5. answer # "none" => /\ elapsed["wait"] < Timeout
                           /\ elapsed'["wait"] = elapsed["wait"] + 1
    <3>1. answer # "none" => elapsed["wait"] < Timeout
      BY <1>26 DEF Tick
    <3>2. elapsed'["wait"] = IF elapsed["wait"] < Timeout + 1
                             THEN elapsed["wait"] + 1 ELSE elapsed["wait"]
      BY <1>26 DEF Tick, Cap
    <3> QED
      BY <2>1, <3>1, <3>2
  <2> QED
    BY <2>1, <2>2, <2>3, <2>4, <2>5
<1>27. ASSUME Environment PROVE PubAge'
  <2>1. UNCHANGED <<pc, op, answer>>
    BY <1>27 DEF Environment, AgentUntouched
  <2>2. elapsed' = IF sock["pub"] = "live" /\ sock'["pub"] # "live"
                   THEN [elapsed EXCEPT !["silent"] = 0] ELSE elapsed
    BY <1>27 DEF Environment, AgentUntouched
  <2>3. /\ elapsed'["pub_connect"] = elapsed["pub_connect"]
        /\ elapsed'["wait"] = elapsed["wait"]
        /\ elapsed["pub_connect"] \in Nat /\ elapsed["wait"] \in Nat
        /\ sock["pub"] = "live" /\ sock'["pub"] # "live" => elapsed'["silent"] = 0
        /\ ~(sock["pub"] = "live" /\ sock'["pub"] # "live")
              => elapsed'["silent"] = elapsed["silent"]
    BY <2>2 DEF TypeOK
  <2>4. \/ sock'["pub"] = sock["pub"]
        \/ sock["pub"] = "live" /\ sock'["pub"] \in {"silent", "broken"}
        \/ sock["pub"] = "silent" /\ sock'["pub"] = "broken"
    BY <1>27, EnvironmentEffect
  <2> QED
    BY <2>1, <2>3, <2>4, IntervalAssumption
<1>28. ASSUME UNCHANGED vars PROVE PubAge'
  BY <1>28 DEF agentvars
<1>29. ASSUME BrokerAnswers PROVE PubAge'
  <2>1. /\ UNCHANGED <<pc, op, sock>>
        /\ pc # "send"
        /\ pc = "greet" /\ Link = "pub" => sock["pub"] = "live"
    BY <1>29 DEF BrokerAnswers, Awaited
  <2>2. /\ elapsed'["wait"] = 0
        /\ elapsed'["silent"] = elapsed["silent"]
        /\ elapsed'["pub_connect"] = elapsed["pub_connect"]
    BY <1>29 DEF BrokerAnswers, Stamp
  <2> QED
    BY <2>1, <2>2, IntervalAssumption
<1> QED
  BY <1>1, <1>2, <1>3, <1>4, <1>5, <1>6, <1>7, <1>8, <1>9, <1>10, <1>11, <1>12, <1>13, <1>14, <1>15, <1>16, <1>17, <1>18, <1>19, <1>20, <1>21, <1>22, <1>23, <1>24, <1>25, <1>26, <1>27, <1>28, <1>29
  DEF Next, Calls, Publish, Poll, Proceed, Handshake

\* The assumption that the PUB link is up.
LEMMA PubAssumptionKept == JsonOnly /\ TypeOK /\ CallShape /\ PubAssumption /\ [Next]_vars => PubAssumption'
<1> SUFFICES ASSUME JsonOnly, TypeOK, CallShape, PubAssumption, [Next]_vars PROVE PubAssumption'
  OBVIOUS
<1> USE DEF PubAssumption, Sockets, PubOps, SubOps, Link, vars, callvars, clockvars, backoffvars, subvars, datavars, netvars, wifivars
<1>1. ASSUME Begin PROVE PubAssumption'
  BY <1>1 DEF Begin, Call, CallShape
<1>2. ASSUME NEW kind \in PubOps, PublishReady(kind) PROVE PubAssumption'
  <2>1. sock["pub"] # "closed"
    BY <1>2 DEF PublishReady, PubUp, Probes, Connected
  <2> QED
    BY <1>2, <2>1 DEF PublishReady, Call
<1>3. ASSUME NEW kind \in PubOps, PublishHeldBack(kind) PROVE PubAssumption'
  BY <1>3, CloseEffect DEF PublishHeldBack, Call, TearDownPub, Stamp
<1>4. ASSUME NEW kind \in PubOps, PublishReconnects(kind) PROVE PubAssumption'
  BY <1>4, CloseEffect DEF PublishReconnects, Call, Stamp
<1>5. ASSUME PollReady \/ PollHeldBack PROVE PubAssumption'
  BY <1>5, CloseEffect DEF PollReady, PollHeldBack, Call, SubUp
<1>6. ASSUME PollReconnects PROVE PubAssumption'
  BY <1>6, CloseEffect DEF PollReconnects, Call, Stamp
<1>7. ASSUME ConnectSub PROVE PubAssumption'
  BY <1>7 DEF ConnectSub, Call
<1>8. ASSUME NEW t \in Topics, Subscribe(t) PROVE PubAssumption'
  BY <1>8, SubscribeEffect
<1>9. ASSUME DrainPub PROVE PubAssumption'
  BY <1>9 DEF DrainPub, agentvars
<1>10. ASSUME WifiUp \/ JoinSucceeds PROVE PubAssumption'
  BY <1>10 DEF WifiUp, JoinSucceeds, Associated, Goto, Stamp
<1>11. ASSUME WifiHeldBack \/ JoinTimesOut \/ AddressTimesOut PROVE PubAssumption'
  BY <1>11 DEF WifiHeldBack, JoinTimesOut, AddressTimesOut, Return
<1>12. ASSUME JoinStarts PROVE PubAssumption'
  BY <1>12 DEF JoinStarts, Goto, Stamp
<1>13. ASSUME AddressKnown PROVE PubAssumption'
  BY <1>13 DEF AddressKnown, Goto
<1>14. ASSUME NEW opens \in BOOLEAN, DialSettings(opens) PROVE PubAssumption'
  BY <1>14, CloseEffect, ConnectEffect DEF DialSettings, Goto, Return
<1>15. ASSUME GreetSettings \/ SettingsArrive PROVE PubAssumption'
  BY <1>15, CloseEffect DEF GreetSettings, SettingsArrive, Goto
<1>16. ASSUME SettingsUnusable \/ ReplayFails PROVE PubAssumption'
  BY <1>16, CloseEffect DEF SettingsUnusable, ReplayFails, GivesUp, Return
<1>17. ASSUME NEW opens \in BOOLEAN, Dial(opens) PROVE PubAssumption'
  <2>1. CASE Link = "pub"
    <3>1. ~assumed_up
      BY <1>17, <2>1, LinkOfCall DEF Dial
    <3>2. pc' = "greet" => sock'["pub"] # "closed"
      BY <1>17, <2>1, ConnectEffect DEF Dial, Goto, Return
    <3> QED
      BY <1>17, <3>1, <3>2 DEF Dial, Goto, Return
  <2>2. CASE Link = "sub"
    BY <1>17, <2>2, ConnectEffect DEF Dial, Goto, Return
  <2> QED
    BY <1>17, <2>1, <2>2, LinkOfCall DEF Dial
<1>18. ASSUME GreetPub PROVE PubAssumption'
  BY <1>18 DEF GreetPub, Goto, Return, Stamp
<1>19. ASSUME GreetSub PROVE PubAssumption'
  BY <1>19 DEF GreetSub, Goto
<1>20. ASSUME Rejected("greet_settings", "settings") \/ HandshakeFails("greet_settings", "settings") PROVE PubAssumption'
  BY <1>20, CloseEffect DEF Rejected, HandshakeFails, GivesUp, Return
<1>21. ASSUME Rejected("greet", Link) \/ HandshakeFails("greet", Link) PROVE PubAssumption'
  <2>1. CASE Link = "pub"
    <3>1. ~assumed_up
      BY <1>21, <2>1, LinkOfCall DEF Rejected, HandshakeFails
    <3> QED
      BY <1>21, <3>1 DEF Rejected, HandshakeFails, GivesUp, Return
  <2>2. CASE Link = "sub"
    BY <1>21, <2>2, CloseEffect DEF Rejected, HandshakeFails, GivesUp, Return
  <2> QED
    BY <1>21, <2>1, <2>2, LinkOfCall DEF Rejected, HandshakeFails
<1>22. ASSUME Replay PROVE PubAssumption'
  BY <1>22, CloseEffect DEF Replay, Goto, Return, Stamp
<1>23. ASSUME SendDone PROVE PubAssumption'
  BY <1>23 DEF SendDone, Return
<1>24. ASSUME SendFails PROVE PubAssumption'
  <2>1. op # "blob"
    BY <1>24 DEF JsonOnly, SendFails, TypeOK, CallShape
  <2> QED
    BY <1>24, <2>1 DEF SendFails, Return
<1>25. ASSUME NEW delivered \in BOOLEAN, Receive(delivered) PROVE PubAssumption'
  BY <1>25 DEF Receive, Return, Stamp
<1>26. ASSUME Tick PROVE PubAssumption'
  BY <1>26 DEF Tick
<1>27. ASSUME Environment PROVE PubAssumption'
  BY <1>27, EnvironmentEffect DEF Environment, AgentUntouched
<1>28. ASSUME UNCHANGED vars PROVE PubAssumption'
  BY <1>28 DEF agentvars
<1>29. ASSUME BrokerAnswers PROVE PubAssumption'
  BY <1>29 DEF BrokerAnswers, Stamp
<1> QED
  BY <1>1, <1>2, <1>3, <1>4, <1>5, <1>6, <1>7, <1>8, <1>9, <1>10, <1>11, <1>12, <1>13, <1>14, <1>15, <1>16, <1>17, <1>18, <1>19, <1>20, <1>21, <1>22, <1>23, <1>24, <1>25, <1>26, <1>27, <1>28, <1>29
  DEF Next, Calls, Publish, Poll, Proceed, Handshake

\* Every topic fits the 24 bytes it is remembered in.
TopicsFit == \A t \in Topics : Cut[t] = t

\* What the broker was told on the SUB link.
LEMMA SubReplayKept == TopicsFit /\ TypeOK /\ CallShape /\ SubReplay /\ [Next]_vars => SubReplay'
<1> SUFFICES ASSUME TopicsFit, TypeOK, CallShape, SubReplay, [Next]_vars PROVE SubReplay'
  OBVIOUS
<1> USE DEF SubReplay, Sockets, SubOps, Link, Remembered, vars, callvars, clockvars, backoffvars, subvars, datavars, netvars, wifivars
<1>1. ASSUME Begin PROVE SubReplay'
  BY <1>1 DEF Begin, Call
<1>2. ASSUME NEW kind \in PubOps, PublishReady(kind) PROVE SubReplay'
  BY <1>2 DEF PublishReady, Call, PubUp, Probes, Fresh, Stamp
<1>3. ASSUME NEW kind \in PubOps, PublishHeldBack(kind) PROVE SubReplay'
  BY <1>3, CloseEffect DEF PublishHeldBack, Call, TearDownPub, Stamp
<1>4. ASSUME NEW kind \in PubOps, PublishReconnects(kind) PROVE SubReplay'
  BY <1>4, CloseEffect DEF PublishReconnects, Call, Stamp
<1>5. ASSUME PollReady \/ PollHeldBack PROVE SubReplay'
  BY <1>5, CloseEffect DEF PollReady, PollHeldBack, Call, SubUp
<1>6. ASSUME PollReconnects PROVE SubReplay'
  BY <1>6, CloseEffect DEF PollReconnects, Call, Stamp
<1>7. ASSUME ConnectSub PROVE SubReplay'
  BY <1>7 DEF ConnectSub, Call
<1>8. ASSUME NEW t \in Topics, Subscribe(t) PROVE SubReplay'
  <2>1. CASE SubscribeRefused(t)
    BY <2>1 DEF SubscribeRefused, Call
  <2>2. CASE SubscribeStored(t)
    <3>1. sock'["sub"] # "live"
      BY <2>2 DEF SubscribeStored, Connected
    <3> QED
      BY <3>1
  <2>3. ASSUME Remembers(t) PROVE Remembered' \subseteq Remembered \cup {t}
    <3>1. table' = table \/ table' = Append(table, t)
      BY <2>3 DEF Remembers, TopicsFit
    <3>2. table \in Seq(Topics)
      BY DEF TypeOK
    <3> QED
      BY <3>1, <3>2
  <2>4. CASE SubscribeSent(t)
    <3>1. pc = "idle" /\ sock' = sock
      BY <2>4 DEF SubscribeSent, Remembers, Call
    <3>2. sock["sub"] = "live"
            => subscribed' = subscribed \cup {t} /\ unsent' = unsent \ {t}
      BY <2>4 DEF SubscribeSent
    <3>3. Remembered' \subseteq Remembered \cup {t}
      BY <2>3, <2>4 DEF SubscribeSent
    <3> QED
      BY <3>1, <3>2, <3>3
  <2>5. CASE SubscribeFails(t)
    <3>1. pc = "idle"
      BY <2>5 DEF SubscribeFails, Remembers, Call
    <3>2. sock'["sub"] = "live" => sock["sub"] = "live"
      BY <2>5 DEF SubscribeFails, AfterShortWrite, TypeOK, NetTypeOK
    <3>3. sock["sub"] = "live"
            => subscribed' = subscribed /\ unsent' = unsent \cup {t}
      BY <2>5 DEF SubscribeFails
    <3>4. Remembered' \subseteq Remembered \cup {t}
      BY <2>3, <2>5 DEF SubscribeFails
    <3> QED
      BY <3>1, <3>2, <3>3, <3>4
  <2> QED
    BY <1>8, <2>1, <2>2, <2>4, <2>5 DEF Subscribe
<1>9. ASSUME DrainPub PROVE SubReplay'
  BY <1>9 DEF DrainPub, agentvars
<1>10. ASSUME WifiUp \/ JoinSucceeds PROVE SubReplay'
  BY <1>10 DEF WifiUp, JoinSucceeds, Associated, Goto, Stamp
<1>11. ASSUME WifiHeldBack \/ JoinTimesOut \/ AddressTimesOut PROVE SubReplay'
  BY <1>11 DEF WifiHeldBack, JoinTimesOut, AddressTimesOut, Return
<1>12. ASSUME JoinStarts PROVE SubReplay'
  BY <1>12 DEF JoinStarts, Goto, Stamp
<1>13. ASSUME AddressKnown PROVE SubReplay'
  BY <1>13 DEF AddressKnown, Goto
<1>14. ASSUME NEW opens \in BOOLEAN, DialSettings(opens) PROVE SubReplay'
  BY <1>14, CloseEffect, ConnectEffect DEF DialSettings, Goto, Return
<1>15. ASSUME GreetSettings \/ SettingsArrive PROVE SubReplay'
  BY <1>15, CloseEffect DEF GreetSettings, SettingsArrive, Goto
<1>16. ASSUME SettingsUnusable \/ ReplayFails PROVE SubReplay'
  <2>1. CASE SettingsUnusable
    BY <2>1, CloseEffect DEF SettingsUnusable, GivesUp, Return
  <2>2. CASE ReplayFails
    <3>1. sock'["sub"] # "live"
      BY <2>2, CloseEffect DEF ReplayFails, GivesUp, Connected
    <3> QED
      BY <3>1
  <2> QED
    BY <1>16, <2>1, <2>2
<1>17. ASSUME NEW opens \in BOOLEAN, Dial(opens) PROVE SubReplay'
  BY <1>17, ConnectEffect DEF Dial, Goto, Return
<1>18. ASSUME GreetPub PROVE SubReplay'
  BY <1>18 DEF GreetPub, Goto, Return, Stamp
<1>19. ASSUME GreetSub PROVE SubReplay'
  BY <1>19 DEF GreetSub, Goto
<1>20. ASSUME Rejected("greet_settings", "settings") \/ HandshakeFails("greet_settings", "settings") PROVE SubReplay'
  BY <1>20, CloseEffect DEF Rejected, HandshakeFails, GivesUp, Return
<1>21. ASSUME Rejected("greet", Link) \/ HandshakeFails("greet", Link) PROVE SubReplay'
  <2>1. CASE Link = "pub"
    BY <1>21, <2>1, CloseEffect DEF Rejected, HandshakeFails, GivesUp, Return
  <2>2. CASE Link = "sub"
    <3>1. sock'["sub"] # "live"
      BY <1>21, <2>2, CloseEffect DEF Rejected, HandshakeFails, GivesUp, Connected
    <3> QED
      BY <3>1
  <2> QED
    BY <2>1, <2>2
<1>22. ASSUME Replay PROVE SubReplay'
  BY <1>22, CloseEffect DEF Replay, Goto, Return, Stamp
<1>23. ASSUME SendDone PROVE SubReplay'
  BY <1>23 DEF SendDone, Return
<1>24. ASSUME SendFails PROVE SubReplay'
  BY <1>24, CloseEffect DEF SendFails, Return
<1>25. ASSUME NEW delivered \in BOOLEAN, Receive(delivered) PROVE SubReplay'
  BY <1>25 DEF Receive, Return, Stamp
<1>26. ASSUME Tick PROVE SubReplay'
  BY <1>26 DEF Tick
<1>27. ASSUME Environment PROVE SubReplay'
  BY <1>27, EnvironmentEffect DEF Environment, AgentUntouched
<1>28. ASSUME UNCHANGED vars PROVE SubReplay'
  BY <1>28 DEF agentvars
<1>29. ASSUME BrokerAnswers PROVE SubReplay'
  BY <1>29 DEF BrokerAnswers, Stamp
<1> QED
  BY <1>1, <1>2, <1>3, <1>4, <1>5, <1>6, <1>7, <1>8, <1>9, <1>10, <1>11, <1>12, <1>13, <1>14, <1>15, <1>16, <1>17, <1>18, <1>19, <1>20, <1>21, <1>22, <1>23, <1>24, <1>25, <1>26, <1>27, <1>28, <1>29
  DEF Next, Calls, Publish, Poll, Proceed, Handshake

\* The address in a message and the agent's own.
LEMMA StaleAddressKept == TypeOK /\ StaleAddressOnce /\ [Next]_vars => StaleAddressOnce'
<1> SUFFICES ASSUME TypeOK, StaleAddressOnce, [Next]_vars PROVE StaleAddressOnce'
  OBVIOUS
<1> USE DEF StaleAddressOnce, FillsEnvelope, Stamps, vars, callvars, clockvars, backoffvars, subvars, datavars, netvars, wifivars
<1>1. ASSUME Begin PROVE StaleAddressOnce'
  BY <1>1 DEF Begin, Call
<1>2. ASSUME NEW kind \in PubOps, PublishReady(kind) PROVE StaleAddressOnce'
  BY <1>2 DEF PublishReady, Call, PubUp, Probes, Fresh, Stamp
<1>3. ASSUME NEW kind \in PubOps, PublishHeldBack(kind) PROVE StaleAddressOnce'
  BY <1>3 DEF PublishHeldBack, Call, TearDownPub, Stamp
<1>4. ASSUME NEW kind \in PubOps, PublishReconnects(kind) PROVE StaleAddressOnce'
  BY <1>4 DEF PublishReconnects, Call, Stamp
<1>5. ASSUME PollReady \/ PollHeldBack PROVE StaleAddressOnce'
  BY <1>5 DEF PollReady, PollHeldBack, Call, SubUp
<1>6. ASSUME PollReconnects PROVE StaleAddressOnce'
  BY <1>6 DEF PollReconnects, Call, Stamp
<1>7. ASSUME ConnectSub PROVE StaleAddressOnce'
  BY <1>7 DEF ConnectSub, Call
<1>8. ASSUME NEW t \in Topics, Subscribe(t) PROVE StaleAddressOnce'
  BY <1>8, SubscribeEffect
<1>9. ASSUME DrainPub PROVE StaleAddressOnce'
  BY <1>9 DEF DrainPub, agentvars
<1>10. ASSUME WifiUp \/ JoinSucceeds PROVE StaleAddressOnce'
  BY <1>10 DEF WifiUp, JoinSucceeds, Associated, Goto, Stamp
<1>11. ASSUME WifiHeldBack \/ JoinTimesOut \/ AddressTimesOut PROVE StaleAddressOnce'
  BY <1>11 DEF WifiHeldBack, JoinTimesOut, AddressTimesOut, Return
<1>12. ASSUME JoinStarts PROVE StaleAddressOnce'
  BY <1>12 DEF JoinStarts, Goto, Stamp
<1>13. ASSUME AddressKnown PROVE StaleAddressOnce'
  BY <1>13 DEF AddressKnown, Goto
<1>14. ASSUME NEW opens \in BOOLEAN, DialSettings(opens) PROVE StaleAddressOnce'
  BY <1>14 DEF DialSettings, Goto, Return
<1>15. ASSUME GreetSettings \/ SettingsArrive PROVE StaleAddressOnce'
  BY <1>15 DEF GreetSettings, SettingsArrive, Goto
<1>16. ASSUME SettingsUnusable \/ ReplayFails PROVE StaleAddressOnce'
  BY <1>16 DEF SettingsUnusable, ReplayFails, GivesUp, Return
<1>17. ASSUME NEW opens \in BOOLEAN, Dial(opens) PROVE StaleAddressOnce'
  BY <1>17 DEF Dial, Goto, Return, Link
<1>18. ASSUME GreetPub PROVE StaleAddressOnce'
  BY <1>18 DEF GreetPub, Goto, Return, Stamp
<1>19. ASSUME GreetSub PROVE StaleAddressOnce'
  BY <1>19 DEF GreetSub, Goto
<1>20. ASSUME Rejected("greet_settings", "settings") \/ HandshakeFails("greet_settings", "settings") PROVE StaleAddressOnce'
  BY <1>20 DEF Rejected, HandshakeFails, GivesUp, Return
<1>21. ASSUME Rejected("greet", Link) \/ HandshakeFails("greet", Link) PROVE StaleAddressOnce'
  BY <1>21 DEF Rejected, HandshakeFails, GivesUp, Return, Link
<1>22. ASSUME Replay PROVE StaleAddressOnce'
  BY <1>22 DEF Replay, Goto, Return, Stamp
<1>23. ASSUME SendDone PROVE StaleAddressOnce'
  BY <1>23 DEF SendDone, Return
<1>24. ASSUME SendFails PROVE StaleAddressOnce'
  BY <1>24 DEF SendFails, Return
<1>25. ASSUME NEW delivered \in BOOLEAN, Receive(delivered) PROVE StaleAddressOnce'
  BY <1>25 DEF Receive, Return, Stamp
<1>26. ASSUME Tick PROVE StaleAddressOnce'
  BY <1>26 DEF Tick
<1>27. ASSUME Environment PROVE StaleAddressOnce'
  BY <1>27, EnvironmentEffect DEF Environment, AgentUntouched
<1>28. ASSUME UNCHANGED vars PROVE StaleAddressOnce'
  BY <1>28 DEF agentvars
<1>29. ASSUME BrokerAnswers PROVE StaleAddressOnce'
  BY <1>29 DEF BrokerAnswers, Stamp
<1> QED
  BY <1>1, <1>2, <1>3, <1>4, <1>5, <1>6, <1>7, <1>8, <1>9, <1>10, <1>11, <1>12, <1>13, <1>14, <1>15, <1>16, <1>17, <1>18, <1>19, <1>20, <1>21, <1>22, <1>23, <1>24, <1>25, <1>26, <1>27, <1>28, <1>29
  DEF Next, Calls, Publish, Poll, Proceed, Handshake

\* The ports are known when they are dialled.
LEMMA PortsKnownKept == TypeOK /\ PortsKnown /\ [Next]_vars => PortsKnown'
<1> SUFFICES ASSUME TypeOK, PortsKnown, [Next]_vars PROVE PortsKnown'
  OBVIOUS
<1> USE DEF PortsKnown, Sockets, vars, callvars, clockvars, backoffvars, subvars, datavars, netvars, wifivars
<1>1. ASSUME Begin PROVE PortsKnown'
  BY <1>1 DEF Begin, Call
<1>2. ASSUME NEW kind \in PubOps, PublishReady(kind) PROVE PortsKnown'
  BY <1>2 DEF PublishReady, Call, PubUp, Probes, Fresh, Stamp
<1>3. ASSUME NEW kind \in PubOps, PublishHeldBack(kind) PROVE PortsKnown'
  BY <1>3 DEF PublishHeldBack, Call, TearDownPub, Stamp
<1>4. ASSUME NEW kind \in PubOps, PublishReconnects(kind) PROVE PortsKnown'
  BY <1>4 DEF PublishReconnects, Call, Stamp
<1>5. ASSUME PollReady \/ PollHeldBack PROVE PortsKnown'
  BY <1>5 DEF PollReady, PollHeldBack, Call, SubUp
<1>6. ASSUME PollReconnects PROVE PortsKnown'
  BY <1>6 DEF PollReconnects, Call, Stamp
<1>7. ASSUME ConnectSub PROVE PortsKnown'
  BY <1>7 DEF ConnectSub, Call
<1>8. ASSUME NEW t \in Topics, Subscribe(t) PROVE PortsKnown'
  BY <1>8 DEF Subscribe, SubscribeRefused, SubscribeStored, SubscribeSent, SubscribeFails, Remembers, Call, AfterShortWrite
<1>9. ASSUME DrainPub PROVE PortsKnown'
  BY <1>9 DEF DrainPub, agentvars
<1>10. ASSUME WifiUp \/ JoinSucceeds PROVE PortsKnown'
  BY <1>10 DEF WifiUp, JoinSucceeds, Associated, Goto, Stamp
<1>11. ASSUME WifiHeldBack \/ JoinTimesOut \/ AddressTimesOut PROVE PortsKnown'
  BY <1>11 DEF WifiHeldBack, JoinTimesOut, AddressTimesOut, Return
<1>12. ASSUME JoinStarts PROVE PortsKnown'
  BY <1>12 DEF JoinStarts, Goto, Stamp
<1>13. ASSUME AddressKnown PROVE PortsKnown'
  BY <1>13 DEF AddressKnown, Goto
<1>14. ASSUME NEW opens \in BOOLEAN, DialSettings(opens) PROVE PortsKnown'
  BY <1>14 DEF DialSettings, Goto, Return
<1>15. ASSUME GreetSettings \/ SettingsArrive PROVE PortsKnown'
  BY <1>15 DEF GreetSettings, SettingsArrive, Goto
<1>16. ASSUME SettingsUnusable \/ ReplayFails PROVE PortsKnown'
  BY <1>16 DEF SettingsUnusable, ReplayFails, GivesUp, Return
<1>17. ASSUME NEW opens \in BOOLEAN, Dial(opens) PROVE PortsKnown'
  BY <1>17 DEF Dial, Goto, Return
<1>18. ASSUME GreetPub PROVE PortsKnown'
  BY <1>18 DEF GreetPub, Goto, Return, Stamp
<1>19. ASSUME GreetSub PROVE PortsKnown'
  BY <1>19 DEF GreetSub, Goto
<1>20. ASSUME Rejected("greet_settings", "settings") \/ HandshakeFails("greet_settings", "settings") PROVE PortsKnown'
  BY <1>20 DEF Rejected, HandshakeFails, GivesUp, Return
<1>21. ASSUME Rejected("greet", Link) \/ HandshakeFails("greet", Link) PROVE PortsKnown'
  BY <1>21 DEF Rejected, HandshakeFails, GivesUp, Return
<1>22. ASSUME Replay PROVE PortsKnown'
  BY <1>22 DEF Replay, Goto, Return, Stamp
<1>23. ASSUME SendDone PROVE PortsKnown'
  BY <1>23 DEF SendDone, Return
<1>24. ASSUME SendFails PROVE PortsKnown'
  BY <1>24 DEF SendFails, Return
<1>25. ASSUME NEW delivered \in BOOLEAN, Receive(delivered) PROVE PortsKnown'
  BY <1>25 DEF Receive, Return, Stamp
<1>26. ASSUME Tick PROVE PortsKnown'
  BY <1>26 DEF Tick
<1>27. ASSUME Environment PROVE PortsKnown'
  BY <1>27 DEF Environment, AgentUntouched
<1>28. ASSUME UNCHANGED vars PROVE PortsKnown'
  BY <1>28 DEF agentvars
<1>29. ASSUME BrokerAnswers PROVE PortsKnown'
  BY <1>29 DEF BrokerAnswers, Stamp
<1> QED
  BY <1>1, <1>2, <1>3, <1>4, <1>5, <1>6, <1>7, <1>8, <1>9, <1>10, <1>11, <1>12, <1>13, <1>14, <1>15, <1>16, <1>17, <1>18, <1>19, <1>20, <1>21, <1>22, <1>23, <1>24, <1>25, <1>26, <1>27, <1>28, <1>29
  DEF Next, Calls, Publish, Poll, Proceed, Handshake

\* Timestamps taken elsewhere leave the clock of the joins alone.
LEMMA StampElsewhere ==
    ASSUME JoinClock, NEW stamps, Stamp(stamps), "join" \in stamps <=> "wifi" \in stamps
    PROVE  JoinClock'
  BY DEF JoinClock, Stamp, Stamps

\* The clock that publish() and poll() share for their attempts at a join.
LEMMA JoinClockKept == TypeOK /\ JoinClock /\ [Next]_vars => JoinClock'
<1> SUFFICES ASSUME TypeOK, JoinClock, [Next]_vars PROVE JoinClock'
  OBVIOUS
<1>1. ASSUME UNCHANGED elapsed PROVE JoinClock'
  BY <1>1 DEF JoinClock
<1>2. ASSUME Begin \/ ConnectSub \/ DrainPub PROVE JoinClock'
  BY <1>1, <1>2 DEF Begin, ConnectSub, DrainPub, agentvars, clockvars
<1>3. ASSUME NEW kind \in PubOps, Publish(kind) PROVE JoinClock'
  <2>1. CASE PublishReady(kind)
    BY <2>1, StampElsewhere DEF PublishReady
  <2>2. CASE PublishHeldBack(kind)
    BY <2>2, StampElsewhere DEF PublishHeldBack
  <2>3. CASE PublishReconnects(kind)
    BY <2>3, StampElsewhere DEF PublishReconnects
  <2> QED
    BY <1>3, <2>1, <2>2, <2>3 DEF Publish
<1>4. ASSUME Poll PROVE JoinClock'
  <2>1. CASE PollReady \/ PollHeldBack
    BY <1>1, <2>1 DEF PollReady, PollHeldBack, clockvars
  <2>2. CASE PollReconnects
    BY <2>2, StampElsewhere DEF PollReconnects
  <2> QED
    BY <1>4, <2>1, <2>2 DEF Poll
<1>5. ASSUME NEW t \in Topics, Subscribe(t) PROVE JoinClock'
  BY <1>1, <1>5
  DEF Subscribe, SubscribeRefused, SubscribeStored, SubscribeSent,
      SubscribeFails, Remembers, clockvars
<1>6. ASSUME WifiUp \/ JoinSucceeds PROVE JoinClock'
  BY <1>6, StampElsewhere DEF WifiUp, JoinSucceeds, Associated
<1>7. ASSUME WifiHeldBack \/ JoinTimesOut \/ AddressKnown \/ AddressTimesOut
      PROVE  JoinClock'
  BY <1>1, <1>7
  DEF WifiHeldBack, JoinTimesOut, AddressKnown, AddressTimesOut, clockvars
<1>8. ASSUME JoinStarts PROVE JoinClock'
  BY <1>8, StampElsewhere DEF JoinStarts
<1>9. ASSUME NEW opens \in BOOLEAN, DialSettings(opens) \/ Dial(opens)
      PROVE  JoinClock'
  BY <1>1, <1>9 DEF DialSettings, Dial, clockvars
<1>10. ASSUME Handshake PROVE JoinClock'
  <2>1. CASE GreetPub
    BY <2>1, StampElsewhere DEF GreetPub
  <2>2. CASE GreetSettings \/ GreetSub
    BY <1>1, <2>2 DEF GreetSettings, GreetSub, clockvars
  <2>3. ASSUME NEW stage, NEW l, Rejected(stage, l) \/ HandshakeFails(stage, l)
        PROVE  JoinClock'
    BY <1>1, <2>3 DEF Rejected, HandshakeFails, GivesUp, clockvars
  <2> QED
    BY <1>10, <2>1, <2>2, <2>3 DEF Handshake
<1>11. ASSUME SettingsArrive \/ SettingsUnusable \/ ReplayFails PROVE JoinClock'
  BY <1>1, <1>11
  DEF SettingsArrive, SettingsUnusable, ReplayFails, GivesUp, clockvars
<1>12. ASSUME Replay PROVE JoinClock'
  BY <1>12, StampElsewhere DEF Replay
<1>13. ASSUME SendDone \/ SendFails PROVE JoinClock'
  BY <1>1, <1>13 DEF SendDone, SendFails, clockvars
<1>14. ASSUME NEW delivered \in BOOLEAN, Receive(delivered) PROVE JoinClock'
  BY <1>14, StampElsewhere DEF Receive
<1>15. ASSUME Tick PROVE JoinClock'
  BY <1>15 DEF Tick, JoinClock, Stamps, Cap
<1>16. ASSUME Environment PROVE JoinClock'
  BY <1>16 DEF Environment, AgentUntouched, JoinClock, TypeOK, Stamps
<1>17. ASSUME UNCHANGED vars PROVE JoinClock'
  BY <1>1, <1>17 DEF vars, agentvars, clockvars
<1>18. ASSUME BrokerAnswers PROVE JoinClock'
  BY <1>18, StampElsewhere DEF BrokerAnswers
<1> QED
  BY <1>2, <1>3, <1>4, <1>5, <1>6, <1>7, <1>8, <1>9, <1>10, <1>11, <1>12,
     <1>13, <1>14, <1>15, <1>16, <1>17, <1>18
  DEF Next, Calls, Proceed

-----------------------------------------------------------------------------
(***************************************************************************)
(* The theorems.                                                           *)
(***************************************************************************)

\* The inductive invariant behind the age of the PUB link.
LEMMA InvariantHolds == Spec => [](TypeOK /\ CallShape /\ PubAge)
<1>1. Init => CallShape /\ PubAge
  BY DEF Init, NetInit, CallShape, PubAge, Link, PubOps, SubOps, Sockets
<1> QED
  BY <1>1, TypeCorrect, TypeInductive, CallShapeKept, PubAgeKept, PTL DEF Spec

\* publish() never reports success on a link whose peer vanished longer ago than
\* the refresh interval and one wait of the handshake, whatever the sketch calls
\* and whatever broker and radio do: the timer of ensure_pub_link() bounds the
\* black hole, and it starts when the handshake has returned.
THEOREM BlackHoleIsBounded == Spec => []BlackHoleBounded
<1>1. TypeOK /\ CallShape /\ PubAge => BlackHoleBounded
  <2> SUFFICES ASSUME TypeOK, CallShape, PubAge, PubRefresh > 0, pc = "send",
                      sock["pub"] = "silent"
               PROVE  elapsed["silent"] < PubRefresh + Timeout
    BY DEF BlackHoleBounded
  <2>1. /\ elapsed["silent"] <= elapsed["pub_connect"] + Timeout
        /\ elapsed["pub_connect"] < PubRefresh
    BY IntervalAssumption DEF PubAge
  <2>2. elapsed["silent"] \in Nat /\ elapsed["pub_connect"] \in Nat
    BY DEF TypeOK, Stamps
  <2> QED
    BY <2>1, <2>2, IntervalAssumption
<1> QED
  BY <1>1, InvariantHolds, PTL

\* A sketch that publishes JSON only never writes to a socket that the agent
\* has closed: after a failed send the next call reconnects first.  (The blob
\* overload breaks this, see the run blob_write_after_close.)
THEOREM JsonReconnectsFirst ==
    ASSUME JsonOnly PROVE Spec => []NoWriteToClosedLink
<1>1. Init => PubAssumption
  BY DEF Init, PubAssumption, PubOps, Link
<1>2. TypeOK /\ CallShape /\ PubAssumption /\ [Next]_vars => PubAssumption'
  BY PubAssumptionKept, JsonOnly
<1>3. PubAssumption => NoWriteToClosedLink
  BY DEF PubAssumption, NoWriteToClosedLink
<1> QED
  BY <1>1, <1>2, <1>3, InvariantHolds, PTL DEF Spec

\* A live SUB link carries every remembered topic that subscribe() did not fail
\* to write to this very link, in whatever order the sketch subscribes, connects
\* and loses its connection, provided every topic fits its slot.
THEOREM SubscriptionsAreReplayed ==
    ASSUME TopicsFit PROVE Spec => []SubscriptionsReplayed
<1>1. Init => SubReplay
  BY DEF Init, NetInit, SubReplay, Sockets
<1>2. TypeOK /\ CallShape /\ SubReplay /\ [Next]_vars => SubReplay'
  BY SubReplayKept, TopicsFit
<1>3. SubReplay => SubscriptionsReplayed
  BY DEF SubReplay, SubscriptionsReplayed
<1> QED
  BY <1>1, <1>2, <1>3, InvariantHolds, PTL DEF Spec

\* Only the message of the call that reconnects carries the address the board
\* had before: the next one has the new address.
THEOREM AddressIsStaleOnce == Spec => []StaleAddressOnce
<1>1. Init => StaleAddressOnce
  BY DEF Init, StaleAddressOnce
<1> QED
  BY <1>1, StaleAddressKept, TypeCorrect, PTL DEF Spec

\* publish() and poll() dial only ports that a reply of the broker has named.
THEOREM PortsAreKnown == Spec => []PortsKnown
<1>1. Init => PortsKnown
  BY DEF Init, PortsKnown
<1> QED
  BY <1>1, PortsKnownKept, TypeCorrect, PTL DEF Spec

\* All callers together re-enter WiFi.begin() no more often than once per
\* reconnect_interval(), or per wifi_backoff_max() where a sketch has set that
\* the smaller, however often the doubling of the backoff wraps.
THEOREM JoinsSpaced == Spec => JoinsAreSpaced
<1>1. TypeOK /\ JoinClock /\ [Next]_vars
        => [WifiBegins => ~attempted["wifi"]
                          \/ elapsed["join"] >= Shortest(WifiBackoffMax)]_vars
  <2> SUFFICES ASSUME TypeOK, JoinClock, [Next]_vars, WifiBegins, attempted["wifi"]
               PROVE  elapsed["join"] >= Shortest(WifiBackoffMax)
    OBVIOUS
  <2>1. JoinStarts
    BY DEF WifiBegins, Next, Calls, Begin, Publish, PublishReady,
           PublishHeldBack, PublishReconnects, Poll, PollReady, PollHeldBack,
           PollReconnects, ConnectSub, Subscribe, SubscribeRefused,
           SubscribeStored, SubscribeSent, SubscribeFails, Remembers, Call,
           DrainPub, agentvars, Proceed, WifiUp, Associated, WifiHeldBack,
           JoinSucceeds, JoinTimesOut, AddressKnown, AddressTimesOut,
           DialSettings, Dial, Handshake, GreetSettings, GreetPub, GreetSub,
           Rejected, HandshakeFails, SettingsArrive, SettingsUnusable, Replay,
           ReplayFails, SendDone, SendFails, Receive, Goto, Return, Tick,
           BrokerAnswers, Environment, AgentUntouched, vars, callvars
  <2>2. ~(elapsed["wifi"] < wifi_backoff)
    BY <2>1 DEF JoinStarts, RemainsLimited
  <2>3. /\ elapsed["wifi"] \in Nat
        /\ wifi_backoff \in Backoffs(WifiBackoffMax)
    BY DEF TypeOK, Stamps
  <2>4. ReconnectInterval \in Nat /\ WifiBackoffMax \in Nat
    BY IntervalAssumption
  <2>5. /\ wifi_backoff \in Nat /\ Shortest(WifiBackoffMax) \in Nat
        /\ wifi_backoff >= Shortest(WifiBackoffMax)
    BY <2>3, <2>4 DEF Backoffs, Shortest
  <2> QED
    BY <2>2, <2>3, <2>5 DEF JoinClock
<1>2. Init => JoinClock
  BY DEF Init, JoinClock, Stamps
<1> QED
  BY <1>1, <1>2, JoinClockKept, TypeCorrect, PTL DEF Spec, JoinsAreSpaced

=============================================================================
