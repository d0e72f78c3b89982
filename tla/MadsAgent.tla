----------------------------- MODULE MadsAgent -----------------------------
(***************************************************************************)
(* Mads::Agent (src/mads/mads_agent.cpp, mads_agent.hpp): joining WiFi,    *)
(* fetching the settings, and keeping the PUB and the SUB link to the      *)
(* broker usable while radio and broker come and go.                       *)
(*                                                                         *)
(* The agent is one thread whose calls block.  A call is a walk through    *)
(* the values of pc, one action for every stretch of code between two      *)
(* blocking waits; the network and the clock move at the waits.            *)
(*                                                                         *)
(* A timestamp `_last_x` is kept as the time since it was taken,           *)
(* elapsed[x] == millis() - _last_x, which stops growing at Cap[x], where  *)
(* no comparison in the code tells it from a longer time any more.         *)
(***************************************************************************)
EXTENDS Network, Sequences, FiniteSets

CONSTANTS
    Ops,                \* the calls this sketch makes
    Topics,             \* topics the sketch subscribes to
    Cut,                \* Cut[t]: what the 24-byte slot keeps of topic t
    MaxSubTopics,       \* MAX_SUB_TOPICS
    Timeout,            \* _timeout_ms, for every blocking wait
    ReconnectInterval,  \* _reconnect_interval_ms
    WifiBackoffMax,     \* _wifi_backoff_max_ms
    CurveBackoffMax,    \* _curve_backoff_max_ms
    LinkCheck,          \* _link_check_ms, 0: probe always
    PubRefresh,         \* _pub_refresh_ms, 0: off
    SubSilence,         \* _sub_silence_ms, 0: off
    Modulus             \* 2^32, the range of a uint32_t

PubOps == {"json", "raw", "blob"}
SubOps == {"poll", "connect_sub", "subscribe"}

ASSUME OpsAssumption == Ops \subseteq PubOps \cup SubOps
ASSUME CutAssumption == Cut \in [Topics -> Topics]
ASSUME IntervalAssumption ==
    /\ {MaxSubTopics, Timeout, LinkCheck, PubRefresh, SubSilence} \subseteq Nat
    /\ Modulus \in Nat \ {0}
    /\ {ReconnectInterval, WifiBackoffMax, CurveBackoffMax} \subseteq 0..(Modulus - 1)

VARIABLES
    pc,             \* where the current call is, "idle" between calls
    op,             \* the current call
    answer,         \* what the broker has answered to its handshake or request
    begun,          \* begin() has run: _broker_host and the rest are set
    elapsed,        \* time since each timestamp was taken
    attempted,      \* _pub_attempted, _sub_attempted, _wifi_attempted
    assumed_up,     \* _pub_assumed_up
    wifi_backoff,   \* _wifi_backoff_ms
    curve_backoff,  \* _curve_backoff_ms
    settings_ok,    \* _settings_ok
    want_sub,       \* _want_sub
    table,          \* _sub_topics[0 .. _sub_topic_count - 1]
    hostname,       \* _hostname
    envelope,       \* the hostname inside _publish_buf
    subscribed,     \* what the broker was told on the current SUB socket
    unsent          \* topics subscribe() could not write to that socket while
                    \* it was live (a history of its answers)

callvars == <<pc, op, answer>>
clockvars == <<elapsed, attempted, assumed_up>>
backoffvars == <<wifi_backoff, curve_backoff>>
subvars == <<want_sub, table, subscribed, unsent>>
datavars == <<begun, settings_ok, hostname, envelope>>
agentvars == <<callvars, clockvars, backoffvars, subvars, datavars>>
vars == <<agentvars, netvars>>

Stamps == {"link_check", "pub_connect", "pub", "sub", "wifi", "sub_rx",
           "wait", "silent", "join"}
Attempts == {"pub", "sub", "wifi"}
Stages == {"idle", "wifi", "joining", "dhcp",
           "dial_settings", "greet_settings", "exchange",
           "dial", "greet", "replay", "send", "recv"}

\* What a backoff can be.  No setter keeps the interval below the maximum.
Backoffs(max) == {ReconnectInterval, max} \cup ReconnectInterval..max

Longest(max) == IF ReconnectInterval < max THEN max ELSE ReconnectInterval
Shortest(max) == IF ReconnectInterval < max THEN ReconnectInterval ELSE max

\* Two are no timestamps of the code and serve the properties: "silent" is the
\* age of the PUB link's death, "join" the time since WiFi.begin() was entered.
Cap == [link_check  |-> LinkCheck,
        pub_connect |-> PubRefresh,
        silent      |-> PubRefresh + Timeout,
        pub         |-> Longest(CurveBackoffMax),
        sub         |-> Longest(CurveBackoffMax),
        wifi        |-> Longest(WifiBackoffMax),
        join        |-> Longest(WifiBackoffMax),
        sub_rx      |-> SubSilence + 1,
        wait        |-> Timeout + 1]

TypeOK ==
    /\ NetTypeOK
    /\ pc \in Stages
    /\ op \in Ops \cup {"none", "begin"}
    /\ answer \in {"none", "good", "refused"}
    /\ begun \in BOOLEAN
    /\ elapsed \in [Stamps -> Nat]
    /\ \A s \in Stamps : elapsed[s] <= Cap[s]
    /\ attempted \in [Attempts -> BOOLEAN]
    /\ assumed_up \in BOOLEAN
    /\ wifi_backoff \in Backoffs(WifiBackoffMax)
    /\ curve_backoff \in Backoffs(CurveBackoffMax)
    /\ settings_ok \in BOOLEAN
    /\ want_sub \in BOOLEAN
    /\ table \in Seq(Topics)
    /\ Len(table) <= MaxSubTopics
    /\ hostname \in Addrs \cup {NoAddr}
    /\ envelope \in Addrs \cup {NoAddr}
    /\ subscribed \subseteq Topics
    /\ unsent \subseteq Topics

Init ==
    /\ NetInit
    /\ pc = "idle"
    /\ op = "none"
    /\ answer = "none"
    /\ begun = FALSE
    /\ elapsed = [s \in Stamps |-> 0]
    /\ attempted = [a \in Attempts |-> FALSE]
    /\ assumed_up = FALSE
    /\ wifi_backoff = ReconnectInterval
    /\ curve_backoff = ReconnectInterval
    /\ settings_ok = FALSE
    /\ want_sub = FALSE
    /\ table = <<>>
    /\ hostname = NoAddr
    /\ envelope = NoAddr
    /\ subscribed = {}
    /\ unsent = {}

-----------------------------------------------------------------------------
(***************************************************************************)
(* Helpers.                                                                *)
(***************************************************************************)

\* millis() is stored in every timestamp of the set.
Stamp(stamps) ==
    elapsed' = [s \in Stamps |-> IF s \in stamps THEN 0 ELSE elapsed[s]]

\* Mutants of Doubled: no wrap test; no ceiling.
DoubledUnchecked(interval, max) ==
    LET twice == (2 * interval) % Modulus
    IN  IF twice > max THEN max ELSE twice
DoubledUncapped(interval, max) == 2 * interval

\* The interval before the next attempt, doubled in a uint32_t.
Doubled(interval, max) ==
    LET twice == (2 * interval) % Modulus
    IN  IF twice > max \/ twice < interval THEN max ELSE twice

RemainsLimited(a, interval) == attempted[a] /\ elapsed[a] < interval

\* The link a call works for.
Link == IF op \in SubOps THEN "sub" ELSE "pub"

Remembered == { table[i] : i \in 1..Len(table) }

Goto(stage) == pc' = stage /\ op' = op /\ answer' = "none"
Return == pc' = "idle" /\ op' = "none" /\ answer' = "none"
Call(c, stage) ==
    /\ pc = "idle"
    /\ c = "begin" \/ c \in Ops
    /\ pc' = stage
    /\ op' = IF stage = "idle" THEN "none" ELSE c
    /\ UNCHANGED answer

-----------------------------------------------------------------------------
(***************************************************************************)
(* publish(): three overloads, all through ensure_pub_link().              *)
(***************************************************************************)

\* Mutant of FillsEnvelope: only the blob overload merges the address in.
FillsBlobEnvelope(kind) ==
    envelope' = IF kind = "blob" THEN hostname ELSE envelope

\* The two that take a JsonDocument fill the envelope before anything else.
FillsEnvelope(kind) ==
    envelope' = IF kind = "raw" THEN envelope ELSE hostname

\* connected() is asked only when the link is not assumed up.
Probes == ~(assumed_up /\ LinkCheck # 0 /\ elapsed["link_check"] < LinkCheck)
PubUp == Probes => Connected("pub")
\* Mutant of Fresh: the age since the last probe, not since the last connect.
FreshSinceProbe == PubRefresh = 0 \/ elapsed["link_check"] < PubRefresh

Fresh == PubRefresh = 0 \/ elapsed["pub_connect"] < PubRefresh

\* A link that looks up but is due for its refresh is closed.
TearDownPub ==
    /\ assumed_up' = FALSE
    /\ IF PubUp THEN Close("pub") ELSE UNCHANGED <<sock, avail>>

PublishReady(kind) ==
    /\ Call(kind, "send")
    /\ FillsEnvelope(kind)
    /\ PubUp /\ Fresh
    /\ assumed_up' = TRUE
    /\ Stamp(IF Probes THEN {"link_check"} ELSE {})
    /\ UNCHANGED <<attempted, backoffvars, subvars, begun, settings_ok,
                   hostname, netvars>>

PublishHeldBack(kind) ==
    /\ Call(kind, "idle")
    /\ FillsEnvelope(kind)
    /\ ~(PubUp /\ Fresh)
    /\ begun => RemainsLimited("pub", curve_backoff)
    /\ TearDownPub
    /\ Stamp(IF Probes THEN {"link_check"} ELSE {})
    /\ UNCHANGED <<attempted, backoffvars, subvars, begun, settings_ok,
                   hostname, wifivars, broker>>

PublishReconnects(kind) ==
    /\ Call(kind, "wifi")
    /\ FillsEnvelope(kind)
    /\ ~(PubUp /\ Fresh)
    /\ begun /\ ~RemainsLimited("pub", curve_backoff)
    /\ assumed_up' = FALSE
    /\ attempted' = [attempted EXCEPT !["pub"] = TRUE]
    /\ Stamp({"pub"} \cup IF Probes THEN {"link_check"} ELSE {})
    /\ Close("pub")
    /\ UNCHANGED <<backoffvars, subvars, begun, settings_ok, hostname,
                   wifivars, broker>>

\* The frames of the message are written.
SendDone ==
    /\ pc = "send"
    /\ Return
    /\ CanWrite("pub")
    /\ UNCHANGED <<clockvars, backoffvars, subvars, datavars, netvars>>

\* Mutant of SendFails: the socket is closed, the link still assumed up.
SendFailsQuietly ==
    /\ pc = "send"
    /\ Return
    /\ Close("pub")
    /\ UNCHANGED <<clockvars, backoffvars, subvars, datavars, wifivars, broker>>

\* A short write closes the socket; only the JSON overloads also stop
\* assuming that the link is up.
SendFails ==
    /\ pc = "send"
    /\ Return
    /\ Close("pub")
    /\ assumed_up' = (assumed_up /\ op = "blob")
    /\ UNCHANGED <<elapsed, attempted, backoffvars, subvars, datavars,
                   wifivars, broker>>

DrainPub ==
    /\ pc = "idle"
    /\ avail["pub"]
    /\ avail' = [avail EXCEPT !["pub"] = FALSE]
    /\ UNCHANGED <<agentvars, wifivars, broker, sock>>

-----------------------------------------------------------------------------
(***************************************************************************)
(* begin(), poll() and its ensure_sub_link(), connect_sub(), subscribe().  *)
(***************************************************************************)

\* begin() is called once, from setup().
Begin ==
    /\ Call("begin", "wifi")
    /\ ~begun
    /\ begun' = TRUE
    /\ UNCHANGED <<clockvars, backoffvars, subvars, settings_ok, hostname,
                   envelope, netvars>>

\* Mutant of GoneQuiet: the test of connected() is inverted.
GoneQuietInverted ==
    SubSilence > 0 /\ ~Connected("sub") /\ elapsed["sub_rx"] > SubSilence

\* The optional watchdog on a SUB link that has gone quiet.
GoneQuiet ==
    SubSilence > 0 /\ Connected("sub") /\ elapsed["sub_rx"] > SubSilence

SubUp == Connected("sub") /\ ~GoneQuiet

PollReady ==
    /\ Call("poll", "recv")
    /\ want_sub
    /\ SubUp
    /\ avail["sub"]
    /\ UNCHANGED <<clockvars, backoffvars, subvars, datavars, netvars>>

PollHeldBack ==
    /\ Call("poll", "idle")
    /\ want_sub
    /\ ~SubUp
    /\ begun => RemainsLimited("sub", curve_backoff)
    /\ Close("sub")
    /\ UNCHANGED <<clockvars, backoffvars, subvars, datavars, wifivars, broker>>

PollReconnects ==
    /\ Call("poll", "wifi")
    /\ want_sub
    /\ ~SubUp
    /\ begun /\ ~RemainsLimited("sub", curve_backoff)
    /\ attempted' = [attempted EXCEPT !["sub"] = TRUE]
    /\ Stamp({"sub"})
    /\ Close("sub")
    /\ UNCHANGED <<assumed_up, backoffvars, subvars, datavars, wifivars, broker>>

\* One message is taken off the link: delivered to the sketch, or dropped
\* because it is malformed or does not fit.
Receive(delivered) ==
    /\ pc = "recv"
    /\ Return
    /\ avail' = [avail EXCEPT !["sub"] = FALSE]
    /\ Stamp(IF delivered THEN {"sub_rx"} ELSE {})
    /\ UNCHANGED <<attempted, assumed_up, backoffvars, subvars, datavars,
                   wifivars, broker, sock>>

\* Neither WiFi nor the settings are seen to here, and there is no rate limit.
ConnectSub ==
    /\ Call("connect_sub", IF begun THEN "dial" ELSE "idle")
    /\ want_sub' = TRUE
    /\ UNCHANGED <<clockvars, backoffvars, table, subscribed, unsent, datavars,
                   netvars>>

\* The topic is remembered first; a full table ends the call there.
SubscribeRefused(t) ==
    /\ Call("subscribe", "idle")
    /\ t \notin Remembered
    /\ Len(table) >= MaxSubTopics
    /\ want_sub' = TRUE
    /\ UNCHANGED <<clockvars, backoffvars, table, subscribed, unsent, datavars,
                   netvars>>

Remembers(t) ==
    /\ Call("subscribe", "idle")
    /\ t \in Remembered \/ Len(table) < MaxSubTopics
    /\ table' = IF t \in Remembered THEN table ELSE Append(table, Cut[t])
    /\ want_sub' = TRUE
    /\ UNCHANGED <<clockvars, backoffvars, datavars, wifivars, broker, avail>>

SubscribeStored(t) ==
    /\ Remembers(t)
    /\ ~Connected("sub")
    /\ UNCHANGED <<subscribed, unsent, sock>>

SubscribeSent(t) ==
    /\ Remembers(t)
    /\ Connected("sub") /\ CanWrite("sub")
    /\ subscribed' = IF sock["sub"] = "live" THEN subscribed \cup {t}
                     ELSE subscribed
    /\ unsent' = unsent \ {t}
    /\ UNCHANGED sock

\* The short write is reported, and the link is left as it is.
SubscribeFails(t) ==
    /\ Remembers(t)
    /\ Connected("sub")
    /\ sock' \in AfterShortWrite("sub")
    /\ unsent' = IF sock["sub"] = "live" THEN unsent \cup {t} ELSE unsent
    /\ UNCHANGED subscribed

-----------------------------------------------------------------------------
(***************************************************************************)
(* ensure_wifi(), which every reconnection runs first.                     *)
(***************************************************************************)

\* Association is there: on to waiting for an address.
Associated ==
    /\ radio = "up"
    /\ wifi_backoff' = ReconnectInterval
    /\ Stamp({"wait"})
    /\ Goto("dhcp")
    /\ UNCHANGED <<attempted, assumed_up, curve_backoff, subvars, datavars,
                   netvars>>

WifiUp == pc = "wifi" /\ Associated

WifiHeldBack ==
    /\ pc = "wifi"
    /\ Return
    /\ radio # "up"
    /\ RemainsLimited("wifi", wifi_backoff)
    /\ UNCHANGED <<clockvars, backoffvars, subvars, datavars, netvars>>

\* Mutant of JoinStarts: poll() keeps an attempt clock of its own.
JoinStartsOwnClock ==
    /\ pc = "wifi"
    /\ Goto("joining")
    /\ radio # "up"
    /\ ~RemainsLimited("wifi", wifi_backoff)
    /\ attempted' = [attempted EXCEPT !["wifi"] = TRUE]
    /\ Stamp(IF op = "poll" THEN {"join", "wait"}
          ELSE {"join", "wifi", "wait"})
    /\ radio' = "joining"
    /\ UNCHANGED <<assumed_up, backoffvars, subvars, datavars, ap, ip, broker,
                   sock, avail>>

\* WiFi.begin()
JoinStarts ==
    /\ pc = "wifi"
    /\ Goto("joining")
    /\ radio # "up"
    /\ ~RemainsLimited("wifi", wifi_backoff)
    /\ attempted' = [attempted EXCEPT !["wifi"] = TRUE]
    /\ Stamp({"join", "wifi", "wait"})
    /\ radio' = "joining"
    /\ UNCHANGED <<assumed_up, backoffvars, subvars, datavars, ap, ip, broker,
                   sock, avail>>

JoinSucceeds == pc = "joining" /\ Associated

\* Mutant of JoinTimesOut: only a failure that the module reports ends the wait.
JoinTimesOutIfRefused ==
    /\ pc = "joining"
    /\ Return
    /\ radio = "down"
    /\ elapsed["wait"] > Timeout
    /\ wifi_backoff' = Doubled(wifi_backoff, WifiBackoffMax)
    /\ UNCHANGED <<clockvars, curve_backoff, subvars, datavars, netvars>>

JoinTimesOut ==
    /\ pc = "joining"
    /\ Return
    /\ radio # "up"
    /\ elapsed["wait"] > Timeout
    /\ wifi_backoff' = Doubled(wifi_backoff, WifiBackoffMax)
    /\ UNCHANGED <<clockvars, curve_backoff, subvars, datavars, netvars>>

\* Mutant of AddressKnown: a reconnection never fetches missing settings.
AddressKnownIsEnough ==
    /\ pc = "dhcp"
    /\ ip # NoAddr
    /\ hostname' = ip
    /\ Goto(IF op = "begin" THEN "dial_settings" ELSE "dial")
    /\ UNCHANGED <<clockvars, backoffvars, subvars, begun, settings_ok,
                   envelope, netvars>>

AddressKnown ==
    /\ pc = "dhcp"
    /\ ip # NoAddr
    /\ hostname' = ip
    /\ Goto(IF op # "begin" /\ settings_ok THEN "dial" ELSE "dial_settings")
    /\ UNCHANGED <<clockvars, backoffvars, subvars, begun, settings_ok,
                   envelope, netvars>>

AddressTimesOut ==
    /\ pc = "dhcp"
    /\ Return
    /\ ip = NoAddr
    /\ elapsed["wait"] > Timeout
    /\ UNCHANGED <<clockvars, backoffvars, subvars, datavars, netvars>>

-----------------------------------------------------------------------------
(***************************************************************************)
(* The handshake of any socket.                                            *)
(***************************************************************************)

\* The socket a handshake or the settings exchange waits on.
Awaited == IF pc = "greet" THEN Link ELSE "settings"

\* The broker's last word, READY or ERROR, or its reply to a request.  It can be
\* read from then on, also if the peer is gone before it is.  The wait that
\* reads it has begun by now, so it lasts no longer than a timeout from here.
BrokerAnswers ==
    /\ pc \in {"greet_settings", "exchange", "greet"}
    /\ sock[Awaited] = "live"
    /\ answer = "none"
    /\ answer' = IF pc = "exchange" \/ broker = "accepts" THEN "good"
                 ELSE "refused"
    /\ Stamp({"wait"})
    /\ UNCHANGED <<pc, op, attempted, assumed_up, backoffvars, subvars, datavars,
                   netvars>>

\* The handshake, or a later exchange, came to nothing: the socket is closed
\* and the call returns.
GivesUp(l) ==
    /\ Return
    /\ Close(l)
    /\ UNCHANGED <<clockvars, wifi_backoff, subvars, begun, hostname,
                   envelope, wifivars, broker>>

\* note_handshake_failure() after CurveError::rejected.
Rejected(stage, l) ==
    /\ pc = stage
    /\ answer = "refused"
    /\ GivesUp(l)
    /\ curve_backoff' = Doubled(curve_backoff, CurveBackoffMax)
    /\ UNCHANGED settings_ok

\* Any other failure leaves the interval as it is: the answer is late, or was
\* lost with the connection.
HandshakeFails(stage, l) ==
    /\ pc = stage
    /\ answer = "none" \/ sock[l] # "live"
    /\ GivesUp(l)
    /\ UNCHANGED <<curve_backoff, settings_ok>>

-----------------------------------------------------------------------------
(***************************************************************************)
(* fetch_settings()                                                        *)
(***************************************************************************)

DialSettings(opens) ==
    /\ pc = "dial_settings"
    /\ settings_ok' = FALSE
    /\ Connect("settings", opens)
    /\ IF opens THEN Goto("greet_settings") ELSE Return
    /\ UNCHANGED <<clockvars, backoffvars, subvars, begun, hostname, envelope,
                   wifivars, broker>>

GreetSettings ==
    /\ pc = "greet_settings"
    /\ answer = "good"
    /\ curve_backoff' = ReconnectInterval
    /\ Goto("exchange")
    /\ UNCHANGED <<clockvars, wifi_backoff, subvars, datavars, netvars>>

SettingsArrive ==
    /\ pc = "exchange"
    /\ answer = "good"
    /\ settings_ok' = TRUE
    /\ Close("settings")
    /\ Goto("dial")
    /\ UNCHANGED <<clockvars, backoffvars, subvars, begun, hostname, envelope,
                   wifivars, broker>>

\* Half a reply, one that fails authentication, or one without the two ports.
SettingsUnusable ==
    /\ pc = "exchange"
    /\ GivesUp("settings")
    /\ UNCHANGED <<curve_backoff, settings_ok>>

-----------------------------------------------------------------------------
(***************************************************************************)
(* Opening the PUB or the SUB socket.                                      *)
(***************************************************************************)

Dial(opens) ==
    /\ pc = "dial"
    /\ Connect(Link, opens)
    /\ IF opens THEN Goto("greet") ELSE Return
    /\ subscribed' = IF Link = "sub" THEN {} ELSE subscribed
    /\ unsent' = IF Link = "sub" THEN {} ELSE unsent
    /\ UNCHANGED <<clockvars, backoffvars, want_sub, table, datavars,
                   wifivars, broker>>

GreetPub ==
    /\ pc = "greet"
    /\ Link = "pub"
    /\ answer = "good"
    /\ curve_backoff' = ReconnectInterval
    /\ Stamp({"pub_connect", "link_check"})
    /\ assumed_up' = TRUE
    /\ IF op = "begin" THEN Return ELSE Goto("send")
    /\ UNCHANGED <<attempted, wifi_backoff, subvars, datavars, netvars>>

\* connect_sub() notes the success now, ensure_sub_link() after the replay.
GreetSub ==
    /\ pc = "greet"
    /\ Link = "sub"
    /\ answer = "good"
    /\ curve_backoff' = IF op = "connect_sub" THEN ReconnectInterval
                        ELSE curve_backoff
    /\ Goto("replay")
    /\ UNCHANGED <<clockvars, wifi_backoff, subvars, datavars, netvars>>

\* Mutant of Replay: the first topic of the table is skipped.
ReplaySkipsFirst ==
    /\ pc = "replay"
    /\ Remembered # {} => CanWrite("sub")
    /\ subscribed' = IF sock["sub"] = "live"
                     THEN subscribed \cup { table[i] : i \in 2..Len(table) }
                     ELSE subscribed
    /\ Stamp({"sub_rx"})
    /\ curve_backoff' = ReconnectInterval
    /\ IF op = "poll" /\ avail["sub"] THEN Goto("recv") ELSE Return
    /\ UNCHANGED <<attempted, assumed_up, wifi_backoff, want_sub, table, unsent,
                   datavars, netvars>>

Replay ==
    /\ pc = "replay"
    /\ Remembered # {} => CanWrite("sub")
    /\ subscribed' = IF sock["sub"] = "live" THEN subscribed \cup Remembered
                     ELSE subscribed
    /\ Stamp({"sub_rx"})
    /\ curve_backoff' = ReconnectInterval
    /\ IF op = "poll" /\ avail["sub"] THEN Goto("recv") ELSE Return
    /\ UNCHANGED <<attempted, assumed_up, wifi_backoff, want_sub, table, unsent,
                   datavars, netvars>>

ReplayFails ==
    /\ pc = "replay"
    /\ Remembered # {}
    /\ GivesUp("sub")
    /\ UNCHANGED <<curve_backoff, settings_ok>>

-----------------------------------------------------------------------------

\* Time passes while the sketch is elsewhere and while a call waits; nothing
\* waits between ensure_pub_link() and the first write, and an answer that is
\* there is not waited for beyond the timeout.
Tick ==
    /\ pc # "send"
    /\ answer # "none" => elapsed["wait"] < Timeout
    /\ elapsed' = [s \in Stamps |->
                     IF elapsed[s] < Cap[s] THEN elapsed[s] + 1 ELSE elapsed[s]]
    /\ UNCHANGED <<callvars, attempted, assumed_up, backoffvars, subvars,
                   datavars, netvars>>

Publish(kind) ==
    PublishReady(kind) \/ PublishHeldBack(kind) \/ PublishReconnects(kind)
Poll == PollReady \/ PollHeldBack \/ PollReconnects
Subscribe(t) ==
    \/ SubscribeRefused(t) \/ SubscribeStored(t)
    \/ SubscribeSent(t) \/ SubscribeFails(t)
Handshake ==
    \/ GreetSettings \/ GreetPub \/ GreetSub
    \/ Rejected("greet_settings", "settings") \/ Rejected("greet", Link)
    \/ HandshakeFails("greet_settings", "settings")
    \/ HandshakeFails("greet", Link)

\* The steps a call in progress can always take one of, sooner or later.
Proceed ==
    \/ WifiUp \/ WifiHeldBack \/ JoinStarts \/ JoinSucceeds \/ JoinTimesOut
    \/ AddressKnown \/ AddressTimesOut
    \/ \E opens \in BOOLEAN : DialSettings(opens) \/ Dial(opens)
    \/ Handshake
    \/ SettingsArrive \/ SettingsUnusable
    \/ Replay \/ ReplayFails
    \/ SendDone \/ SendFails
    \/ \E delivered \in BOOLEAN : Receive(delivered)

Calls ==
    \/ Begin
    \/ \E kind \in PubOps : Publish(kind)
    \/ Poll
    \/ ConnectSub
    \/ \E t \in Topics : Subscribe(t)
    \/ DrainPub

\* The age of the PUB link's death starts when the link stops being live.
AgentUntouched ==
    /\ elapsed' = IF sock["pub"] = "live" /\ sock'["pub"] # "live"
                  THEN [elapsed EXCEPT !["silent"] = 0] ELSE elapsed
    /\ UNCHANGED <<callvars, attempted, assumed_up, backoffvars, subvars,
                   datavars>>

Environment ==
    /\ \/ BrokerStops
       \/ \E policy \in {"accepts", "rejects"} : BrokerStarts(policy)
       \/ \E l \in Sockets : PeerLost(l) \/ PeerLossNoticed(l)
       \/ PeerSends("pub")
       \/ PeerSends("sub") /\ subscribed # {}
       \/ ApLost \/ ApBack \/ Associates \/ DhcpAnswers
    /\ AgentUntouched

Next == Calls \/ Proceed \/ Tick \/ BrokerAnswers \/ Environment

Spec == Init /\ [][Next]_vars

-----------------------------------------------------------------------------
(***************************************************************************)
(* Safety.                                                                 *)
(***************************************************************************)

\* publish() reports success on a link whose peer has vanished unnoticed only
\* while the loss is younger than the refresh interval and one wait of the
\* handshake, which may end on the last word of a peer that is gone: the timer
\* of ensure_pub_link() bounds how long messages can fall into the hole.
BlackHoleBounded ==
    PubRefresh > 0 /\ pc = "send" /\ sock["pub"] = "silent"
        => elapsed["silent"] < PubRefresh + Timeout

\* publish() never writes to a socket the agent itself has closed: after a
\* failed send the next call takes the reconnect path of ensure_pub_link().
NoWriteToClosedLink == pc = "send" => sock["pub"] # "closed"

\* A live SUB link the agent is done setting up carries every remembered
\* topic, whatever order connect_sub(), subscribe() and reconnections came in,
\* but for those that subscribe() itself could not write to this very link: it
\* returned false, and the topic waits for the next link or the next call.
SubscriptionsReplayed ==
    sock["sub"] = "live" /\ (pc \in {"idle", "send", "recv"} \/ Link = "pub")
        => Remembered \subseteq subscribed \cup unsent

\* The frontend or backend port is dialled only once a reply of the broker has
\* named it, also when begin() failed and publish() or poll() does its work.
\* (connect_sub() does not look: it trusts the sketch to call it after begin().)
PortsKnown ==
    pc \in {"dial", "greet", "replay"} /\ op # "connect_sub" => settings_ok

\* The address a message carries is the one ensure_wifi() read last, but for the
\* message whose own call has just reconnected: the envelope is filled before
\* the call learns the new address, and no later message repeats the old one.
StaleAddressOnce ==
    pc = "send" /\ op \in {"json", "blob"} /\ envelope # hostname
        => elapsed["pub_connect"] = 0

-----------------------------------------------------------------------------
(***************************************************************************)
(* Action properties.                                                      *)
(***************************************************************************)

WifiBegins == attempted'["wifi"] /\ pc = "wifi" /\ pc' = "joining"

\* Whichever call asks for it, publish() or poll(), WiFi.begin() is re-entered
\* no sooner than reconnect_interval() after the last time, wrapping of the
\* doubled backoff included; or wifi_backoff_max(), if that is set the smaller.
JoinsAreSpaced ==
    [][WifiBegins => \/ ~attempted["wifi"]
                     \/ elapsed["join"] >= Shortest(WifiBackoffMax)]_vars

-----------------------------------------------------------------------------
(***************************************************************************)
(* Liveness.  loop() comes back to publish() and to poll() on every pass,  *)
(* whatever else it calls in between, hence the strong fairness of the     *)
(* calls and of time, which also passes while the sketch is busy.  A       *)
(* blocking call goes on with what it waits for or with its timeout; an    *)
(* access point in range lets the board in, and its DHCP server answers.   *)
(***************************************************************************)

Fairness ==
    /\ WF_vars(Proceed \/ BrokerAnswers)
    /\ SF_vars(Tick)
    /\ SF_vars(\E kind \in PubOps : Publish(kind))
    /\ SF_vars(Poll)
    /\ WF_vars((Associates \/ DhcpAnswers) /\ AgentUntouched)

FairSpec == Spec /\ Fairness

\* The steps in which the network fails a live connection: it is lost, a write
\* to it comes up short, or the broker's answer on it is late or unusable.
Fault ==
    \/ \E l \in Sockets :
          sock[l] = "live" /\ sock'[l] \in {"silent", "broken", "torn"}
    \/ SendFails /\ CanWrite("pub")
    \/ ReplayFails /\ CanWrite("sub")
    \/ \E t \in Topics : SubscribeFails(t) /\ CanWrite("sub")
    \/ SettingsUnusable /\ sock["settings"] = "live"
    \/ HandshakeFails("greet_settings", "settings") /\ sock["settings"] = "live"
    \/ HandshakeFails("greet", Link) /\ sock[Link] = "live"

\* From some point on the access point and the broker stay, the broker knows
\* the board's key, and connections are no longer lost.
NetworkSettles ==
    /\ <>[](ap /\ broker = "accepts")
    /\ <>[][~Fault]_vars

\* No call blocks for ever: every wait has its timeout, even with the access
\* point gone for good in the middle of a join.
CallsReturn == []<>(pc = "idle")

\* Once the network has settled publish() delivers again and again, also on a
\* board whose begin() failed, after any number of rejected keys, and from a
\* link whose loss nothing reports.
PubRecovers == NetworkSettles /\ <>[]begun => []<>(pc = "send" /\ sock["pub"] = "live")

\* So does the SUB link: it is live again, with every topic but those whose
\* subscribe() failed on this very link.  A link with half a subscription on it
\* is rebuilt as well, unless messages for the earlier topics reach the sketch
\* again and again and keep the silence watchdog from ever firing.
SubRecovers ==
    NetworkSettles /\ <>[](begun /\ want_sub)
        => \/ []<>(sock["sub"] = "live" /\ Remembered \subseteq subscribed \cup unsent)
           \/ <>[](sock["sub"] = "torn") /\ []<>(elapsed["sub_rx"] = 0)

=============================================================================
