---------------------------- MODULE CurveSession ----------------------------
(***************************************************************************)
(* One ZmtpSession armed with CURVE and the socket under it: the client    *)
(* side of the handshake, sealing outgoing MESSAGE frames and accepting    *)
(* incoming ones (src/mads/curve.cpp, zmtp_session.hpp, zmtp_session.cpp), *)
(* driven by the calls the agent makes (mads_agent.cpp).                   *)
(*                                                                         *)
(* Cryptography is abstract.  A key is the number of the connection it was *)
(* negotiated on, 0 after crypto_wipe(): the transient keys are drawn per  *)
(* connection.  An incoming frame opens iff nothing touched it on the way. *)
(* Plaintext is left out: a nonce that is never used twice under one key   *)
(* never seals two plaintexts.                                             *)
(***************************************************************************)
EXTENDS Naturals, Sequences

CONSTANTS
    Sends,          \* the calls that send: "json", "blob", "subscribe"
    MaxConns,       \* bound: connections
    MaxCalls,       \* bound: calls that send
    MaxFrames       \* bound: frames the broker seals on one connection

ASSUME SendsAssumption == Sends \subseteq {"json", "blob", "subscribe"}
ASSUME BoundsAssumption == {MaxConns, MaxCalls, MaxFrames} \subseteq Nat

VARIABLES
    pc,             \* where the current call is, "idle" between calls
    open,           \* does the socket take bytes, or has either side closed it?
    conns,          \* connections opened so far
    st,             \* CurveState
    secrets,        \* do the file-static transient keys hold anything?
    err,            \* g_err
    out,            \* every sealed frame that reached a socket, even in part
    torn,           \* did a frame go onto this socket incomplete?
    todo,           \* frames the current call has still to send
    caller,         \* the call that sends
    calls,          \* calls that sent so far
    inbox,          \* frames on their way to the board
    synced,         \* is the next byte to read the first of a frame?
    rx,             \* the frame whose body is being read: _rx, _rx_nonce_pending
    accepted,       \* frames accepted on this connection, as the broker numbers them
    sealed          \* last nonce the broker used on this connection

hsvars == <<secrets, err, conns>>
outvars == <<out, torn, todo, caller, calls>>
invars == <<inbox, synced, rx, accepted>>
vars == <<pc, open, st, hsvars, outvars, invars, sealed>>

CurveErrors == {"none", "no_entropy", "greeting", "welcome", "mac", "rejected",
                "timeout", "disconnected", "protocol"}
CurveStates(c) ==
    [precom : 0..c, nonce_out : Nat, nonce_in : Nat, ready : BOOLEAN]
Frames == [nonce : Nat, id : Nat, good : BOOLEAN]
SealedFrames(c) == [key : 1..c, nonce : Nat]
Paths == {"one_shot", "streamed"}
Nothing == [nonce |-> 0, id |-> 0, good |-> FALSE]
Wiped == [precom |-> 0, nonce_out |-> 0, nonce_in |-> 0, ready |-> FALSE]

TypeOK ==
    /\ pc \in {"idle", "greeting", "welcome", "initiated", "frames", "body"}
    /\ open \in BOOLEAN
    /\ conns \in Nat
    /\ st \in CurveStates(conns)
    /\ secrets \in BOOLEAN
    /\ err \in CurveErrors
    /\ out \in Seq(SealedFrames(conns))
    /\ torn \in BOOLEAN
    /\ todo \in Seq(Paths)
    /\ pc = "frames" => todo # <<>>
    /\ caller \in {"json", "blob", "subscribe", "none"}
    /\ calls \in Nat
    /\ inbox \in Seq(Frames)
    /\ synced \in BOOLEAN
    /\ rx \in Frames
    /\ accepted \in Seq(Nat)
    /\ sealed \in Nat

Init ==
    /\ pc = "idle"
    /\ open = FALSE
    /\ conns = 0
    /\ st = Wiped
    /\ secrets = FALSE
    /\ err = "none"
    /\ out = <<>>
    /\ torn = FALSE
    /\ todo = <<>>
    /\ caller = "none"
    /\ calls = 0
    /\ inbox = <<>>
    /\ synced = TRUE
    /\ rx = Nothing
    /\ accepted = <<>>
    /\ sealed = 0

-----------------------------------------------------------------------------
(***************************************************************************)
(* Opening a connection and the handshake.                                 *)
(***************************************************************************)

\* connect() succeeds; then reset(), before anything is sent.
Connect ==
    /\ pc = "idle"
    /\ conns < MaxConns
    /\ conns' = conns + 1
    /\ open' = TRUE
    /\ st' = Wiped
    /\ torn' = FALSE
    /\ inbox' = <<>>
    /\ synced' = TRUE
    /\ rx' = Nothing
    /\ accepted' = <<>>
    /\ sealed' = 0
    /\ pc' = "greeting"
    /\ UNCHANGED <<secrets, err, out, todo, caller, calls>>

\* The socket is closed, by the agent or by the peer.
Shut ==
    /\ open' = FALSE
    /\ inbox' = <<>>

Disconnect ==
    /\ pc = "idle"
    /\ open
    /\ Shut
    /\ UNCHANGED <<pc, st, hsvars, outvars, synced, rx, accepted, sealed>>

\* Mutant of GreetingFails: the reason of the failure is not recorded.
GreetingFailsSilently ==
    /\ pc = "greeting"
    /\ pc' = "idle"
    /\ Shut
    /\ UNCHANGED <<st, hsvars, outvars, synced, rx, accepted, sealed>>

\* The exchange of greetings comes before curve_handshake(), so nothing is
\* wiped; the caller closes the socket.
GreetingFails ==
    /\ pc = "greeting"
    /\ err' = "greeting"
    /\ pc' = "idle"
    /\ Shut
    /\ UNCHANGED <<st, secrets, conns, outvars, synced, rx, accepted, sealed>>

\* A handshake command on the wire, sealed under the connection's own keys.
Command(nonce) == [key |-> conns, nonce |-> nonce]

\* HELLO leaves with nonce 1.
Hello ==
    /\ pc = "greeting"
    /\ err' = "none"
    /\ st' = [Wiped EXCEPT !.nonce_out = 2]
    /\ secrets' = TRUE
    /\ out' = Append(out, Command(1))
    /\ pc' = "welcome"
    /\ UNCHANGED <<open, conns, torn, todo, caller, calls, invars, sealed>>

\* WELCOME opens: the session key is known, and INITIATE leaves.
Initiate ==
    /\ pc = "welcome"
    /\ st' = [st EXCEPT !.precom = conns, !.nonce_out = @ + 1]
    /\ out' = Append(out, Command(st.nonce_out))
    /\ pc' = "initiated"
    /\ UNCHANGED <<open, hsvars, torn, todo, caller, calls, invars, sealed>>

\* READY opens, with the first short nonce of the broker.
Ready ==
    /\ pc = "initiated"
    /\ st' = [st EXCEPT !.nonce_in = 1, !.ready = TRUE]
    /\ sealed' = 1
    /\ secrets' = FALSE
    /\ pc' = "idle"
    /\ UNCHANGED <<open, err, conns, outvars, invars>>

\* Why a step of curve_handshake() may fail.
Reasons(stage) ==
    CASE stage = "greeting"  -> {"no_entropy", "protocol", "timeout"}
      [] stage = "welcome"   -> {"no_entropy", "protocol", "timeout",
                                 "disconnected", "welcome", "mac"}
      [] stage = "initiated" -> {"protocol", "timeout", "disconnected", "mac",
                                 "rejected"}

\* Mutant of Fails: one exit returns without fail().
FailsUnwiped(e) ==
    /\ pc \in {"greeting", "welcome", "initiated"}
    /\ e \in Reasons(pc)
    /\ err' = e
    /\ IF e = "timeout" THEN UNCHANGED <<st, secrets>>
                        ELSE st' = Wiped /\ secrets' = FALSE
    /\ out' = out
    /\ pc' = "idle"
    /\ Shut
    /\ UNCHANGED <<conns, torn, todo, caller, calls, synced, rx, accepted, sealed>>

\* fail(), after which the caller closes the socket.  The command that could
\* not be sent whole may be out in part.
Fails(e) ==
    /\ pc \in {"greeting", "welcome", "initiated"}
    /\ e \in Reasons(pc)
    /\ err' = e
    /\ st' = Wiped
    /\ secrets' = FALSE
    /\ \/ out' = out
       \/ /\ e = "timeout"
          /\ \/ pc = "greeting" /\ out' = Append(out, Command(1))
             \/ pc = "welcome" /\ out' = Append(out, Command(st.nonce_out))
    /\ pc' = "idle"
    /\ Shut
    /\ UNCHANGED <<conns, torn, todo, caller, calls, synced, rx, accepted, sealed>>

-----------------------------------------------------------------------------
(***************************************************************************)
(* Sending.                                                                *)
(***************************************************************************)

\* n frames sealed under the next n nonces.
Sealed(n) ==
    [i \in 1..n |-> [key |-> st.precom, nonce |-> st.nonce_out + i - 1]]

\* What is left to send when the frames of a message go out one by one.  Topics
\* are short: only the last of three can be too long for the scratch buffer,
\* and one that is may still have fitted the batch, whose buffer is larger.
OneByOne == {<<"one_shot", "one_shot", "one_shot">>,
             <<"one_shot", "one_shot", "streamed">>}

Calls(c) ==
    /\ pc = "idle"
    /\ st.ready
    /\ c \in Sends
    /\ calls < MaxCalls
    /\ calls' = calls + 1

\* send_frames3(): the batch fits and is written whole.
BatchWritten ==
    /\ Calls("json")
    /\ open
    /\ st' = [st EXCEPT !.nonce_out = @ + 3]
    /\ out' = out \o Sealed(3)
    /\ UNCHANGED <<pc, open, hsvars, torn, todo, caller, invars, sealed>>

\* The batch fits and its write comes up short, k frames of it having begun to
\* leave: on to three single frames.
BatchCut(k) ==
    /\ Calls("json")
    /\ ~open => k = 0
    /\ st' = [st EXCEPT !.nonce_out = @ + 3]
    /\ out' = out \o Sealed(k)
    /\ torn' = (torn \/ k > 0)
    /\ todo' \in OneByOne
    /\ caller' = "json"
    /\ pc' = "frames"
    /\ UNCHANGED <<open, hsvars, invars, sealed>>

\* The batch does not fit, or the call is a blob publish: frame by frame.
Piecewise(c) ==
    /\ Calls(c)
    /\ todo' \in IF c = "subscribe" THEN {<<"one_shot">>} ELSE OneByOne
    /\ caller' = c
    /\ pc' = "frames"
    /\ UNCHANGED <<open, st, hsvars, out, torn, invars, sealed>>

\* Mutant of FrameWritten: the call goes on after its last frame.
FrameWrittenRunsOn ==
    /\ pc = "frames"
    /\ open
    /\ st' = [st EXCEPT !.nonce_out = @ + 1]
    /\ out' = out \o Sealed(1)
    /\ todo' = Tail(todo)
    /\ pc' = IF Len(todo) = 0 THEN "idle" ELSE "frames"
    /\ UNCHANGED <<open, hsvars, torn, caller, calls, invars, sealed>>

\* curve_send(): a frame leaves whole.
FrameWritten ==
    /\ pc = "frames"
    /\ open
    /\ st' = [st EXCEPT !.nonce_out = @ + 1]
    /\ out' = out \o Sealed(1)
    /\ todo' = Tail(todo)
    /\ pc' = IF Len(todo) = 1 THEN "idle" ELSE "frames"
    /\ UNCHANGED <<open, hsvars, torn, caller, calls, invars, sealed>>

\* Mutant of FrameCut: also the one-shot path counts only what was written.
FrameCutCountsLate(k) ==
    /\ pc = "frames"
    /\ ~open => k = 0
    /\ st' = st
    /\ out' = out \o Sealed(k)
    /\ torn' = (torn \/ k > 0)
    /\ todo' = <<>>
    /\ pc' = "idle"
    /\ \/ caller = "subscribe" /\ UNCHANGED <<open, inbox>>
       \/ Shut
    /\ UNCHANGED <<hsvars, caller, calls, synced, rx, accepted, sealed>>

\* curve_send(): a write comes up short (k = 1: some of the frame is out).
\* One shot has counted its nonce before the write, the streamed path would
\* have after the last one.  publish() and the replay of the subscriptions
\* then close the socket, subscribe() does not.
FrameCut(k) ==
    /\ pc = "frames"
    /\ ~open => k = 0
    /\ st' = IF Head(todo) = "one_shot" THEN [st EXCEPT !.nonce_out = @ + 1] ELSE st
    /\ out' = out \o Sealed(k)
    /\ torn' = (torn \/ k > 0)
    /\ todo' = <<>>
    /\ pc' = "idle"
    /\ \/ caller = "subscribe" /\ UNCHANGED <<open, inbox>>
       \/ Shut
    /\ UNCHANGED <<hsvars, caller, calls, synced, rx, accepted, sealed>>

-----------------------------------------------------------------------------
(***************************************************************************)
(* Receiving.                                                              *)
(***************************************************************************)

AtHeader == pc = "idle" /\ st.ready /\ inbox # <<>>

\* A read ends inside a frame, or leaves its body on the stream.
LosesSync ==
    /\ synced' = FALSE
    /\ UNCHANGED <<open, st, hsvars, outvars, accepted, sealed>>

\* Mutants of RecvHeader: the nonce is committed at once; an equal one passes.
RecvHeaderCommits ==
    /\ AtHeader /\ synced
    /\ Head(inbox).nonce > st.nonce_in
    /\ st' = [st EXCEPT !.nonce_in = Head(inbox).nonce]
    /\ rx' = Head(inbox)
    /\ inbox' = Tail(inbox)
    /\ pc' = "body"
    /\ UNCHANGED <<open, hsvars, outvars, synced, accepted, sealed>>
RecvHeaderRepeats ==
    /\ AtHeader /\ synced
    /\ Head(inbox).nonce >= st.nonce_in
    /\ rx' = Head(inbox)
    /\ inbox' = Tail(inbox)
    /\ pc' = "body"
    /\ UNCHANGED <<open, st, hsvars, outvars, synced, accepted, sealed>>

\* The prologue of a frame with a newer nonce is read; nothing is committed.
RecvHeader ==
    /\ AtHeader /\ synced
    /\ Head(inbox).nonce > st.nonce_in
    /\ rx' = Head(inbox)
    /\ inbox' = Tail(inbox)
    /\ pc' = "body"
    /\ UNCHANGED <<open, st, hsvars, outvars, synced, accepted, sealed>>

\* The frame is refused for its nonce, or its prologue is cut short or
\* malformed: the rest of it stays on the stream.
HeaderRefused ==
    /\ AtHeader /\ synced
    /\ inbox' = Tail(inbox)
    /\ LosesSync
    /\ UNCHANGED <<pc, rx>>

\* What is read in the middle of a frame is refused as well, and how many
\* bytes that takes off the stream is chance.
GarbageRefused ==
    /\ AtHeader /\ ~synced
    /\ \E n \in 0..Len(inbox) : inbox' = SubSeq(inbox, n + 1, Len(inbox))
    /\ synced' \in BOOLEAN
    /\ UNCHANGED <<pc, open, st, hsvars, outvars, rx, accepted, sealed>>

\* Mutant of EndBody: a body that is skipped needs no tag.
EndBodyUnchecked ==
    /\ pc = "body"
    /\ st' = [st EXCEPT !.nonce_in = rx.nonce]
    /\ accepted' = Append(accepted, rx.id)
    /\ rx' = Nothing
    /\ pc' = "idle"
    /\ UNCHANGED <<open, hsvars, outvars, inbox, synced, sealed>>

\* The body is read whole, kept, skipped or streamed; the tag decides.
EndBody ==
    /\ pc = "body"
    /\ IF rx.good
       THEN /\ st' = [st EXCEPT !.nonce_in = rx.nonce]
            /\ accepted' = Append(accepted, rx.id)
       ELSE UNCHANGED <<st, accepted>>
    /\ rx' = Nothing
    /\ pc' = "idle"
    /\ UNCHANGED <<open, hsvars, outvars, inbox, synced, sealed>>

\* A read of the body times out, or the caller does not want a body of this
\* length and returns.
BodyAbandoned ==
    /\ pc = "body"
    /\ pc' = "idle"
    /\ rx' = Nothing
    /\ LosesSync
    /\ UNCHANGED inbox

-----------------------------------------------------------------------------
(***************************************************************************)
(* The broker's frames, and what may happen to them on the way: the nonce  *)
(* and the tag are there for frames that are repeated, overtaken, damaged. *)
(***************************************************************************)

Stream == UNCHANGED <<pc, open, st, hsvars, outvars, synced, rx, accepted>>

BrokerSeals ==
    /\ open /\ st.ready
    /\ sealed < MaxFrames + 1
    /\ sealed' = sealed + 1
    /\ inbox' = Append(inbox, [nonce |-> sealed + 1, id |-> sealed + 1, good |-> TRUE])
    /\ Stream

Repeated(i) ==
    /\ Len(inbox) < MaxFrames
    /\ inbox' = Append(inbox, inbox[i])
    /\ UNCHANGED sealed
    /\ Stream

Overtaken(i) ==
    /\ i < Len(inbox)
    /\ inbox' = [inbox EXCEPT ![i] = inbox[i + 1], ![i + 1] = inbox[i]]
    /\ UNCHANGED sealed
    /\ Stream

Damaged(i) ==
    /\ inbox[i].good
    /\ \E n \in 0..(MaxFrames + 2) :
          inbox' = [inbox EXCEPT ![i] = [nonce |-> n, id |-> 0, good |-> FALSE]]
    /\ UNCHANGED sealed
    /\ Stream

-----------------------------------------------------------------------------

Handshake ==
    \/ Connect \/ Disconnect
    \/ GreetingFails \/ Hello \/ Initiate \/ Ready
    \/ \E e \in CurveErrors : Fails(e)

Send ==
    \/ BatchWritten
    \/ \E k \in 0..3 : BatchCut(k)
    \/ \E c \in {"json", "blob", "subscribe"} : Piecewise(c)
    \/ FrameWritten
    \/ \E k \in 0..1 : FrameCut(k)

Receive == RecvHeader \/ HeaderRefused \/ GarbageRefused \/ EndBody \/ BodyAbandoned

Broker ==
    \/ BrokerSeals
    \/ \E i \in 1..Len(inbox) : Repeated(i) \/ Overtaken(i) \/ Damaged(i)

Next == Handshake \/ Send \/ Receive \/ Broker

Spec == Init /\ [][Next]_vars

-----------------------------------------------------------------------------

\* CURVE invariants 2 and 3: under one key the nonces on the wire only grow,
\* through the handshake, batches, their fallback, streamed frames, short
\* writes and reconnections.
NoncesGrow ==
    \A i, j \in 1..Len(out) :
        i < j /\ out[i].key = out[j].key => out[i].nonce < out[j].nonce

\* Between calls no transient key of the handshake is left, and the CurveState of a
\* session that is not ready is wiped, whichever of the exits the last handshake took.
\* (It says nothing of the frame coders: wipe_mechanism() leaves _rx and the static
\* g_seal with the keys of the frame that they worked on last.)
CleanBetweenCalls ==
    pc = "idle" => ~secrets /\ (st.ready \/ st = Wiped)

\* CURVE invariant 4: on one connection the session accepts frames in the order
\* the broker sealed them and each at most once, whatever happened to them.
AcceptedInOrder ==
    \A i, j \in 1..Len(accepted) : i < j => accepted[i] < accepted[j]

\* What the receiving half promises as a whole: frames of this connection, sealed by
\* the broker before they are taken, in their order, none twice and none made up.
Channel == INSTANCE SecureChannel WITH channel <- conns, sent <- sealed, got <- accepted
KeepsTheChannel == Channel!Spec

\* A damaged frame cannot move the counter past an intact one: an intact frame
\* newer than all accepted ones is not stale to the session.
FreshFramePasses ==
    pc = "idle" /\ synced /\ inbox # <<>> /\ Head(inbox).good
    /\ (\A i \in 1..Len(accepted) : accepted[i] < Head(inbox).id)
        => Head(inbox).nonce > st.nonce_in

\* CurveError::rejected is the reason of a failure only if the broker's ERROR
\* ended this very attempt: the retry interval grows for nothing else.
RejectedIsCurrent ==
    [][pc # "idle" /\ pc' = "idle" /\ ~st'.ready /\ err' = "rejected"
         => pc = "initiated"]_vars

\* publish() reports a message as sent only if no half of one is on the link.
SentMeansWhole ==
    [][pc = "frames" /\ pc' = "idle" /\ open' /\ caller # "subscribe" => ~torn']_vars

=============================================================================
