----------------------------- MODULE SubStream ------------------------------
(***************************************************************************)
(* poll() over the bytes of one SUB connection, under the NULL mechanism   *)
(* (src/mads/mads_agent.cpp:494, zmtp_session.cpp, wifi_transport.hpp):    *)
(* which bytes each of its returns leaves behind for the next call.        *)
(*                                                                         *)
(* The stream is the messages not taken yet, the number of frames read of  *)
(* the first, and whether the next byte is inside a frame.  A body is told *)
(* by how its length compares with what poll() compares it with, and by    *)
(* what its first bytes mean when they are taken for a frame header.       *)
(***************************************************************************)
EXTENDS Naturals, Sequences

CONSTANTS
    Messages,       \* records [name, parts]: one part per frame
    Slow,           \* may bytes of a message come later than timeout_ms?
    MaxWire,        \* bound: messages on the stream
    Nothing,        \* no message was handed over yet
    Noise           \* a topic that is not one

\* A MADS header is 12 bytes long, and shorter than topic_cap, which is not
\* larger than payload_cap: "long" is a topic too long, "huge" a payload too
\* long.  "mads" is a MADS header for uncompressed JSON; "text" is a JSON
\* object; everything else is "other".
Parts == [len : {"short", "twelve", "long", "huge"}, is : {"mads", "text", "other"}]

\* A message has any number of frames; only the second is a MADS header.
ASSUME MessagesAssumption ==
    \A m \in Messages :
        /\ m.parts \in Seq(Parts)
        /\ m.parts # <<>>
        /\ \A i \in 1..Len(m.parts) :
              m.parts[i].is = "mads" => i = 2 /\ m.parts[i].len = "twelve"
ASSUME SlowAssumption == Slow \in BOOLEAN
ASSUME WireAssumption == MaxWire \in Nat
ASSUME NoiseAssumption == Noise \notin Messages

VARIABLES
    wire,           \* messages on the stream; of the first the end at least
    at,             \* frames of the first message already read
    rest,           \* next byte: "none" at a frame, "text" at its body, or "middle"
    pc,             \* the frame poll() wants, "idle" between calls
    topic,          \* the message topic_out was read from, or Noise
    out,            \* topic and payload handed over by the last call that was true
    disturbed,      \* history: was there a message or a delay poll() cannot take?
    link            \* history: changes with every connection

stream == <<wire, at, rest>>
vars == <<stream, pc, topic, out, disturbed, link>>

Fits(part) == part.len \in {"short", "twelve"}

\* What has a payload behind a MADS header, and what of that is delivered.
Genuine ==
    {m \in Messages :
        /\ Len(m.parts) >= 3
        /\ m.parts[2].is = "mads" /\ m.parts[3].len # "huge"}
Deliverable == {m \in Genuine : Fits(m.parts[1])}

\* The first frame a call takes for a topic after the call that took the header.
Resumes(m) == IF m.parts[2].is = "mads" THEN 4 ELSE 3

\* What is taken or dropped frame by frame without leaving anything behind: a
\* frame that may pass for a topic has one of a header's length after it.
Tolerated ==
    {m \in Messages :
        Len(m.parts) > 1 =>
            /\ Fits(m.parts[1]) /\ m.parts[2].len = "twelve"
            /\ \A i \in Resumes(m)..(Len(m.parts) - 1) :
                  Fits(m.parts[i]) => m.parts[i + 1].len = "twelve"}

TypeOK ==
    /\ wire \in Seq(Messages)
    /\ at \in Nat
    /\ wire = <<>> => at = 0 /\ rest = "none"
    /\ wire # <<>> => at < Len(Head(wire).parts)
    /\ rest \in {"none", "text", "middle"}
    /\ pc \in {"idle", "topic", "header", "payload", "swallow"}
    /\ topic \in Messages \cup {Noise}
    /\ out \in [topic : Messages \cup {Noise}, payload : Messages] \cup {Nothing}
    /\ disturbed \in BOOLEAN
    /\ link \in BOOLEAN

Init ==
    /\ wire = <<>>
    /\ at = 0
    /\ rest = "none"
    /\ pc = "idle"
    /\ topic = Noise
    /\ out = Nothing
    /\ disturbed = FALSE
    /\ link = FALSE

-----------------------------------------------------------------------------
(***************************************************************************)
(* Reading.                                                                *)
(***************************************************************************)

Part == Head(wire).parts[at + 1]
More == at + 1 < Len(Head(wire).parts)

\* The frame is read to its end.
TakesFrame ==
    /\ IF More THEN wire' = wire /\ at' = at + 1 ELSE wire' = Tail(wire) /\ at' = 0
    /\ rest' = "none"

\* The header of the frame is read and its body is not.
LeavesBody ==
    /\ rest' = IF Part.is = "text" THEN "text" ELSE "middle"
    /\ UNCHANGED <<wire, at>>

Returns == pc' = "idle" /\ UNCHANGED <<topic, out, disturbed, link>>

\* Bytes inside a frame are taken for a frame, and how far that reads is chance:
\* the rest of the first i messages, and perhaps some of the next.
ReadsNoise ==
    /\ \E i \in 0..Len(wire) :
          /\ wire' = SubSeq(wire, i + 1, Len(wire))
          /\ IF i = Len(wire)
             THEN at' = 0 /\ rest' = "none"
             ELSE /\ at' \in (IF i = 0 THEN at ELSE 0)..(Len(wire[i + 1].parts) - 1)
                  /\ rest' \in IF i = 0 /\ at' = at THEN {"middle"} ELSE {"none", "middle"}

-----------------------------------------------------------------------------
(***************************************************************************)
(* poll().                                                                 *)
(***************************************************************************)

\* available(): there is a byte to read.
Poll ==
    /\ pc = "idle"
    /\ wire # <<>>
    /\ pc' = "topic"
    /\ UNCHANGED <<stream, topic, out, disturbed, link>>

AtFrame(stage) == pc = stage /\ wire # <<>> /\ rest = "none"

\* A topic without a buffer, or without a frame behind it.
TopicUnusable ==
    /\ AtFrame("topic")
    /\ ~Fits(Part) \/ ~More
    /\ TakesFrame
    /\ Returns

TopicTaken ==
    /\ AtFrame("topic")
    /\ Fits(Part) /\ More
    /\ TakesFrame
    /\ topic' = Head(wire)
    /\ pc' = "header"
    /\ UNCHANGED <<out, disturbed, link>>

\* Not 12 bytes: poll() returns without reading the body.
HeaderOfOtherLength ==
    /\ AtFrame("header")
    /\ Part.len # "twelve"
    /\ LeavesBody
    /\ Returns

\* No MADS header, not JSON, compressed, or the last frame.
HeaderUnusable ==
    /\ AtFrame("header")
    /\ Part.len = "twelve"
    /\ Part.is # "mads" \/ ~More
    /\ TakesFrame
    /\ Returns

\* Mutant of HeaderTaken: the payload is left for the next call.
HeaderAlone ==
    /\ AtFrame("header")
    /\ Part.is = "mads" /\ More
    /\ TakesFrame
    /\ Returns

HeaderTaken ==
    /\ AtFrame("header")
    /\ Part.is = "mads" /\ More
    /\ TakesFrame
    /\ pc' = "payload"
    /\ UNCHANGED <<topic, out, disturbed, link>>

\* Mutant of PayloadTooLong: its body is not skipped.
PayloadTooLongLeft ==
    /\ AtFrame("payload")
    /\ Part.len = "huge"
    /\ LeavesBody
    /\ Returns

PayloadTooLong ==
    /\ AtFrame("payload")
    /\ Part.len = "huge"
    /\ TakesFrame
    /\ Returns

PayloadTaken ==
    /\ AtFrame("payload")
    /\ Part.len # "huge"
    /\ TakesFrame
    /\ out' = [topic |-> topic, payload |-> Head(wire)]
    /\ pc' = "idle"
    /\ UNCHANGED <<topic, disturbed, link>>

\* A read of the frame times out: its header, or some of its body, is read.
Late ==
    /\ Slow
    /\ pc \in {"topic", "header", "payload"}
    /\ wire # <<>>
    /\ \/ rest = "none" /\ pc # "topic" /\ UNCHANGED stream
       \/ rest = "none" /\ LeavesBody
       \/ rest' = "middle" /\ UNCHANGED <<wire, at>>
    /\ disturbed' = TRUE
    /\ pc' = "idle"
    /\ UNCHANGED <<topic, out, link>>

-----------------------------------------------------------------------------
(***************************************************************************)
(* poll() on a link that is not at the beginning of a frame.               *)
(***************************************************************************)

\* A JSON object begins with {" and its first nine bytes are a LARGE header with
\* a length of some 2^61: too long for a topic, so it is skipped.
SkipsText ==
    /\ pc = "topic"
    /\ rest = "text"
    /\ pc' = "swallow"
    /\ UNCHANGED <<stream, topic, out, disturbed, link>>

\* skip_frame_body() takes whatever comes.
Swallow ==
    /\ pc = "swallow"
    /\ wire # <<>>
    /\ wire' = <<>>
    /\ at' = 0
    /\ rest' = "none"
    /\ UNCHANGED <<pc, topic, out, disturbed, link>>

\* It ends when nothing comes for timeout_ms.
SwallowEnds ==
    /\ pc = "swallow"
    /\ wire = <<>>
    /\ UNCHANGED stream
    /\ Returns

\* Noise for a topic: it may pass for one.
TopicNoise ==
    /\ pc = "topic"
    /\ rest = "middle"
    /\ ReadsNoise
    /\ topic' = Noise
    /\ pc' \in {"idle", "header"}
    /\ UNCHANGED <<out, disturbed, link>>

\* Noise for a header: it has not the four letters in the right place.
HeaderNoise ==
    /\ pc = "header"
    /\ rest = "middle"
    /\ ReadsNoise
    /\ Returns

\* Nothing is left to read a header from.
HeaderMissing ==
    /\ pc = "header"
    /\ wire = <<>>
    /\ UNCHANGED stream
    /\ Returns

-----------------------------------------------------------------------------
(***************************************************************************)
(* Publishers and the link.                                                *)
(***************************************************************************)

Publish(m) ==
    /\ Len(wire) < MaxWire
    /\ wire' = Append(wire, m)
    /\ disturbed' = (disturbed \/ m \notin Tolerated)
    /\ UNCHANGED <<at, rest, pc, topic, out, link>>

\* Mutant of Reconnect: the place in the old stream is kept.
ReconnectInside ==
    /\ pc = "idle"
    /\ wire' = <<>>
    /\ disturbed' = FALSE
    /\ link' = ~link
    /\ UNCHANGED <<at, rest, pc, topic, out>>

\* The link is lost or closed by the silence watchdog, and set up again.
Reconnect ==
    /\ pc = "idle"
    /\ wire' = <<>>
    /\ at' = 0
    /\ rest' = "none"
    /\ disturbed' = FALSE
    /\ link' = ~link
    /\ UNCHANGED <<pc, topic, out>>

-----------------------------------------------------------------------------

ReadTopic == TopicUnusable \/ TopicTaken \/ SkipsText \/ TopicNoise
ReadHeader ==
    HeaderOfOtherLength \/ HeaderUnusable \/ HeaderTaken \/ HeaderNoise \/ HeaderMissing
ReadPayload == PayloadTooLong \/ PayloadTaken
Skip == Swallow \/ SwallowEnds
Read == ReadTopic \/ ReadHeader \/ ReadPayload \/ Skip

Next ==
    \/ Poll
    \/ Read
    \/ Late
    \/ \E m \in Messages : Publish(m)
    \/ Reconnect

Spec == Init /\ [][Next]_vars

\* loop() keeps calling poll(), and poll() goes on.
FairSpec == Spec /\ WF_vars(Poll) /\ WF_vars(Read)

-----------------------------------------------------------------------------

\* The messages poll() has not done with: three frames settle what becomes of one,
\* and those behind them are dropped by the calls that follow.
Pending == IF at >= 3 THEN Tail(wire) ELSE wire

\* poll() keeps the queue of messages it promises a sketch: until a message or a
\* delay it cannot take, everything is taken whole and in order; after that
\* payloads are still neither repeated nor reordered; a new link starts afresh.
Queue == INSTANCE MessageQueue WITH queue <- Pending
KeepsTheQueue == Queue!Spec

\* A sketch that keeps polling gets, on a link that is not disturbed, every message:
\* delivered if poll() can take it, dropped if not, and none stands in the way.
DeliversTheQueue == []<>~Queue!CanTake \/ []<><<Queue!Take>>_(Queue!vars)

\* poll() returns, whatever publishers send: "poll() never blocks".
PollReturns == (pc # "idle") ~> (pc = "idle")

=============================================================================
