-------------------------- MODULE SubStream_proofs --------------------------
(***************************************************************************)
(* poll() implements the queue of messages it promises: SubStream, for any *)
(* set of messages, any delays and any number of messages on the link.     *)
(***************************************************************************)
EXTENDS SubStream, TLAPS, SequenceTheorems

\* Where poll() is in a frame behind a MADS header.
AtPayload ==
    pc = "payload" =>
        /\ wire # <<>>
        /\ rest = "none"
        /\ at = 2
        /\ Head(wire).parts[2].is = "mads"

\* Where poll() is as long as nothing has disturbed the connection.
InStep ==
    ~disturbed =>
        /\ rest = "none"
        /\ pc # "swallow"
        /\ \A i \in 1..Len(wire) : wire[i] \in Tolerated
        /\ pc \in {"idle", "topic"} => at = 0 \/ at >= Resumes(Head(wire)) - 1
        /\ pc = "header" =>
              /\ wire # <<>>
              /\ \/ at = 1 /\ topic = Head(wire)
                 \/ /\ at >= Resumes(Head(wire))
                    /\ Head(wire).parts[at + 1].len = "twelve"
        /\ pc = "payload" => topic = Head(wire)

IInv == TypeOK /\ AtPayload /\ InStep

-----------------------------------------------------------------------------
(***************************************************************************)
(* Lemmas on the stream.                                                   *)
(***************************************************************************)

\* What poll() assumes of a message.
LEMMA MessageParts ==
    ASSUME NEW m \in Messages
    PROVE  /\ m.parts \in Seq(Parts)
           /\ Len(m.parts) \in Nat /\ 1 <= Len(m.parts)
           /\ \A i \in 1..Len(m.parts) :
                 m.parts[i].is = "mads" => i = 2 /\ m.parts[i].len = "twelve"
  <1>1. /\ m.parts \in Seq(Parts) /\ m.parts # <<>>
        /\ \A i \in 1..Len(m.parts) :
              m.parts[i].is = "mads" => i = 2 /\ m.parts[i].len = "twelve"
    BY MessagesAssumption
  <1>2. QED
    BY <1>1, EmptySeq

\* The call after the one that took the header starts at the third frame or later.
LEMMA ResumesAt ==
    ASSUME NEW m
    PROVE  /\ Resumes(m) \in {3, 4}
           /\ m.parts[2].is # "mads" <=> Resumes(m) = 3
  BY DEF Resumes

\* Taking the first message off the stream.
LEMMA FirstOff ==
    ASSUME NEW w \in Seq(Messages), w # <<>>
    PROVE  /\ Head(w) \in Messages
           /\ Head(w) = w[1]
           /\ Len(w) \in Nat /\ Len(w) >= 1
           /\ Tail(w) \in Seq(Messages)
           /\ Len(Tail(w)) = Len(w) - 1
           /\ \A i \in 1..Len(Tail(w)) : Tail(w)[i] = w[i + 1]
           /\ Tail(w) = SubSeq(w, 2, Len(w))
  <1>1. Tail(w) = SubSeq(w, 2, Len(w))
    BY TailIsSubSeq
  <1>2. QED
    BY <1>1, HeadTailProperties, EmptySeq

\* Taking the first i messages off the stream.
LEMMA SomeOff ==
    ASSUME NEW w \in Seq(Messages), NEW i \in 0..Len(w)
    PROVE  /\ SubSeq(w, i + 1, Len(w)) \in Seq(Messages)
           /\ Len(SubSeq(w, i + 1, Len(w))) = Len(w) - i
           /\ i = Len(w) => SubSeq(w, i + 1, Len(w)) = <<>>
           /\ i < Len(w) => /\ SubSeq(w, i + 1, Len(w)) # <<>>
                            /\ Head(SubSeq(w, i + 1, Len(w))) = w[i + 1]
  <1>1. Len(w) \in Nat /\ \A j \in i + 1..Len(w) : w[j] \in Messages
    OBVIOUS
  <1>2. /\ SubSeq(w, i + 1, Len(w)) \in Seq(Messages)
        /\ Len(SubSeq(w, i + 1, Len(w))) =
             IF i + 1 <= Len(w) THEN Len(w) - (i + 1) + 1 ELSE 0
        /\ \A j \in 1..Len(w) - (i + 1) + 1 :
              SubSeq(w, i + 1, Len(w))[j] = w[i + 1 + j - 1]
    BY <1>1, SubSeqProperties
  <1>3. Len(SubSeq(w, i + 1, Len(w))) = Len(w) - i
    BY <1>1, <1>2
  <1>4. ASSUME i = Len(w) PROVE SubSeq(w, i + 1, Len(w)) = <<>>
    BY <1>1, <1>4, SubSeqEmpty
  <1>5. ASSUME i < Len(w)
        PROVE  /\ SubSeq(w, i + 1, Len(w)) # <<>>
               /\ Head(SubSeq(w, i + 1, Len(w))) = w[i + 1]
    <2>1. SubSeq(w, i + 1, Len(w)) # <<>>
      <3>1. Len(SubSeq(w, i + 1, Len(w))) # 0
        BY <1>1, <1>3, <1>5
      <3>2. QED
        BY <3>1, EmptySeq
    <2>2. SubSeq(w, i + 1, Len(w))[1] = w[i + 1]
      BY <1>1, <1>2, <1>5
    <2>3. QED
      BY <2>1, <2>2, <1>2, FirstOff
  <1>6. QED
    BY <1>2, <1>3, <1>4, <1>5

\* Reading a frame to its end leaves the stream at a frame.
LEMMA FrameEnds ==
    ASSUME TypeOK, wire # <<>>, TakesFrame
    PROVE  /\ wire' \in Seq(Messages)
           /\ at' \in Nat
           /\ rest' = "none"
           /\ wire' = <<>> => at' = 0
           /\ wire' # <<>> => at' < Len(Head(wire').parts)
           /\ \/ More /\ wire' = wire /\ at' = at + 1
              \/ ~More /\ wire' = Tail(wire) /\ at' = 0
  <1>1. Head(wire) \in Messages /\ Tail(wire) \in Seq(Messages)
    BY FirstOff DEF TypeOK
  <1>2. Len(Head(wire).parts) \in Nat /\ at \in Nat
    BY <1>1, MessageParts DEF TypeOK
  <1>3. CASE More
    <2>1. wire' = wire /\ at' = at + 1 /\ rest' = "none"
      BY <1>3 DEF TakesFrame
    <2>2. at + 1 < Len(Head(wire).parts)
      BY <1>3 DEF More
    <2>3. at' \in Nat
      BY <1>2, <2>1
    <2>4. wire' \in Seq(Messages) /\ wire' # <<>>
      BY <2>1 DEF TypeOK
    <2>5. at' < Len(Head(wire').parts)
      BY <2>1, <2>2
    <2>6. QED
      BY <1>3, <2>1, <2>3, <2>4, <2>5
  <1>4. CASE ~More
    <2>1. wire' = Tail(wire) /\ at' = 0 /\ rest' = "none"
      BY <1>4 DEF TakesFrame
    <2>2. wire' # <<>> => Head(wire') \in Messages
      <3>1. wire' \in Seq(Messages)
        BY <1>1, <2>1
      <3>2. QED
        BY <3>1, FirstOff
    <2>3. wire' # <<>> => Len(Head(wire').parts) \in Nat /\ 1 <= Len(Head(wire').parts)
      BY <2>2, MessageParts
    <2>4. wire' # <<>> => at' < Len(Head(wire').parts)
      BY <2>1, <2>3
    <2>5. QED
      BY <1>1, <1>4, <2>1, <2>4
  <1>5. QED
    BY <1>3, <1>4

\* Reading noise leaves the stream anywhere further on.
LEMMA NoiseEnds ==
    ASSUME TypeOK, ReadsNoise
    PROVE  /\ wire' \in Seq(Messages)
           /\ at' \in Nat
           /\ rest' \in {"none", "middle"}
           /\ wire' = <<>> => at' = 0 /\ rest' = "none"
           /\ wire' # <<>> => at' < Len(Head(wire').parts)
           /\ \E i \in 0..Len(wire) : wire' = SubSeq(wire, i + 1, Len(wire))
  <1>1. wire \in Seq(Messages) /\ Len(wire) \in Nat
    BY DEF TypeOK
  <1>2. PICK i \in 0..Len(wire) :
          /\ wire' = SubSeq(wire, i + 1, Len(wire))
          /\ IF i = Len(wire)
             THEN at' = 0 /\ rest' = "none"
             ELSE /\ at' \in (IF i = 0 THEN at ELSE 0)..(Len(wire[i + 1].parts) - 1)
                  /\ rest' \in IF i = 0 /\ at' = at THEN {"middle"} ELSE {"none", "middle"}
    BY DEF ReadsNoise
  <1>3. CASE i = Len(wire)
    BY <1>1, <1>2, <1>3, SomeOff
  <1>4. CASE i < Len(wire)
    <2>1. wire' # <<>> /\ Head(wire') = wire[i + 1] /\ wire' \in Seq(Messages)
      BY <1>1, <1>2, <1>4, SomeOff
    <2>2. wire[i + 1] \in Messages
      BY <1>1, <1>4
    <2>3. Len(wire[i + 1].parts) \in Nat
      BY <2>2, MessageParts
    <2>4. /\ at' \in (IF i = 0 THEN at ELSE 0)..(Len(wire[i + 1].parts) - 1)
          /\ rest' \in {"none", "middle"}
      BY <1>1, <1>2, <1>4
    <2>5. at' \in Nat /\ at' < Len(wire[i + 1].parts)
      BY <2>3, <2>4 DEF TypeOK
    <2>6. QED
      BY <1>2, <2>1, <2>4, <2>5
  <1>5. QED
    BY <1>1, <1>3, <1>4

-----------------------------------------------------------------------------
(***************************************************************************)
(* Type correctness.                                                       *)
(***************************************************************************)

\* The two moves on the stream that a call makes keep its type.
StreamType ==
    /\ wire \in Seq(Messages)
    /\ at \in Nat
    /\ wire = <<>> => at = 0 /\ rest = "none"
    /\ wire # <<>> => at < Len(Head(wire).parts)
    /\ rest \in {"none", "text", "middle"}

CallType ==
    /\ pc \in {"idle", "topic", "header", "payload", "swallow"}
    /\ topic \in Messages \cup {Noise}
    /\ out \in [topic : Messages \cup {Noise}, payload : Messages] \cup {Nothing}
    /\ disturbed \in BOOLEAN
    /\ link \in BOOLEAN

LEMMA TypeSplits == TypeOK <=> StreamType /\ CallType
  BY DEF TypeOK, StreamType, CallType

LEMMA StreamTypeInductive ==
    ASSUME TypeOK, [Next]_vars
    PROVE  StreamType'
  <1> USE DEF StreamType
  <1>1. StreamType
    BY TypeSplits
  <1>2. ASSUME wire # <<>>, TakesFrame PROVE StreamType'
    BY <1>2, FrameEnds
  <1>3. ASSUME ReadsNoise PROVE StreamType'
    BY <1>3, NoiseEnds
  <1>4. ASSUME wire # <<>>, LeavesBody PROVE StreamType'
    BY <1>1, <1>4 DEF LeavesBody
  <1>5. ASSUME UNCHANGED stream PROVE StreamType'
    BY <1>1, <1>5 DEF stream
  <1>6. CASE Poll
    BY <1>5, <1>6 DEF Poll
  <1>7. CASE ReadTopic
    BY <1>2, <1>3, <1>5, <1>7
       DEF ReadTopic, TopicUnusable, TopicTaken, SkipsText, TopicNoise, AtFrame
  <1>8. CASE ReadHeader
    BY <1>2, <1>3, <1>4, <1>5, <1>8
       DEF ReadHeader, HeaderOfOtherLength, HeaderUnusable, HeaderTaken, HeaderNoise,
           HeaderMissing, AtFrame
  <1>9. CASE ReadPayload
    BY <1>2, <1>9 DEF ReadPayload, PayloadTooLong, PayloadTaken, AtFrame
  <1>10. CASE Skip
    <2>1. CASE Swallow
      BY <2>1, EmptySeq DEF Swallow
    <2>2. CASE SwallowEnds
      BY <1>5, <2>2 DEF SwallowEnds
    <2>3. QED
      BY <1>10, <2>1, <2>2 DEF Skip
  <1>11. CASE Late
    <2>1. wire # <<>>
      BY <1>11 DEF Late
    <2>2. CASE UNCHANGED stream
      BY <1>5, <2>2
    <2>3. CASE LeavesBody
      BY <1>4, <2>1, <2>3
    <2>4. CASE rest' = "middle" /\ UNCHANGED <<wire, at>>
      BY <1>1, <2>1, <2>4
    <2>5. QED
      BY <1>11, <2>2, <2>3, <2>4 DEF Late
  <1>12. ASSUME NEW m \in Messages, Publish(m) PROVE StreamType'
    <2>1. wire' = Append(wire, m) /\ at' = at /\ rest' = rest
      BY <1>12 DEF Publish
    <2>2. wire' \in Seq(Messages) /\ wire' # <<>>
      BY <1>1, <2>1
    <2>3. CASE wire = <<>>
      <3>1. Head(wire') = m /\ at' = 0
        BY <1>1, <2>1, <2>3
      <3>2. Len(m.parts) \in Nat /\ 1 <= Len(m.parts)
        BY MessageParts
      <3>3. QED
        BY <1>1, <2>1, <2>2, <3>1, <3>2
    <2>4. CASE wire # <<>>
      <3>1. Head(wire') = Head(wire)
        BY <1>1, <2>1, <2>4
      <3>2. QED
        BY <1>1, <2>1, <2>2, <2>4, <3>1
    <2>5. QED
      BY <2>3, <2>4
  <1>13. CASE Reconnect
    BY <1>13, EmptySeq DEF Reconnect
  <1>14. CASE UNCHANGED vars
    BY <1>5, <1>14 DEF vars
  <1>15. QED
    BY <1>6, <1>7, <1>8, <1>9, <1>10, <1>11, <1>12, <1>13, <1>14 DEF Next, Read

LEMMA CallTypeInductive ==
    ASSUME TypeOK, [Next]_vars
    PROVE  CallType'
  <1> USE DEF CallType, Returns
  <1>1. CallType /\ (wire # <<>> => Head(wire) \in Messages)
    BY TypeSplits, FirstOff DEF TypeOK
  <1>2. CASE ReadTopic
    BY <1>1, <1>2
       DEF ReadTopic, TopicUnusable, TopicTaken, SkipsText, TopicNoise, AtFrame
  <1>3. CASE ReadHeader
    BY <1>1, <1>3
       DEF ReadHeader, HeaderOfOtherLength, HeaderUnusable, HeaderTaken, HeaderNoise,
           HeaderMissing
  <1>4. CASE ReadPayload
    BY <1>1, <1>4 DEF ReadPayload, PayloadTooLong, PayloadTaken, AtFrame
  <1>5. CASE Skip
    BY <1>1, <1>5 DEF Skip, Swallow, SwallowEnds
  <1>6. CASE Poll \/ Late \/ Reconnect
    BY <1>1, <1>6 DEF Poll, Late, Reconnect
  <1>7. ASSUME NEW m \in Messages, Publish(m) PROVE CallType'
    BY <1>1, <1>7 DEF Publish
  <1>8. CASE UNCHANGED vars
    BY <1>1, <1>8 DEF vars
  <1>9. QED
    BY <1>2, <1>3, <1>4, <1>5, <1>6, <1>7, <1>8 DEF Next, Read

LEMMA TypeInductive == TypeOK /\ [Next]_vars => TypeOK'
  <1>1. TypeOK' <=> StreamType' /\ CallType'
    BY DEF TypeOK, StreamType, CallType
  <1>2. QED
    BY <1>1, StreamTypeInductive, CallTypeInductive

\* The state of poll() and of the stream under it has its type: between calls and
\* inside them the stream points at a frame that exists.
THEOREM StreamTypeCorrect == Spec => []TypeOK
  <1>1. Init => TypeOK
    <2> SUFFICES ASSUME Init PROVE StreamType /\ CallType
      BY TypeSplits
    <2>1. StreamType
      BY EmptySeq DEF Init, StreamType
    <2>2. CallType
      BY DEF Init, CallType
    <2>3. QED
      BY <2>1, <2>2
  <1>2. QED
    BY <1>1, TypeInductive, PTL DEF Spec

-----------------------------------------------------------------------------
(***************************************************************************)
(* Where poll() is on the stream.                                          *)
(***************************************************************************)

\* In a type-correct state with a frame to read, what the frame can be.
LEMMA FrameAt ==
    ASSUME TypeOK, wire # <<>>
    PROVE  /\ Head(wire) \in Messages
           /\ at + 1 \in 1..Len(Head(wire).parts)
           /\ Len(Head(wire).parts) \in Nat
           /\ Part = Head(wire).parts[at + 1]
           /\ Part.is = "mads" => at = 1 /\ Part.len = "twelve"
  <1>1. Head(wire) \in Messages
    BY FirstOff DEF TypeOK
  <1>2. /\ Len(Head(wire).parts) \in Nat
        /\ at \in Nat /\ at < Len(Head(wire).parts)
    BY <1>1, MessageParts DEF TypeOK
  <1>3. at + 1 \in 1..Len(Head(wire).parts)
    BY <1>2
  <1>4. Part = Head(wire).parts[at + 1]
    BY DEF Part
  <1>5. Part.is = "mads" => at + 1 = 2 /\ Part.len = "twelve"
    BY <1>1, <1>3, <1>4, MessageParts
  <1>6. QED
    BY <1>1, <1>2, <1>3, <1>4, <1>5

\* poll() wants a payload only behind a MADS header.
LEMMA AtPayloadInductive ==
    ASSUME TypeOK, AtPayload, [Next]_vars
    PROVE  AtPayload'
  <1> USE DEF AtPayload
  <1>1. CASE pc' # "payload"
    BY <1>1
  <1>2. CASE HeaderTaken
    <2>1. wire # <<>> /\ Part.is = "mads" /\ More /\ TakesFrame
      BY <1>2 DEF HeaderTaken, AtFrame
    <2>2. at = 1 /\ Part = Head(wire).parts[at + 1]
      BY <2>1, FrameAt
    <2>3. wire' = wire /\ at' = 2 /\ rest' = "none"
      BY <2>1, <2>2, FrameEnds
    <2>4. QED
      BY <2>1, <2>2, <2>3
  <1>3. CASE pc' = pc /\ UNCHANGED stream
    BY <1>3 DEF stream
  <1>4. ASSUME NEW m \in Messages, Publish(m), pc = "payload" PROVE AtPayload'
    <2>1. wire # <<>> /\ wire' = Append(wire, m) /\ UNCHANGED <<at, rest>>
      BY <1>4 DEF Publish
    <2>2. wire' # <<>> /\ Head(wire') = Head(wire)
      BY <2>1 DEF TypeOK
    <2>3. QED
      BY <1>4, <2>1, <2>2
  <1>5. ASSUME NEW m \in Messages, Publish(m) PROVE AtPayload'
    BY <1>1, <1>4, <1>5 DEF Publish
  <1>6. CASE ReadTopic \/ ReadPayload \/ Skip \/ Poll \/ Late \/ Reconnect
    BY <1>1, <1>6
       DEF ReadTopic, TopicUnusable, TopicTaken, SkipsText, TopicNoise,
           ReadPayload, PayloadTooLong, PayloadTaken, Skip, Swallow, SwallowEnds,
           Poll, Late, Reconnect, Returns
  <1>7. CASE ReadHeader
    BY <1>1, <1>2, <1>7
       DEF ReadHeader, HeaderOfOtherLength, HeaderUnusable, HeaderNoise,
           HeaderMissing, Returns
  <1>8. CASE UNCHANGED vars
    BY <1>3, <1>8 DEF vars
  <1>9. QED
    BY <1>5, <1>6, <1>7, <1>8 DEF Next, Read

\* The messages left are tolerated if all were.
LEMMA TailTolerated ==
    ASSUME wire \in Seq(Messages), wire # <<>>,
           \A i \in 1..Len(wire) : wire[i] \in Tolerated
    PROVE  \A i \in 1..Len(Tail(wire)) : Tail(wire)[i] \in Tolerated
  <1>1. Len(Tail(wire)) = Len(wire) - 1 /\ Len(wire) \in Nat
    BY FirstOff
  <1>2. ASSUME NEW i \in 1..Len(Tail(wire)) PROVE Tail(wire)[i] \in Tolerated
    <2>1. i + 1 \in 1..Len(wire)
      BY <1>1
    <2>2. Tail(wire)[i] = wire[i + 1]
      BY FirstOff
    <2>3. QED
      BY <2>1, <2>2
  <1>3. QED
    BY <1>2

\* At a frame, on an undisturbed connection, where poll() stands in the message.
LEMMA StandsAt ==
    ASSUME TypeOK, InStep, ~disturbed, wire # <<>>
    PROVE  /\ Head(wire) \in Tolerated
           /\ Len(Head(wire).parts) > 1 =>
                 Fits(Head(wire).parts[1]) /\ Head(wire).parts[2].len = "twelve"
           /\ pc = "topic" => at = 0 \/ at >= Resumes(Head(wire)) - 1
           /\ pc = "header" =>
                 \/ at = 1 /\ topic = Head(wire)
                 \/ /\ at >= Resumes(Head(wire))
                    /\ Head(wire).parts[at + 1].len = "twelve"
           /\ pc = "payload" => topic = Head(wire)
  <1>1. Head(wire) = wire[1] /\ 1 \in 1..Len(wire)
    BY FirstOff DEF TypeOK
  <1>2. Head(wire) \in Tolerated
    BY <1>1 DEF InStep
  <1>3. QED
    BY <1>2 DEF InStep, Tolerated

\* A frame that passes for a topic behind the header has a header's length after it.
LEMMA HeaderFollows ==
    ASSUME TypeOK, InStep, ~disturbed, wire # <<>>, Fits(Part), More,
           at >= Resumes(Head(wire)) - 1
    PROVE  Head(wire).parts[at + 2].len = "twelve"
  <1>1. Head(wire) \in Tolerated
    BY StandsAt
  <1>2. /\ Len(Head(wire).parts) \in Nat /\ at \in Nat
        /\ Part = Head(wire).parts[at + 1]
    BY FrameAt DEF TypeOK
  <1>3. Resumes(Head(wire)) \in {3, 4}
    BY ResumesAt
  <1>4. at + 1 \in Resumes(Head(wire))..(Len(Head(wire).parts) - 1)
    BY <1>2, <1>3 DEF More
  <1>5. Len(Head(wire).parts) > 1
    BY <1>2, <1>3, <1>4
  <1>6. Fits(Head(wire).parts[at + 1]) => Head(wire).parts[(at + 1) + 1].len = "twelve"
    BY <1>1, <1>4, <1>5 DEF Tolerated
  <1>7. (at + 1) + 1 = at + 2
    BY <1>2
  <1>8. QED
    BY <1>2, <1>6, <1>7

\* Taking a frame of a tolerated message, with nothing else to prove of the call.
LEMMA FrameTolerated ==
    ASSUME TypeOK, InStep, ~disturbed, wire # <<>>, TakesFrame
    PROVE  /\ rest' = "none"
           /\ \A i \in 1..Len(wire') : wire'[i] \in Tolerated
           /\ ~More => at' = 0
           /\ More => wire' = wire /\ at' = at + 1
  <1>1. wire \in Seq(Messages) /\ \A i \in 1..Len(wire) : wire[i] \in Tolerated
    BY DEF TypeOK, InStep
  <1>2. \A i \in 1..Len(Tail(wire)) : Tail(wire)[i] \in Tolerated
    BY <1>1, TailTolerated
  <1>3. CASE More
    BY <1>1, <1>3, FrameEnds
  <1>4. CASE ~More
    BY <1>2, <1>4, FrameEnds
  <1>5. QED
    BY <1>3, <1>4

LEMMA InStepInductive ==
    ASSUME TypeOK, AtPayload, InStep, [Next]_vars
    PROVE  InStep'
  <1>1. CASE disturbed'
    BY <1>1 DEF InStep
  <1>2. CASE Reconnect
    BY <1>2, EmptySeq DEF Reconnect, InStep
  <1> SUFFICES ASSUME ~disturbed, ~disturbed' PROVE InStep'
    <2>1. disturbed => disturbed' \/ Reconnect
      BY DEF Next, vars, Poll, Read, ReadTopic, ReadHeader, ReadPayload, Skip,
             TopicUnusable, TopicTaken, SkipsText, TopicNoise, HeaderOfOtherLength,
             HeaderUnusable, HeaderTaken, HeaderNoise, HeaderMissing, PayloadTooLong,
             PayloadTaken, Swallow, SwallowEnds, Late, Publish, Returns, TypeOK
    <2>2. QED
      BY <1>1, <1>2, <2>1
  <1>3. /\ rest = "none" /\ pc # "swallow"
        /\ wire \in Seq(Messages)
        /\ wire # <<>> => Len(Head(wire).parts) \in Nat
        /\ at \in Nat
        /\ Resumes(Head(wire)) \in {3, 4}
    BY FrameAt, ResumesAt DEF InStep, TypeOK
  <1>4. CASE UNCHANGED <<stream, topic>> /\ pc' = pc
    BY <1>4 DEF InStep, stream
  <1>5. CASE Poll
    BY <1>5 DEF Poll, InStep, stream
  <1>6. CASE TopicUnusable
    <2>1. /\ wire # <<>> /\ TakesFrame /\ pc = "topic" /\ pc' = "idle"
          /\ ~Fits(Part) \/ ~More
      BY <1>6 DEF TopicUnusable, AtFrame, Returns
    <2>2. CASE ~More
      BY <2>1, <2>2, FrameTolerated DEF InStep
    <2>3. CASE More
      <3>1. at >= Resumes(Head(wire)) - 1
        <4>1. at # 0
          BY <2>1, <2>3, FrameAt, StandsAt DEF More
        <4>2. QED
          BY <2>1, <4>1, StandsAt
      <3>2. wire' = wire /\ at' = at + 1
        BY <2>1, <2>3, FrameTolerated
      <3>3. at' >= Resumes(Head(wire')) - 1
        BY <1>3, <3>1, <3>2
      <3>4. QED
        BY <2>1, <3>3, FrameTolerated DEF InStep
    <2>4. QED
      BY <2>2, <2>3
  <1>7. CASE TopicTaken
    <2>1. /\ wire # <<>> /\ TakesFrame /\ pc = "topic" /\ pc' = "header"
          /\ Fits(Part) /\ More /\ topic' = Head(wire)
      BY <1>7 DEF TopicTaken, AtFrame
    <2>2. wire' = wire /\ at' = at + 1
      BY <2>1, FrameTolerated
    <2>3. CASE at = 0
      BY <2>1, <2>2, <2>3, FrameTolerated DEF InStep
    <2>4. CASE at >= Resumes(Head(wire)) - 1
      <3>1. Head(wire').parts[at' + 1].len = "twelve"
        <4>1. at' + 1 = at + 2
          BY <1>3, <2>2
        <4>2. QED
          BY <2>1, <2>2, <2>4, <4>1, HeaderFollows
      <3>2. at' >= Resumes(Head(wire'))
        BY <1>3, <2>2, <2>4
      <3>3. QED
        BY <2>1, <2>2, <3>1, <3>2, FrameTolerated DEF InStep
    <2>5. QED
      BY <2>1, <2>3, <2>4, StandsAt
  <1>8. CASE HeaderOfOtherLength
    <2>1. wire # <<>> /\ pc = "header" /\ Part.len # "twelve"
      BY <1>8 DEF HeaderOfOtherLength, AtFrame
    <2>2. Part = Head(wire).parts[at + 1] /\ at + 1 \in 1..Len(Head(wire).parts)
      BY <2>1, FrameAt
    <2>3. at = 1
      BY <2>1, <2>2, StandsAt
    <2>4. Part = Head(wire).parts[2] /\ Len(Head(wire).parts) > 1
      BY <1>3, <2>1, <2>2, <2>3
    <2>5. QED
      BY <2>1, <2>4, StandsAt
  <1>9. CASE HeaderUnusable
    <2>1. /\ wire # <<>> /\ TakesFrame /\ pc = "header" /\ pc' = "idle"
          /\ Part.is # "mads" \/ ~More
      BY <1>9 DEF HeaderUnusable, AtFrame, Returns
    <2>2. CASE ~More
      BY <2>1, <2>2, FrameTolerated DEF InStep
    <2>3. CASE More
      <3>1. wire' = wire /\ at' = at + 1
        BY <2>1, <2>3, FrameTolerated
      <3>2. CASE at = 1
        <4>1. Part = Head(wire).parts[2]
          BY <2>1, <3>2, FrameAt
        <4>2. Resumes(Head(wire')) = 3
          BY <2>1, <2>3, <3>1, <4>1, ResumesAt
        <4>3. at' >= Resumes(Head(wire')) - 1
          BY <3>1, <3>2, <4>2
        <4>4. QED
          BY <2>1, <4>3, FrameTolerated DEF InStep
      <3>3. CASE at >= Resumes(Head(wire))
        <4>1. at' >= Resumes(Head(wire')) - 1
          BY <1>3, <3>1, <3>3
        <4>2. QED
          BY <2>1, <4>1, FrameTolerated DEF InStep
      <3>4. QED
        BY <2>1, <3>2, <3>3, StandsAt
    <2>4. QED
      BY <2>2, <2>3
  <1>10. CASE HeaderTaken
    <2>1. /\ wire # <<>> /\ TakesFrame /\ pc = "header" /\ pc' = "payload"
          /\ More /\ UNCHANGED topic
      BY <1>10 DEF HeaderTaken, AtFrame
    <2>2. topic' = Head(wire')
      <3>1. at = 1
        BY <1>10, <2>1, FrameAt DEF HeaderTaken
      <3>2. topic = Head(wire)
        BY <1>3, <2>1, <3>1, StandsAt
      <3>3. QED
        BY <2>1, <3>2, FrameTolerated
    <2>3. QED
      BY <2>1, <2>2, FrameTolerated DEF InStep
  <1>11. CASE ReadPayload
    <2>1. wire # <<>> /\ TakesFrame /\ pc = "payload" /\ pc' = "idle"
      BY <1>11 DEF ReadPayload, PayloadTooLong, PayloadTaken, AtFrame, Returns
    <2>2. CASE ~More
      BY <2>1, <2>2, FrameTolerated DEF InStep
    <2>3. CASE More
      <3>1. at = 2 /\ Head(wire).parts[2].is = "mads"
        BY <2>1 DEF AtPayload
      <3>2. wire' = wire /\ at' = 3
        BY <2>1, <2>3, <3>1, FrameTolerated
      <3>3. at' >= Resumes(Head(wire')) - 1
        BY <3>1, <3>2 DEF Resumes
      <3>4. QED
        BY <2>1, <3>3, FrameTolerated DEF InStep
    <2>4. QED
      BY <2>2, <2>3
  <1>12. CASE HeaderMissing
    BY <1>12 DEF HeaderMissing, InStep
  <1>13. CASE SkipsText \/ TopicNoise \/ HeaderNoise \/ Skip
    BY <1>3, <1>13 DEF SkipsText, TopicNoise, HeaderNoise, Skip, Swallow, SwallowEnds
  <1>14. CASE Late
    BY <1>14 DEF Late
  <1>15. ASSUME NEW m \in Messages, Publish(m) PROVE InStep'
    <2>1. /\ wire' = Append(wire, m) /\ m \in Tolerated
          /\ UNCHANGED <<at, rest, pc, topic>>
      BY <1>15 DEF Publish
    <2>2. \A i \in 1..Len(wire') : wire'[i] \in Tolerated
      BY <1>3, <2>1 DEF InStep
    <2>3. CASE wire = <<>>
      <3>1. at = 0 /\ pc \notin {"header", "payload"}
        BY <2>3 DEF TypeOK, InStep, AtPayload
      <3>2. QED
        BY <1>3, <2>1, <2>2, <3>1 DEF InStep
    <2>4. CASE wire # <<>>
      <3>1. Head(wire') = Head(wire) /\ wire' # <<>>
        BY <1>3, <2>1, <2>4
      <3>2. QED
        BY <1>3, <2>1, <2>2, <3>1 DEF InStep
    <2>5. QED
      BY <2>3, <2>4
  <1>16. CASE UNCHANGED vars
    BY <1>4, <1>16 DEF vars
  <1>17. QED
    BY <1>2, <1>5, <1>6, <1>7, <1>8, <1>9, <1>10, <1>11, <1>12, <1>13, <1>14, <1>15, <1>16
       DEF Next, Read, ReadTopic, ReadHeader

LEMMA Inductive == IInv /\ [Next]_vars => IInv'
  BY TypeInductive, AtPayloadInductive, InStepInductive DEF IInv

LEMMA Invariant == Spec => []IInv
  <1>1. Init => IInv
    <2>1. Init => StreamType /\ CallType
      <3>1. Init => StreamType
        BY EmptySeq DEF Init, StreamType
      <3>2. Init => CallType
        BY DEF Init, CallType
      <3>3. QED
        BY <3>1, <3>2
    <2>2. Init => AtPayload /\ InStep
      BY EmptySeq DEF Init, AtPayload, InStep
    <2>3. QED
      BY <2>1, <2>2, TypeSplits DEF IInv
  <1>2. QED
    BY <1>1, Inductive, PTL DEF Spec

-----------------------------------------------------------------------------
(***************************************************************************)
(* Refinement.                                                             *)
(***************************************************************************)

\* The messages that are pending, from the stream.
LEMMA PendingIs ==
    ASSUME TypeOK
    PROVE  /\ Pending \in Seq(Messages) /\ Len(Pending) \in Nat
           /\ at \in Nat
           /\ at < 3 => Pending = wire
           /\ at >= 3 => wire # <<>> /\ Pending = Tail(wire)
  <1>1. wire \in Seq(Messages) /\ at \in Nat /\ (wire = <<>> => at = 0)
    BY DEF TypeOK
  <1>2. at >= 3 => wire # <<>> /\ Tail(wire) \in Seq(Messages)
    BY <1>1, FirstOff
  <1>3. QED
    BY <1>1, <1>2 DEF Pending

\* What the end of a frame does to them: the last of a message, or the third,
\* settles it.
Settles == at < 3 /\ (~More \/ at = 2)

LEMMA FramePending ==
    ASSUME TypeOK, wire # <<>>, TakesFrame
    PROVE  IF Settles THEN Pending = wire /\ Pending' = Tail(wire)
                      ELSE Pending' = Pending
  <1>1. /\ at \in Nat
        /\ at < 3 => Pending = wire
        /\ at >= 3 => Pending = Tail(wire)
    BY PendingIs
  <1>2. \/ More /\ wire' = wire /\ at' = at + 1
        \/ ~More /\ wire' = Tail(wire) /\ at' = 0
    BY FrameEnds
  <1>3. CASE ~More
    <2>1. Pending' = Tail(wire)
      BY <1>2, <1>3 DEF Pending
    <2>2. QED
      BY <1>1, <1>3, <2>1 DEF Settles
  <1>4. CASE More /\ at < 2
    <2>1. Pending' = wire
      BY <1>1, <1>2, <1>4 DEF Pending
    <2>2. QED
      BY <1>1, <1>4, <2>1 DEF Settles
  <1>5. CASE More /\ at >= 2
    <2>1. Pending' = Tail(wire)
      BY <1>1, <1>2, <1>5 DEF Pending
    <2>2. QED
      BY <1>1, <1>5, <2>1 DEF Settles
  <1>6. QED
    BY <1>1, <1>3, <1>4, <1>5

\* The end of a sequence is the end of every longer end of it.
LEMMA EndOfEnd ==
    ASSUME NEW w \in Seq(Messages), NEW a \in 0..Len(w), NEW b \in a..Len(w)
    PROVE  LET q == SubSeq(w, a + 1, Len(w))
           IN  /\ b - a \in 0..Len(q)
               /\ SubSeq(w, b + 1, Len(w)) = SubSeq(q, (b - a) + 1, Len(q))
  <1> DEFINE q == SubSeq(w, a + 1, Len(w))
             e == SubSeq(w, b + 1, Len(w))
             f == SubSeq(q, (b - a) + 1, Len(q))
  <1>1. Len(w) \in Nat /\ a \in Nat /\ b \in Nat /\ a <= b /\ b <= Len(w)
    OBVIOUS
  <1>2. /\ q \in Seq(Messages) /\ Len(q) = Len(w) - a
        /\ \A i \in 1..Len(q) : q[i] = w[a + i]
    <2>1. q \in Seq(Messages) /\ Len(q) = Len(w) - a
      BY SomeOff
    <2>2. \A i \in a + 1..Len(w) : w[i] \in Messages
      BY <1>1
    <2>3. \A i \in 1..Len(w) - (a + 1) + 1 : q[i] = w[a + 1 + i - 1]
      BY <1>1, <2>2, SubSeqProperties
    <2>4. ASSUME NEW i \in 1..Len(q) PROVE q[i] = w[a + i]
      <3>1. i \in 1..Len(w) - (a + 1) + 1 /\ a + 1 + i - 1 = a + i
        BY <1>1, <2>1
      <3>2. QED
        BY <2>3, <3>1
    <2>5. QED
      BY <2>1, <2>4
  <1>3. b - a \in 0..Len(q)
    BY <1>1, <1>2
  <1>4. /\ e \in Seq(Messages) /\ Len(e) = Len(w) - b
        /\ f \in Seq(Messages) /\ Len(f) = Len(q) - (b - a)
    <2>1. e \in Seq(Messages) /\ Len(e) = Len(w) - b
      BY <1>1, SomeOff
    <2>2. f \in Seq(Messages) /\ Len(f) = Len(q) - (b - a)
      BY <1>2, <1>3, SomeOff
    <2>3. QED
      BY <2>1, <2>2
  <1>5. Len(e) = Len(f)
    BY <1>1, <1>2, <1>4
  <1>6. ASSUME NEW i \in 1..Len(e) PROVE e[i] = f[i]
    <2>1. e[i] = w[b + 1 + i - 1]
      <3>1. \A j \in b + 1..Len(w) : w[j] \in Messages
        BY <1>1
      <3>2. \A j \in 1..Len(w) - (b + 1) + 1 : e[j] = w[b + 1 + j - 1]
        BY <1>1, <3>1, SubSeqProperties
      <3>3. i \in 1..Len(w) - (b + 1) + 1
        BY <1>1, <1>4
      <3>4. QED
        BY <3>2, <3>3
    <2>2. f[i] = q[(b - a) + 1 + i - 1]
      <3>1. \A j \in (b - a) + 1..Len(q) : q[j] \in Messages
        BY <1>1, <1>2
      <3> DEFINE d == (b - a) + 1
      <3>a. d \in Nat /\ d \in 1..Len(q) + 1
        BY <1>1, <1>2
      <3>b. \A j \in d..Len(q) : q[j] \in Messages
        BY <3>1
      <3>2. \A j \in 1..Len(q) - d + 1 : f[j] = q[d + j - 1]
        <4> DEFINE g == SubSeq(q, d, Len(q))
        <4>1. g = f
          OBVIOUS
        <4> HIDE DEF d, f, q
        <4>2. Len(q) \in Nat
          BY <1>1, <1>2
        <4>3. \A j \in 1..Len(q) - d + 1 : g[j] = q[d + j - 1]
          BY <1>2, <3>a, <3>b, <4>2, SubSeqProperties
        <4> HIDE DEF g
        <4>4. QED
          BY <4>1, <4>3
      <3>3. i \in 1..Len(q) - ((b - a) + 1) + 1
        BY <1>1, <1>2, <1>4, <1>5
      <3>4. QED
        BY <3>2, <3>3
    <2>3. /\ (b - a) + 1 + i - 1 \in 1..Len(q)
          /\ a + ((b - a) + 1 + i - 1) = b + 1 + i - 1
      BY <1>1, <1>2, <1>4
    <2>4. QED
      BY <1>2, <2>1, <2>2, <2>3
  <1>7. e = f
    BY <1>4, <1>5, <1>6, SeqEqual
  <1>8. QED
    BY <1>3, <1>7

\* How many messages of the stream are settled already.
Settled == IF at >= 3 THEN 1 ELSE 0

LEMMA PendingIsEnd ==
    ASSUME TypeOK
    PROVE  /\ Settled \in 0..Len(wire)
           /\ Pending = SubSeq(wire, Settled + 1, Len(wire))
  <1>1. wire \in Seq(Messages) /\ Len(wire) \in Nat
    BY DEF TypeOK
  <1>2. CASE at >= 3
    <2>1. wire # <<>> /\ Pending = Tail(wire)
      BY <1>2, PendingIs
    <2>2. Len(wire) >= 1 /\ Tail(wire) = SubSeq(wire, 1 + 1, Len(wire))
      BY <1>1, <2>1, FirstOff
    <2>3. QED
      BY <1>1, <1>2, <2>1, <2>2 DEF Settled
  <1>3. CASE ~(at >= 3)
    <2>1. Pending = wire /\ Settled = 0
      BY <1>3 DEF Pending, Settled
    <2>2. SubSeq(wire, 0 + 1, Len(wire)) = wire
      BY <1>1, SubSeqFull
    <2>3. QED
      BY <1>1, <2>1, <2>2
  <1>4. QED
    BY <1>2, <1>3

\* How many messages noise settles: s before, t after i were taken of n.
LEMMA SettledByNoise ==
    ASSUME NEW n \in Nat, NEW i \in 0..n, NEW s \in {0, 1}, NEW t \in {0, 1},
           s <= n, i = n => t = 0, i = 0 /\ i # n => s <= t
    PROVE  i + t \in s..n
  OBVIOUS

\* Noise takes messages off the front.
LEMMA NoisePending ==
    ASSUME TypeOK, ReadsNoise
    PROVE  \E j \in 0..Len(Pending) : Pending' = SubSeq(Pending, j + 1, Len(Pending))
  <1>1. wire \in Seq(Messages) /\ Len(wire) \in Nat /\ at \in Nat
    BY DEF TypeOK
  <1>2. PICK i \in 0..Len(wire) :
          /\ wire' = SubSeq(wire, i + 1, Len(wire))
          /\ i = Len(wire) => at' = 0
          /\ i = 0 /\ i # Len(wire) => at' >= at
    BY <1>1 DEF ReadsNoise
  <1>3. /\ wire' \in Seq(Messages) /\ at' \in Nat
        /\ wire' = <<>> => at' = 0
    BY NoiseEnds
  <1>4. Len(wire') = Len(wire) - i
    BY <1>1, <1>2, SomeOff
  <1> DEFINE b == i + Settled'
  <1>5. b \in Settled..Len(wire)
    <2>1. Settled \in {0, 1} /\ Settled' \in {0, 1} /\ Settled <= Len(wire)
      <3>1. Settled \in 0..Len(wire)
        BY PendingIsEnd
      <3>2. Settled \in {0, 1} /\ Settled' \in {0, 1}
        BY DEF Settled
      <3>3. QED
        BY <1>1, <3>1, <3>2
    <2>2. i = Len(wire) => Settled' = 0
      BY <1>2 DEF Settled
    <2>3. i = 0 /\ i # Len(wire) => Settled <= Settled'
      BY <1>1, <1>2, <1>3 DEF Settled
    <2>4. i \in 0..Len(wire) /\ Len(wire) \in Nat
      BY <1>1
    <2>5. i + Settled' \in Settled..Len(wire)
      BY <2>1, <2>2, <2>3, <2>4, SettledByNoise
    <2>6. QED
      BY <2>5
  <1>6. Pending' = SubSeq(wire, b + 1, Len(wire))
    <2>1. CASE at' >= 3
      <3>1. wire' # <<>> /\ Pending' = Tail(wire') /\ Settled' = 1
        BY <1>3, <2>1 DEF Pending, Settled
      <3>2. Tail(wire') = SubSeq(wire', 2, Len(wire'))
        BY <1>3, <3>1, FirstOff
      <3>3. b \in i..Len(wire) /\ b - i = 1
        BY <1>1, <1>5, <3>1
      <3>4. SubSeq(wire, b + 1, Len(wire)) = SubSeq(wire', (b - i) + 1, Len(wire'))
        <4> HIDE DEF b
        <4>1. i \in 0..Len(wire) /\ wire \in Seq(Messages)
          BY <1>1
        <4> DEFINE q == SubSeq(wire, i + 1, Len(wire))
        <4>2. SubSeq(wire, b + 1, Len(wire)) = SubSeq(q, (b - i) + 1, Len(q))
          BY <3>3, <4>1, EndOfEnd
        <4>3. q = wire'
          BY <1>2
        <4> HIDE DEF q
        <4>4. QED
          BY <4>2, <4>3
      <3>5. (b - i) + 1 = 2
        BY <3>3
      <3> HIDE DEF b
      <3>6. QED
        BY <3>1, <3>2, <3>4, <3>5
    <2>2. CASE ~(at' >= 3)
      <3>1. Pending' = wire' /\ Settled' = 0
        BY <2>2 DEF Pending, Settled
      <3>2. QED
        BY <1>2, <3>1
    <2>3. QED
      BY <2>1, <2>2
  <1>7. /\ b - Settled \in 0..Len(Pending)
        /\ SubSeq(wire, b + 1, Len(wire))
             = SubSeq(Pending, (b - Settled) + 1, Len(Pending))
    BY <1>1, <1>5, PendingIsEnd, EndOfEnd
  <1>8. QED
    BY <1>6, <1>7

\* The end of a frame on a connection that is not disturbed: the call goes on in
\* the same message, or the message is settled and nothing was to be delivered.
LEMMA TakesOrDrops ==
    ASSUME IInv, ~disturbed, wire # <<>>, TakesFrame, UNCHANGED <<out, disturbed, link>>,
           Settles => Head(wire) \notin Deliverable
    PROVE  [Queue!Next]_(Queue!vars)
  <1>1. TypeOK
    BY DEF IInv
  <1>2. CASE ~Settles
    BY <1>1, <1>2, FramePending DEF Queue!vars
  <1>3. CASE Settles
    <2>1. Pending = wire /\ Pending' = Tail(wire)
      BY <1>1, <1>3, FramePending
    <2>2. Queue!Drop
      BY <1>3, <2>1 DEF Queue!Drop
    <2>3. QED
      BY <2>2 DEF Queue!Take, Queue!Next
  <1>4. QED
    BY <1>2, <1>3

\* Any reading once the connection is disturbed.
LEMMA LosesSome ==
    ASSUME TypeOK, disturbed, UNCHANGED <<out, disturbed, link>>,
           NEW i \in 0..Len(Pending), Pending' = SubSeq(Pending, i + 1, Len(Pending))
    PROVE  [Queue!Next]_(Queue!vars)
  <1>1. Pending \in Seq(Messages) /\ Len(Pending) \in Nat
    BY PendingIs
  <1>2. CASE i = 0
    <2>1. Pending' = Pending
      BY <1>1, <1>2, SubSeqFull
    <2>2. QED
      BY <2>1 DEF Queue!vars
  <1>3. CASE i \in 1..Len(Pending)
    <2>1. Queue!Lose(i)
      BY <1>3 DEF Queue!Lose
    <2>2. QED
      BY <1>3, <2>1 DEF Queue!Next
  <1>4. QED
    BY <1>1, <1>2, <1>3

LEMMA FrameLoses ==
    ASSUME TypeOK, disturbed, wire # <<>>, TakesFrame, UNCHANGED <<out, disturbed, link>>
    PROVE  [Queue!Next]_(Queue!vars)
  <1>1. CASE ~Settles
    BY <1>1, FramePending DEF Queue!vars
  <1>2. CASE Settles
    <2>1. Pending = wire /\ Pending' = Tail(wire)
      BY <1>2, FramePending
    <2>2. Pending' = SubSeq(Pending, 1 + 1, Len(Pending)) /\ 1 \in 0..Len(Pending)
      BY <2>1, FirstOff DEF TypeOK
    <2>3. QED
      BY <2>2, LosesSome
  <1>3. QED
    BY <1>1, <1>2

\* A message without a MADS header is not for delivery.
LEMMA NotForDelivery ==
    ASSUME NEW m, Resumes(m) = 3 \/ ~(Len(m.parts) >= 3)
    PROVE  m \notin Deliverable
  BY ResumesAt DEF Deliverable, Genuine

LEMMA StepRefines == IInv /\ [Next]_vars => [Queue!Next]_(Queue!vars)
  <1> SUFFICES ASSUME IInv, [Next]_vars PROVE [Queue!Next]_(Queue!vars)
    OBVIOUS
  <1>1. /\ TypeOK /\ AtPayload /\ InStep
        /\ wire \in Seq(Messages) /\ Len(wire) \in Nat
        /\ at \in Nat
        /\ disturbed \in BOOLEAN
    BY DEF IInv, TypeOK
  <1>2. CASE UNCHANGED <<wire, at, out, disturbed, link>>
    <2>1. Pending' = Pending
      BY <1>2 DEF Pending
    <2>2. QED
      BY <1>2, <2>1 DEF Queue!vars
  <1>3. CASE Poll \/ SkipsText \/ HeaderOfOtherLength \/ HeaderMissing \/ SwallowEnds
    BY <1>2, <1>3
       DEF Poll, SkipsText, HeaderOfOtherLength, LeavesBody, HeaderMissing,
           SwallowEnds, Returns, stream
  <1>4. CASE TopicTaken \/ TopicUnusable
    <2>1. /\ wire # <<>> /\ TakesFrame /\ UNCHANGED <<out, disturbed, link>>
          /\ pc = "topic" /\ (TopicUnusable => ~Fits(Part) \/ ~More)
          /\ TopicTaken => More
      BY <1>4 DEF TopicTaken, TopicUnusable, AtFrame, Returns
    <2>2. ASSUME ~disturbed, Settles PROVE Head(wire) \notin Deliverable
      <3>1. CASE at = 0
        <4>1. Len(Head(wire).parts) \in Nat /\ ~(Len(Head(wire).parts) > 1)
          BY <1>1, <1>4, <2>1, <2>2, <3>1, FrameAt, StandsAt DEF More, Settles
        <4>2. QED
          BY <4>1, NotForDelivery
      <3>2. CASE at >= Resumes(Head(wire)) - 1
        <4>1. Resumes(Head(wire)) = 3
          BY <1>1, <2>2, <3>2, ResumesAt DEF Settles
        <4>2. QED
          BY <4>1, NotForDelivery
      <3>3. QED
        BY <1>1, <2>1, <2>2, <3>1, <3>2, StandsAt
    <2>3. QED
      BY <1>1, <2>1, <2>2, TakesOrDrops, FrameLoses
  <1>5. CASE HeaderTaken
    <2>1. /\ wire # <<>> /\ TakesFrame /\ UNCHANGED <<out, disturbed, link>>
          /\ More /\ Part.is = "mads"
      BY <1>5 DEF HeaderTaken, AtFrame
    <2>2. ~Settles
      BY <1>1, <2>1, FrameAt DEF Settles
    <2>3. Pending' = Pending
      BY <1>1, <2>1, <2>2, FramePending
    <2>4. QED
      BY <2>1, <2>3 DEF Queue!vars
  <1>6. CASE HeaderUnusable
    <2>1. /\ wire # <<>> /\ TakesFrame /\ UNCHANGED <<out, disturbed, link>>
          /\ pc = "header" /\ (Part.is # "mads" \/ ~More)
      BY <1>6 DEF HeaderUnusable, AtFrame, Returns
    <2>2. ASSUME ~disturbed, Settles PROVE Head(wire) \notin Deliverable
      <3>1. at = 1
        BY <1>1, <2>1, <2>2, StandsAt, ResumesAt DEF Settles
      <3>2. ~More /\ at + 1 \in 1..Len(Head(wire).parts) /\ Len(Head(wire).parts) \in Nat
        BY <1>1, <2>1, <2>2, <3>1, FrameAt DEF Settles
      <3>3. ~(Len(Head(wire).parts) >= 3)
        BY <3>1, <3>2 DEF More
      <3>4. QED
        BY <3>3, NotForDelivery
    <2>3. QED
      BY <1>1, <2>1, <2>2, TakesOrDrops, FrameLoses
  <1>7. CASE PayloadTooLong
    <2>1. /\ wire # <<>> /\ TakesFrame /\ UNCHANGED <<out, disturbed, link>>
          /\ pc = "payload" /\ Part.len = "huge"
      BY <1>7 DEF PayloadTooLong, AtFrame, Returns
    <2>2. Head(wire) \notin Deliverable
      <3>1. Part = Head(wire).parts[3]
        BY <1>1, <2>1, FrameAt DEF AtPayload
      <3>2. QED
        BY <2>1, <3>1 DEF Deliverable, Genuine
    <2>3. QED
      BY <1>1, <2>1, <2>2, TakesOrDrops, FrameLoses
  <1>8. CASE PayloadTaken
    <2>1. /\ wire # <<>> /\ TakesFrame /\ UNCHANGED <<disturbed, link>>
          /\ pc = "payload" /\ Part.len # "huge"
          /\ out' = [topic |-> topic, payload |-> Head(wire)]
      BY <1>8 DEF PayloadTaken, AtFrame
    <2>2. /\ Head(wire) \in Messages /\ at = 2
          /\ Len(Head(wire).parts) \in Nat /\ Len(Head(wire).parts) >= 3
          /\ Head(wire).parts[2].is = "mads"
          /\ Part = Head(wire).parts[3]
      <3>1. at = 2 /\ Head(wire).parts[2].is = "mads"
        BY <1>1, <2>1 DEF AtPayload
      <3>2. /\ Head(wire) \in Messages
            /\ at + 1 \in 1..Len(Head(wire).parts)
            /\ Len(Head(wire).parts) \in Nat
            /\ Part = Head(wire).parts[at + 1]
        BY <1>1, <2>1, FrameAt
      <3>3. QED
        BY <3>1, <3>2
    <2>3. Head(wire) \in Genuine
      BY <2>1, <2>2 DEF Genuine
    <2>4. Pending = wire /\ Pending' = Tail(wire)
      BY <1>1, <2>1, <2>2, FramePending DEF Settles
    <2>5. CASE ~disturbed
      <3>1. Len(Head(wire).parts) > 1
        BY <2>2
      <3>2. topic = Head(wire) /\ Fits(Head(wire).parts[1])
        BY <1>1, <2>1, <2>5, <3>1, StandsAt
      <3>3. Head(wire) \in Deliverable
        BY <2>3, <3>2 DEF Deliverable
      <3>4. Queue!Deliver
        BY <2>1, <2>4, <2>5, <3>2, <3>3 DEF Queue!Deliver
      <3>5. QED
        BY <3>4 DEF Queue!Take, Queue!Next
    <2>6. CASE disturbed
      <3>1. /\ 1 \in 1..Len(wire) /\ Head(wire) = wire[1]
            /\ Tail(wire) = SubSeq(wire, 1 + 1, Len(wire))
        BY <1>1, <2>1, FirstOff
      <3>2. Queue!Lose(1)
        BY <2>1, <2>3, <2>4, <2>6, <3>1 DEF Queue!Lose
      <3>3. 1 \in 1..Len(Pending)
        BY <2>4, <3>1
      <3>4. QED
        BY <3>2, <3>3 DEF Queue!Next
    <2>7. QED
      BY <1>1, <2>5, <2>6
  <1>9. CASE TopicNoise \/ HeaderNoise
    <2>1. ReadsNoise /\ rest = "middle" /\ UNCHANGED <<out, disturbed, link>>
      BY <1>9 DEF TopicNoise, HeaderNoise, Returns
    <2>2. disturbed
      BY <1>1, <2>1 DEF InStep
    <2>3. QED
      BY <1>1, <2>1, <2>2, NoisePending, LosesSome
  <1>10. CASE Swallow
    <2>1. wire' = <<>> /\ at' = 0 /\ pc = "swallow" /\ UNCHANGED <<out, disturbed, link>>
      BY <1>10 DEF Swallow
    <2>2. disturbed
      BY <1>1, <2>1 DEF InStep
    <2>3. Pending \in Seq(Messages) /\ Len(Pending) \in 0..Len(Pending)
      BY <1>1, PendingIs
    <2>4. Pending' = SubSeq(Pending, Len(Pending) + 1, Len(Pending))
      <3>1. Pending' = <<>>
        BY <2>1 DEF Pending
      <3>2. QED
        BY <2>3, <3>1, SomeOff
    <2>5. QED
      BY <1>1, <2>1, <2>2, <2>3, <2>4, LosesSome
  <1>11. CASE Late
    <2>1. UNCHANGED <<wire, at, out, link>> /\ disturbed' = TRUE
      BY <1>11 DEF Late, LeavesBody, stream
    <2>2. Pending' = Pending
      BY <2>1 DEF Pending
    <2>3. Queue!Disturb
      BY <2>1, <2>2 DEF Queue!Disturb
    <2>4. QED
      BY <2>3 DEF Queue!Next
  <1>12. ASSUME NEW m \in Messages, Publish(m) PROVE Queue!Publish(m)
    <2>1. /\ wire' = Append(wire, m) /\ at' = at
          /\ disturbed' = (disturbed \/ m \notin Tolerated)
          /\ UNCHANGED <<out, link>>
      BY <1>12 DEF Publish
    <2>2. Pending' = Append(Pending, m)
      <3>1. CASE at >= 3
        <4>1. wire # <<>> /\ Pending = Tail(wire)
          BY <1>1, <3>1, PendingIs
        <4>2. Tail(Append(wire, m)) = Append(Tail(wire), m)
          BY <1>1, <4>1
        <4>3. QED
          BY <2>1, <3>1, <4>1, <4>2 DEF Pending
      <3>2. CASE ~(at >= 3)
        BY <2>1, <3>2 DEF Pending
      <3>3. QED
        BY <3>1, <3>2
    <2>3. QED
      BY <2>1, <2>2 DEF Queue!Publish
  <1>13. CASE Reconnect
    <2>1. Pending' = <<>>
      BY <1>13 DEF Reconnect, Pending
    <2>2. Queue!Reconnect
      BY <1>13, <2>1 DEF Reconnect, Queue!Reconnect
    <2>3. QED
      BY <2>2 DEF Queue!Next
  <1>14. CASE UNCHANGED vars
    BY <1>2, <1>14 DEF vars, stream
  <1>15. QED
    BY <1>3, <1>4, <1>5, <1>6, <1>7, <1>8, <1>9, <1>10, <1>11, <1>12, <1>13, <1>14
       DEF Next, Read, ReadTopic, ReadHeader, ReadPayload, Skip, Queue!Next

\* poll() hands over the queue of messages its documentation promises, whatever is
\* published: all of them, whole and in order, until one it cannot take or a delay
\* disturbs the connection; after that none twice, none out of order, none made up.
THEOREM PollImplementsTheQueue == Spec => KeepsTheQueue
  <1>1. Init => Queue!Init
    BY DEF Init, Queue!Init, Pending
  <1>2. QED
    BY <1>1, Invariant, StepRefines, PTL DEF Spec, Queue!Spec, KeepsTheQueue

-----------------------------------------------------------------------------
(***************************************************************************)
(* A link on which everything can be taken.                                *)
(***************************************************************************)

\* Between and during calls poll() is at a frame, and in step with the messages.
StaysInStep == rest = "none" /\ pc # "swallow"

\* If every message has one frame, or a topic that fits, a header of 12 bytes and, of
\* what follows the frames poll() asks for, nothing it takes for a topic with another
\* length behind it, and no message is late, then poll() never leaves a body on the
\* stream (mads_agent.cpp:534) and never skips more than a frame.  (Without the
\* premise the run poll_blocks shows a call that swallows all that comes.)
THEOREM StaysInStepIfTolerated ==
    ASSUME Messages \subseteq Tolerated, ~Slow
    PROVE  Spec => []StaysInStep
  <1>1. Init => ~disturbed
    BY DEF Init
  <1>2. ~disturbed /\ [Next]_vars => ~disturbed'
    <2> SUFFICES ASSUME ~disturbed, [Next]_vars PROVE ~disturbed'
      OBVIOUS
    <2>1. CASE Poll
      BY <2>1 DEF Poll
    <2>2. CASE ReadTopic
      BY <2>2 DEF ReadTopic, TopicUnusable, TopicTaken, SkipsText, TopicNoise, Returns
    <2>3. CASE ReadHeader
      BY <2>3 DEF ReadHeader, HeaderOfOtherLength, HeaderUnusable, HeaderTaken, HeaderNoise,
                  HeaderMissing, Returns
    <2>4. CASE ReadPayload
      BY <2>4 DEF ReadPayload, PayloadTooLong, PayloadTaken, Returns
    <2>5. CASE Skip
      BY <2>5 DEF Skip, Swallow, SwallowEnds, Returns
    <2>6. CASE Late
      BY <2>6 DEF Late
    <2>7. ASSUME NEW m \in Messages, Publish(m) PROVE ~disturbed'
      BY <2>7 DEF Publish
    <2>8. CASE Reconnect
      BY <2>8 DEF Reconnect
    <2>9. CASE UNCHANGED vars
      BY <2>9 DEF vars
    <2>10. QED
      BY <2>1, <2>2, <2>3, <2>4, <2>5, <2>6, <2>7, <2>8, <2>9 DEF Next, Read
  <1>3. IInv /\ ~disturbed => StaysInStep
    BY DEF IInv, InStep, StaysInStep
  <1>4. QED
    BY <1>1, <1>2, <1>3, Invariant, PTL DEF Spec

=============================================================================
