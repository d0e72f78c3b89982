------------------------ MODULE CurveSession_proofs ------------------------
(***************************************************************************)
(* Proofs about CurveSession, for any number of connections, calls and     *)
(* frames.                                                                 *)
(***************************************************************************)
EXTENDS CurveSession, SequenceTheorems, TLAPS

\* Under one key the nonces of s grow.
Grow(s) ==
    \A i, j \in 1..Len(s) : i < j /\ s[i].key = s[j].key => s[i].nonce < s[j].nonce

\* Every nonce of s under key k is below n.
Below(s, k, n) == \A i \in 1..Len(s) : s[i].key = k => s[i].nonce < n

\* n frames under key k, from nonce m on.
Run(k, m, n) == [i \in 1..n |-> [key |-> k, nonce |-> m + i - 1]]

-----------------------------------------------------------------------------
(***************************************************************************)
(* Sequences of frames.                                                    *)
(***************************************************************************)

\* Frames sealed under the next nonces extend a growing sequence.
LEMMA RunExtends ==
    ASSUME NEW c \in Nat, NEW k \in 1..c, NEW m \in Nat, NEW n \in Nat,
           NEW s \in Seq(SealedFrames(c)),
           Grow(s), Below(s, k, m)
    PROVE  /\ s \o Run(k, m, n) \in Seq(SealedFrames(c))
           /\ Grow(s \o Run(k, m, n))
           /\ Below(s \o Run(k, m, n), k, m + n)
<1> DEFINE F == SealedFrames(c)
           t == Run(k, m, n)
           u == s \o t
<1>1. t \in [1..n -> F] /\ \A i \in 1..n : t[i] = [key |-> k, nonce |-> m + i - 1]
  BY DEF Run, SealedFrames
<1> HIDE DEF F, t
<1>2. t \in Seq(F) /\ Len(t) = n
  BY <1>1
<1>3. /\ u \in Seq(F)
      /\ Len(u) = Len(s) + n
      /\ \A i \in 1..Len(s) + n : u[i] = IF i <= Len(s) THEN s[i] ELSE t[i - Len(s)]
  BY <1>2, ConcatProperties, s \in Seq(F) DEF F
<1>4. Len(s) \in Nat
  BY LenProperties
<1> HIDE DEF u
<1>5. \A i \in 1..Len(s) : u[i] = s[i] /\ s[i].nonce \in Nat
  <2> SUFFICES ASSUME NEW i \in 1..Len(s)
               PROVE  u[i] = s[i] /\ s[i].nonce \in Nat
    OBVIOUS
  <2>1. s[i] \in F
    BY ElementOfSeq DEF F
  <2>2. u[i] = s[i]
    BY <1>3, <1>4
  <2> QED
    BY <2>1, <2>2 DEF F, SealedFrames
<1>6. \A i \in Len(s) + 1..Len(u) : u[i].key = k /\ u[i].nonce = m + (i - Len(s)) - 1
  BY <1>1, <1>3, <1>4
<1>7. Below(u, k, m + n)
  <2> SUFFICES ASSUME NEW i \in 1..Len(u), u[i].key = k
               PROVE  u[i].nonce < m + n
    BY DEF Below
  <2>1. CASE i \in 1..Len(s)
    <3>1. s[i].nonce < m
      BY <2>1, <1>5 DEF Below
    <3> QED
      BY <3>1, <2>1, <1>5
  <2>2. CASE i \in Len(s) + 1..Len(u)
    BY <2>2, <1>3, <1>4, <1>6
  <2> QED
    BY <2>1, <2>2, <1>3, <1>4
<1>8. Grow(u)
  <2> SUFFICES ASSUME NEW i \in 1..Len(u), NEW j \in 1..Len(u),
                      i < j, u[i].key = u[j].key
               PROVE  u[i].nonce < u[j].nonce
    BY DEF Grow
  <2>1. CASE j \in 1..Len(s)
    <3>1. i \in 1..Len(s)
      BY <2>1, <1>3, <1>4
    <3> QED
      BY <3>1, <2>1, <1>5 DEF Grow
  <2>2. CASE j \in Len(s) + 1..Len(u) /\ i \in 1..Len(s)
    <3>1. s[i].nonce < m
      BY <2>2, <1>5, <1>6 DEF Below
    <3> QED
      BY <3>1, <2>2, <1>3, <1>4, <1>5, <1>6
  <2>3. CASE j \in Len(s) + 1..Len(u) /\ i \in Len(s) + 1..Len(u)
    <3>1. u[i].nonce = m + (i - Len(s)) - 1 /\ u[j].nonce = m + (j - Len(s)) - 1
      BY <2>3, <1>6
    <3> QED
      BY <3>1, <1>3, <1>4
  <2> QED
    BY <2>1, <2>2, <2>3, <1>3, <1>4
<1> QED
  BY <1>3, <1>7, <1>8 DEF u, t, F

\* One frame is a run of length one.
LEMMA OneFrameRun ==
    ASSUME NEW k \in Nat, NEW m \in Nat, NEW F, NEW s \in Seq(F),
           [key |-> k, nonce |-> m] \in F
    PROVE  Append(s, [key |-> k, nonce |-> m]) = s \o Run(k, m, 1)
<1>1. Run(k, m, 1) = << [key |-> k, nonce |-> m] >>
  BY DEF Run
<1> QED
  BY <1>1, AppendIsConcat

\* Nothing is a run of length zero.
LEMMA NoFrameRun ==
    ASSUME NEW k \in Nat, NEW m \in Nat, NEW F, NEW s \in Seq(F)
    PROVE  s \o Run(k, m, 0) = s
<1>1. Run(k, m, 0) = << >>
  BY DEF Run
<1> QED
  BY <1>1, ConcatEmptySeq

\* Sealed() is the run from the current counter on.
LEMMA SealedRun ==
    ASSUME NEW n \in Nat
    PROVE  Sealed(n) = Run(st.precom, st.nonce_out, n)
BY DEF Sealed, Run

-----------------------------------------------------------------------------
(***************************************************************************)
(* Type correctness, in three parts: the flags, the CurveState with the    *)
(* connection it belongs to, and the rest.  The second is stronger than    *)
(* TypeOK, because Sealed() needs a key that is not wiped; so is the       *)
(* third, because Tail(todo) needs a frame to be left.                     *)
(***************************************************************************)

Flags == {open, secrets, torn, synced} \subseteq BOOLEAN

Talking == pc \in {"greeting", "welcome", "initiated", "frames", "body"}

\* A frame that opens has the nonce the broker gave it, and 1 was its READY.
IntactFrames == {f \in Frames : f.good => f.nonce = f.id /\ f.id >= 2}

\* A session has its own connection's key from INITIATE on; it is ready while a
\* call uses it and not during the handshake.
KeyShape ==
    /\ conns \in Nat
    /\ st \in CurveStates(conns)
    /\ pc \in {"frames", "body"} => st.ready
    /\ pc \in {"greeting", "welcome", "initiated"} => ~st.ready
    /\ sealed \in Nat
    /\ st.ready => sealed >= 1
    /\ Talking \/ st.ready => conns >= 1
    /\ pc = "initiated" \/ st.ready => st.precom = conns

\* The variables that no other part of the invariant speaks of.
Rest ==
    /\ pc \in {"idle", "greeting", "welcome", "initiated", "frames", "body"}
    /\ err \in CurveErrors
    /\ out \in Seq(SealedFrames(conns))
    /\ todo \in Seq(Paths)
    /\ pc = "frames" => todo # <<>>
    /\ caller \in {"json", "blob", "subscribe", "none"}
    /\ calls \in Nat
    /\ inbox \in Seq(IntactFrames)
    /\ rx \in IntactFrames
    /\ accepted \in Seq(Nat)

TypeShape == Flags /\ KeyShape /\ Rest

\* No step puts anything but a truth value into a flag.
LEMMA FlagsKept ==
    ASSUME Flags, [Next]_vars
    PROVE  Flags'
<1>1. CASE Connect
  BY <1>1 DEF Flags, Connect, Wiped, Nothing, hsvars, outvars, invars
<1>2. CASE Disconnect
  BY <1>2 DEF Flags, Disconnect, Shut, hsvars, outvars, invars
<1>3. CASE GreetingFails
  BY <1>3 DEF Flags, GreetingFails, Shut, hsvars, outvars, invars
<1>4. CASE Hello
  BY <1>4 DEF Flags, Hello, Wiped, hsvars, outvars, invars
<1>5. CASE Initiate
  BY <1>5 DEF Flags, Initiate, hsvars, outvars, invars
<1>6. CASE Ready
  BY <1>6 DEF Flags, Ready, hsvars, outvars, invars
<1>7. ASSUME NEW e \in CurveErrors, Fails(e)
      PROVE  Flags'
  BY <1>7 DEF Flags, Fails, Shut, Wiped, hsvars, outvars, invars
<1>8. CASE BatchWritten
  BY <1>8 DEF Flags, BatchWritten, Calls, hsvars, outvars, invars
<1>9. ASSUME NEW k \in 0..3, BatchCut(k)
      PROVE  Flags'
  BY <1>9 DEF Flags, BatchCut, Calls, hsvars, outvars, invars
<1>10. ASSUME NEW c \in {"json", "blob", "subscribe"}, Piecewise(c)
      PROVE  Flags'
  BY <1>10 DEF Flags, Piecewise, Calls, hsvars, outvars, invars
<1>11. CASE FrameWritten
  BY <1>11 DEF Flags, FrameWritten, hsvars, outvars, invars
<1>12. ASSUME NEW k \in 0..1, FrameCut(k)
      PROVE  Flags'
  BY <1>12 DEF Flags, FrameCut, Shut, hsvars, outvars, invars
<1>13. CASE RecvHeader
  BY <1>13 DEF Flags, RecvHeader, AtHeader, hsvars, outvars, invars
<1>14. CASE HeaderRefused
  BY <1>14 DEF Flags, HeaderRefused, AtHeader, LosesSync, hsvars, outvars, invars
<1>15. CASE GarbageRefused
  BY <1>15 DEF Flags, GarbageRefused, AtHeader, hsvars, outvars, invars
<1>16. CASE EndBody
  BY <1>16 DEF Flags, EndBody, Nothing, hsvars, outvars, invars
<1>17. CASE BodyAbandoned
  BY <1>17 DEF Flags, BodyAbandoned, LosesSync, Nothing, hsvars, outvars, invars
<1>18. CASE BrokerSeals
  BY <1>18 DEF Flags, BrokerSeals, Stream, hsvars, outvars, invars
<1>19. ASSUME NEW i \in 1..Len(inbox), Repeated(i) \/ Overtaken(i) \/ Damaged(i)
      PROVE  Flags'
  BY <1>19 DEF Flags, Repeated, Overtaken, Damaged, Stream, hsvars, outvars, invars
<1>20. CASE UNCHANGED vars
  BY <1>20 DEF Flags, vars, hsvars, outvars, invars
<1> QED
  BY <1>1, <1>2, <1>3, <1>4, <1>5, <1>6, <1>7, <1>8, <1>9, <1>10,
     <1>11, <1>12, <1>13, <1>14, <1>15, <1>16, <1>17, <1>18, <1>19, <1>20
  DEF Next, Handshake, Send, Receive, Broker

\* Counting a nonce touches neither the key nor the flag.
LEMMA Counted ==
    ASSUME NEW c, NEW s \in CurveStates(c), NEW n \in Nat
    PROVE  LET t == [s EXCEPT !.nonce_out = n]
           IN  /\ t \in CurveStates(c)
               /\ t.precom = s.precom /\ t.ready = s.ready /\ t.nonce_out = n
BY DEF CurveStates

\* A session that is wiped is a session.
LEMMA WipedType ==
    ASSUME NEW c \in Nat
    PROVE  Wiped \in CurveStates(c) /\ ~Wiped.ready
BY DEF CurveStates, Wiped

\* A session that is ready, or has sent INITIATE, has the key of its connection.
LEMMA KeyShapeKept ==
    ASSUME KeyShape, Rest, [Next]_vars
    PROVE  KeyShape'
<1>1. CASE Connect
  <2>1. st' \in CurveStates(conns') /\ ~st'.ready
    BY <1>1 DEF KeyShape, Talking, Connect, Wiped, CurveStates, hsvars
  <2> QED
    BY <1>1, <2>1 DEF KeyShape, Talking, Connect, Wiped, hsvars
<1>2. CASE Disconnect
  BY <1>2 DEF KeyShape, Talking, Disconnect, Shut, hsvars, outvars, invars
<1>3. CASE GreetingFails
  BY <1>3 DEF KeyShape, Talking, GreetingFails, Shut, hsvars, outvars, invars
<1>4. CASE Hello
  <2>1. conns' = conns /\ conns >= 1
    BY <1>4 DEF KeyShape, Talking, Hello, hsvars
  <2>2. st' \in CurveStates(conns) /\ ~st'.ready
    BY <1>4, WipedType, Counted DEF KeyShape, Hello
  <2> QED
    BY <1>4, <2>1, <2>2 DEF KeyShape, Talking, Hello, hsvars
<1>5. CASE Initiate
  <2>1. conns' = conns /\ conns >= 1 /\ st.nonce_out + 1 \in Nat
    BY <1>5 DEF KeyShape, Talking, Initiate, CurveStates, hsvars
  <2>2. /\ [st EXCEPT !.precom = conns] \in CurveStates(conns)
        /\ [st EXCEPT !.precom = conns].precom = conns
    BY <2>1 DEF KeyShape, CurveStates
  <2>3. st' = [[st EXCEPT !.precom = conns] EXCEPT !.nonce_out = st.nonce_out + 1]
    BY <1>5, <2>1 DEF Initiate, KeyShape, CurveStates
  <2>4. st' \in CurveStates(conns) /\ st'.precom = conns
    BY <2>1, <2>2, <2>3, Counted
  <2> QED
    BY <1>5, <2>1, <2>4 DEF KeyShape, Talking, Initiate, hsvars
<1>6. CASE Ready
  <2>1. st' \in CurveStates(conns') /\ st'.precom = conns
    BY <1>6 DEF KeyShape, Talking, Ready, CurveStates, hsvars
  <2> QED
    BY <1>6, <2>1 DEF KeyShape, Talking, Ready, hsvars
<1>7. ASSUME NEW e \in CurveErrors, Fails(e)
      PROVE  KeyShape'
  <2>1. st' \in CurveStates(conns') /\ ~st'.ready
    BY <1>7 DEF KeyShape, Talking, Fails, Wiped, CurveStates, hsvars
  <2> QED
    BY <1>7, <2>1 DEF KeyShape, Talking, Fails, Wiped, hsvars
<1>8. CASE BatchWritten
  <2>1. conns' = conns /\ st.nonce_out \in Nat
    BY <1>8 DEF KeyShape, BatchWritten, Calls, CurveStates, hsvars
  <2>2. /\ st' = [st EXCEPT !.nonce_out = st.nonce_out + 3]
        /\ st.nonce_out + 3 \in Nat
    BY <1>8, <2>1 DEF BatchWritten, Calls
  <2>3. /\ st' \in CurveStates(conns)
        /\ st'.ready = st.ready /\ st'.precom = st.precom
    BY <2>2, Counted DEF KeyShape
  <2> QED
    BY <1>8, <2>1, <2>3 DEF KeyShape, Talking, BatchWritten, Calls, hsvars
<1>9. ASSUME NEW k \in 0..3, BatchCut(k)
      PROVE  KeyShape'
  <2>1. conns' = conns /\ st.nonce_out \in Nat
    BY <1>9 DEF KeyShape, BatchCut, Calls, CurveStates, hsvars
  <2>2. /\ st' = [st EXCEPT !.nonce_out = st.nonce_out + 3]
        /\ st.nonce_out + 3 \in Nat
    BY <1>9, <2>1 DEF BatchCut, Calls
  <2>3. /\ st' \in CurveStates(conns)
        /\ st'.ready = st.ready /\ st'.precom = st.precom
    BY <2>2, Counted DEF KeyShape
  <2> QED
    BY <1>9, <2>1, <2>3 DEF KeyShape, Talking, BatchCut, Calls, hsvars
<1>10. ASSUME NEW c \in {"json", "blob", "subscribe"}, Piecewise(c)
      PROVE  KeyShape'
  BY <1>10 DEF KeyShape, Talking, Piecewise, Calls, hsvars, outvars, invars
<1>11. CASE FrameWritten
  <2>1. conns' = conns /\ st.nonce_out \in Nat
    BY <1>11 DEF KeyShape, FrameWritten, CurveStates, hsvars
  <2>2. /\ st' = [st EXCEPT !.nonce_out = st.nonce_out + 1]
        /\ st.nonce_out + 1 \in Nat
    BY <1>11, <2>1 DEF FrameWritten
  <2>3. /\ st' \in CurveStates(conns)
        /\ st'.ready = st.ready /\ st'.precom = st.precom
    BY <2>2, Counted DEF KeyShape
  <2> QED
    BY <1>11, <2>1, <2>3 DEF KeyShape, Talking, FrameWritten, hsvars
<1>12. ASSUME NEW k \in 0..1, FrameCut(k)
      PROVE  KeyShape'
  <2>1. /\ st' \in CurveStates(conns')
        /\ st'.ready = st.ready /\ st'.precom = st.precom
    BY <1>12 DEF KeyShape, FrameCut, CurveStates, hsvars
  <2> QED
    BY <1>12, <2>1 DEF KeyShape, Talking, FrameCut, hsvars
<1>13. CASE RecvHeader
  BY <1>13 DEF KeyShape, Talking, RecvHeader, AtHeader, hsvars, outvars, invars
<1>14. CASE HeaderRefused
  BY <1>14 DEF KeyShape, Talking, HeaderRefused, AtHeader, LosesSync, hsvars, outvars, invars
<1>15. CASE GarbageRefused
  BY <1>15 DEF KeyShape, Talking, GarbageRefused, AtHeader, hsvars, outvars, invars
<1>16. CASE EndBody
  <2>1. /\ st' \in CurveStates(conns')
        /\ st'.ready = st.ready /\ st'.precom = st.precom
    BY <1>16 DEF KeyShape, Rest, IntactFrames, Frames, EndBody, CurveStates, hsvars
  <2> QED
    BY <1>16, <2>1 DEF KeyShape, Talking, EndBody, hsvars
<1>17. CASE BodyAbandoned
  BY <1>17 DEF KeyShape, Talking, BodyAbandoned, LosesSync, Nothing, hsvars, outvars, invars
<1>18. CASE BrokerSeals
  BY <1>18 DEF KeyShape, Talking, BrokerSeals, Stream, hsvars, outvars, invars
<1>19. ASSUME NEW i \in 1..Len(inbox), Repeated(i) \/ Overtaken(i) \/ Damaged(i)
      PROVE  KeyShape'
  BY <1>19 DEF KeyShape, Talking, Repeated, Overtaken, Damaged, Stream, hsvars, outvars, invars
<1>20. CASE UNCHANGED vars
  BY <1>20 DEF KeyShape, Talking, vars, hsvars, outvars, invars
<1> QED
  BY <1>1, <1>2, <1>3, <1>4, <1>5, <1>6, <1>7, <1>8, <1>9, <1>10,
     <1>11, <1>12, <1>13, <1>14, <1>15, <1>16, <1>17, <1>18, <1>19, <1>20
  DEF Next, Handshake, Send, Receive, Broker

\* What is sealed and appended is a sequence of frames of known connections.
LEMMA SealedType ==
    ASSUME KeyShape, st.ready, out \in Seq(SealedFrames(conns)), NEW n \in Nat
    PROVE  out \o Sealed(n) \in Seq(SealedFrames(conns))
<1>1. Sealed(n) \in [1..n -> SealedFrames(conns)]
  BY DEF KeyShape, Sealed, SealedFrames, CurveStates
<1>2. Sealed(n) \in Seq(SealedFrames(conns))
  BY <1>1
<1> QED
  BY <1>2, ConcatProperties

\* A handshake command is a frame of the current connection.
LEMMA CommandType ==
    ASSUME conns \in Nat, conns >= 1, out \in Seq(SealedFrames(conns)), NEW n \in Nat
    PROVE  Append(out, Command(n)) \in Seq(SealedFrames(conns))
<1>1. Command(n) \in SealedFrames(conns)
  BY DEF Command, SealedFrames
<1> QED
  BY <1>1, AppendProperties

\* A message that goes out frame by frame has a frame to send.
LEMMA OneByOneType ==
    /\ \A frames \in OneByOne : frames \in Seq(Paths) /\ frames # << >>
    /\ <<"one_shot">> \in Seq(Paths) /\ <<"one_shot">> # << >>
BY DEF OneByOne, Paths

\* Every step keeps the rest.
LEMMA RestKept ==
    ASSUME KeyShape, Rest, [Next]_vars
    PROVE  Rest'
<1>1. CASE Connect
  <2>1. out \in Seq(SealedFrames(conns + 1))
    <3>1. SealedFrames(conns) \subseteq SealedFrames(conns + 1)
      BY DEF SealedFrames, KeyShape
    <3> QED
      BY <3>1, SeqMonotonic DEF Rest
  <2>2. inbox' \in Seq(IntactFrames) /\ accepted' \in Seq(Nat) /\ rx' \in IntactFrames
    BY <1>1, EmptySeq DEF Connect, Nothing, IntactFrames, Frames
  <2> QED
    BY <1>1, <2>1, <2>2 DEF Rest, Connect, hsvars, outvars, invars
<1>2. CASE Disconnect
  <2>1. inbox' \in Seq(IntactFrames)
    BY <1>2, EmptySeq DEF Disconnect, Shut
  <2> QED
    BY <1>2, <2>1 DEF Rest, Disconnect, hsvars, outvars, invars
<1>3. CASE GreetingFails
  <2>1. inbox' \in Seq(IntactFrames)
    BY <1>3, EmptySeq DEF GreetingFails, Shut
  <2> QED
    BY <1>3, <2>1 DEF Rest, GreetingFails, CurveErrors, hsvars, outvars, invars
<1>4. CASE Hello
  <2>1. out' \in Seq(SealedFrames(conns))
    BY <1>4, CommandType DEF Hello, KeyShape, Talking, Rest
  <2> QED
    BY <1>4, <2>1 DEF Rest, Hello, CurveErrors, hsvars, outvars, invars
<1>5. CASE Initiate
  <2>1. conns \in Nat /\ conns >= 1 /\ st.nonce_out \in Nat
    BY <1>5 DEF Initiate, KeyShape, Talking, CurveStates
  <2>2. out' \in Seq(SealedFrames(conns))
    BY <1>5, <2>1, CommandType DEF Initiate, Rest
  <2> QED
    BY <1>5, <2>2 DEF Rest, Initiate, hsvars, outvars, invars
<1>6. CASE Ready
  BY <1>6 DEF Rest, Ready, hsvars, outvars, invars
<1>7. ASSUME NEW e \in CurveErrors, Fails(e)
      PROVE  Rest'
  <2>1. conns \in Nat /\ conns >= 1 /\ st.nonce_out \in Nat
    BY <1>7 DEF Fails, KeyShape, Talking, CurveStates
  <2>2. out' \in Seq(SealedFrames(conns))
    BY <1>7, <2>1, CommandType DEF Fails, Rest
  <2>3. inbox' \in Seq(IntactFrames)
    BY <1>7, EmptySeq DEF Fails, Shut
  <2> QED
    BY <1>7, <2>2, <2>3 DEF Rest, Fails, hsvars, outvars, invars
<1>8. CASE BatchWritten
  <2>1. st.ready /\ out' = out \o Sealed(3)
    BY <1>8 DEF BatchWritten, Calls, KeyShape
  <2>2. out' \in Seq(SealedFrames(conns))
    BY <2>1, SealedType DEF Rest
  <2> QED
    BY <1>8, <2>2 DEF Rest, BatchWritten, Calls, hsvars, outvars, invars
<1>9. ASSUME NEW k \in 0..3, BatchCut(k)
      PROVE  Rest'
  <2>1. st.ready /\ k \in Nat /\ out' = out \o Sealed(k)
    BY <1>9 DEF BatchCut, Calls, KeyShape
  <2>2. out' \in Seq(SealedFrames(conns))
    BY <2>1, SealedType DEF Rest
  <2>3. todo' \in Seq(Paths) /\ todo' # << >>
    BY <1>9, OneByOneType DEF BatchCut
  <2> QED
    BY <1>9, <2>2, <2>3 DEF Rest, BatchCut, Calls, hsvars, outvars, invars
<1>10. ASSUME NEW c \in {"json", "blob", "subscribe"}, Piecewise(c)
      PROVE  Rest'
  <2>1. todo' \in Seq(Paths) /\ todo' # << >>
    BY <1>10, OneByOneType DEF Piecewise
  <2> QED
    BY <1>10, <2>1 DEF Rest, Piecewise, Calls, hsvars, outvars, invars
<1>11. CASE FrameWritten
  <2>1. st.ready /\ out' = out \o Sealed(1)
    BY <1>11 DEF FrameWritten, KeyShape
  <2>2. out' \in Seq(SealedFrames(conns))
    BY <2>1, SealedType DEF Rest
  <2>3. todo' \in Seq(Paths) /\ Len(todo') = Len(todo) - 1
    BY <1>11, HeadTailProperties DEF FrameWritten, Rest
  <2>4. pc' = "frames" => todo' # << >>
    <3> SUFFICES ASSUME pc' = "frames"
                 PROVE  Len(todo') # 0
      BY EmptySeq
    <3>1. Len(todo) # 1
      BY <1>11 DEF FrameWritten
    <3> QED
      BY <3>1, <2>3, LenProperties DEF Rest
  <2> QED
    BY <1>11, <2>2, <2>3, <2>4 DEF Rest, FrameWritten, hsvars, outvars, invars
<1>12. ASSUME NEW k \in 0..1, FrameCut(k)
      PROVE  Rest'
  <2>1. st.ready /\ k \in Nat /\ out' = out \o Sealed(k)
    BY <1>12 DEF FrameCut, KeyShape
  <2>2. out' \in Seq(SealedFrames(conns))
    BY <2>1, SealedType DEF Rest
  <2>3. inbox' \in Seq(IntactFrames) /\ todo' \in Seq(Paths)
    BY <1>12, EmptySeq DEF FrameCut, Shut, Rest
  <2> QED
    BY <1>12, <2>2, <2>3 DEF Rest, FrameCut, hsvars, outvars, invars
<1>13. CASE RecvHeader
  <2>1. Head(inbox) \in IntactFrames /\ Tail(inbox) \in Seq(IntactFrames)
    BY <1>13, HeadTailProperties DEF RecvHeader, AtHeader, Rest
  <2> QED
    BY <1>13, <2>1 DEF Rest, RecvHeader, AtHeader, hsvars, outvars, invars
<1>14. CASE HeaderRefused
  <2>1. Head(inbox) \in IntactFrames /\ Tail(inbox) \in Seq(IntactFrames)
    BY <1>14, HeadTailProperties DEF HeaderRefused, AtHeader, Rest
  <2> QED
    BY <1>14, <2>1 DEF Rest, HeaderRefused, AtHeader, LosesSync, hsvars, outvars, invars
<1>15. CASE GarbageRefused
  <2>1. inbox' \in Seq(IntactFrames)
    <3>1. PICK n \in 0..Len(inbox) : inbox' = SubSeq(inbox, n + 1, Len(inbox))
      BY <1>15 DEF GarbageRefused
    <3>2. Len(inbox) \in Nat
      BY LenProperties DEF Rest
    <3>3. \A i \in n + 1..Len(inbox) : inbox[i] \in IntactFrames
      BY <3>2, ElementOfSeq DEF Rest
    <3> QED
      BY <3>1, <3>2, <3>3, SubSeqProperties
  <2> QED
    BY <1>15, <2>1 DEF Rest, GarbageRefused, AtHeader, hsvars, outvars, invars
<1>16. CASE EndBody
  <2>1. rx' \in IntactFrames
    BY <1>16 DEF EndBody, IntactFrames, Frames, Nothing
  <2>2. rx.id \in Nat
    BY DEF Rest, IntactFrames, Frames
  <2>3. accepted' \in Seq(Nat)
    <3>1. CASE rx.good
      <4>1. accepted' = Append(accepted, rx.id)
        BY <1>16, <3>1 DEF EndBody
      <4>2. accepted \in Seq(Nat)
        BY DEF Rest
      <4> QED
        BY <2>2, <4>1, <4>2, AppendProperties
    <3>2. CASE ~rx.good
      BY <1>16, <3>2 DEF EndBody, Rest
    <3> QED
      BY <3>1, <3>2
  <2> QED
    BY <1>16, <2>1, <2>3 DEF Rest, EndBody, hsvars, outvars, invars
<1>17. CASE BodyAbandoned
  <2>1. rx' \in IntactFrames
    BY <1>17 DEF BodyAbandoned, Nothing, IntactFrames, Frames
  <2> QED
    BY <1>17, <2>1 DEF Rest, BodyAbandoned, LosesSync, hsvars, outvars, invars
<1>18. CASE BrokerSeals
  <2>1. [nonce |-> sealed + 1, id |-> sealed + 1, good |-> TRUE] \in IntactFrames
    BY <1>18 DEF BrokerSeals, KeyShape, IntactFrames, Frames
  <2>2. inbox' \in Seq(IntactFrames)
    BY <1>18, <2>1, AppendProperties DEF BrokerSeals, Rest
  <2> QED
    BY <1>18, <2>2 DEF Rest, BrokerSeals, Stream, hsvars, outvars, invars
<1>19. ASSUME NEW i \in 1..Len(inbox), Repeated(i) \/ Overtaken(i) \/ Damaged(i)
      PROVE  Rest'
  <2>1. inbox \in Seq(IntactFrames) /\ inbox[i] \in IntactFrames
    BY ElementOfSeq DEF Rest
  <2>2. CASE Repeated(i)
    BY <2>1, <2>2, AppendProperties DEF Repeated, Rest, Stream, hsvars, outvars
  <2>3. CASE Overtaken(i)
    <3>1. inbox[i + 1] \in IntactFrames
      BY <2>1, <2>3, ElementOfSeq, LenProperties DEF Overtaken
    <3>2. inbox' \in Seq(IntactFrames)
      BY <2>1, <2>3, <3>1 DEF Overtaken
    <3> QED
      BY <2>3, <3>2 DEF Overtaken, Rest, Stream, hsvars, outvars
  <2>4. CASE Damaged(i)
    <3>1. \A n \in 0..(MaxFrames + 2) : [nonce |-> n, id |-> 0, good |-> FALSE] \in IntactFrames
      BY DEF IntactFrames, Frames
    <3>2. inbox' \in Seq(IntactFrames)
      BY <2>1, <2>4, <3>1 DEF Damaged
    <3> QED
      BY <2>4, <3>2 DEF Damaged, Rest, Stream, hsvars, outvars
  <2> QED
    BY <1>19, <2>2, <2>3, <2>4
<1>20. CASE UNCHANGED vars
  BY <1>20 DEF Rest, vars, hsvars, outvars, invars
<1> QED
  BY <1>1, <1>2, <1>3, <1>4, <1>5, <1>6, <1>7, <1>8, <1>9, <1>10,
     <1>11, <1>12, <1>13, <1>14, <1>15, <1>16, <1>17, <1>18, <1>19, <1>20
  DEF Next, Handshake, Send, Receive, Broker

\* The strengthened type invariant holds initially.
LEMMA TypeInit == Init => TypeShape
<1> SUFFICES ASSUME Init
             PROVE  TypeShape
  OBVIOUS
<1>1. Flags
  BY DEF Init, Flags
<1>2. KeyShape
  BY DEF Init, KeyShape, Talking, Wiped, CurveStates
<1>3. Rest
  BY EmptySeq DEF Init, Rest, Nothing, IntactFrames, Frames, CurveErrors
<1> QED
  BY <1>1, <1>2, <1>3 DEF TypeShape

\* Every step keeps it.
LEMMA TypeInductive == TypeShape /\ [Next]_vars => TypeShape'
BY FlagsKept, KeyShapeKept, RestKept DEF TypeShape

\* It holds in every reachable state.
LEMMA TypeAlways == Spec => []TypeShape
BY TypeInit, TypeInductive, PTL DEF Spec

\* The state of a session keeps to its types, for any number of connections,
\* calls and frames.
THEOREM SessionTypeCorrect == Spec => []TypeOK
<1>1. Rest => inbox \in Seq(Frames) /\ rx \in Frames
  BY SeqMonotonic DEF Rest, IntactFrames
<1>2. TypeShape => TypeOK
  BY <1>1 DEF TypeShape, Flags, KeyShape, Rest, TypeOK
<1> QED
  BY <1>2, TypeAlways, PTL

-----------------------------------------------------------------------------
(***************************************************************************)
(* No nonce is used twice.  The counter of the session is above every      *)
(* nonce used under its key, except after a streamed frame that was cut    *)
(* short: its nonce is on the wire and not counted.  Then the socket is    *)
(* closed, because only subscribe() leaves it open after a failed send and *)
(* a subscription is too short to be streamed.                             *)
(***************************************************************************)

NonceShape ==
    /\ Grow(out)
    /\ pc = "greeting" => Below(out, conns, 1)
    /\ pc \in {"welcome", "initiated"} => Below(out, conns, st.nonce_out)
    /\ open /\ st.ready => Below(out, conns, st.nonce_out)
    /\ pc = "frames" /\ caller = "subscribe" => todo = <<"one_shot">>

\* A new connection has a key under which nothing is on the wire.
LEMMA FreshKey ==
    ASSUME KeyShape, Rest
    PROVE  Below(out, conns + 1, 1)
<1> SUFFICES ASSUME NEW i \in 1..Len(out)
             PROVE  out[i].key # conns + 1
  BY DEF Below
<1>1. out[i] \in SealedFrames(conns)
  BY ElementOfSeq DEF Rest
<1> QED
  BY <1>1 DEF SealedFrames, KeyShape

\* What is below a nonce is below a later one.
LEMMA BelowMonotone ==
    ASSUME KeyShape, NEW s \in Seq(SealedFrames(conns)), NEW k,
           NEW m \in Nat, NEW n \in Nat, m <= n, Below(s, k, m)
    PROVE  Below(s, k, n)
<1> SUFFICES ASSUME NEW i \in 1..Len(s), s[i].key = k
             PROVE  s[i].nonce < n
  BY DEF Below
<1>1. s[i] \in SealedFrames(conns)
  BY ElementOfSeq
<1>2. s[i].nonce \in Nat /\ s[i].nonce < m
  BY <1>1 DEF SealedFrames, Below
<1> QED
  BY <1>2

\* The next n frames of a session on an open socket have new nonces.
LEMMA NextFrames ==
    ASSUME KeyShape, Rest, NonceShape, open, st.ready, NEW n \in Nat
    PROVE  /\ out \o Sealed(n) \in Seq(SealedFrames(conns))
           /\ Grow(out \o Sealed(n))
           /\ Below(out \o Sealed(n), conns, st.nonce_out + n)
<1>1. conns \in Nat /\ conns \in 1..conns /\ st.precom = conns /\ st.nonce_out \in Nat
  BY DEF KeyShape, CurveStates
<1>2. out \in Seq(SealedFrames(conns)) /\ Grow(out) /\ Below(out, conns, st.nonce_out)
  BY DEF Rest, NonceShape
<1>3. Sealed(n) = Run(conns, st.nonce_out, n)
  BY <1>1, SealedRun
<1> QED
  BY <1>1, <1>2, <1>3, RunExtends

\* On a closed socket no frame leaves.
LEMMA NoFrame ==
    ASSUME KeyShape, Rest, st.ready
    PROVE  out \o Sealed(0) = out
<1>1. conns \in Nat /\ st.precom = conns /\ st.nonce_out \in Nat
  BY DEF KeyShape, CurveStates
<1>2. Sealed(0) = Run(conns, st.nonce_out, 0)
  BY <1>1, SealedRun
<1>3. out \in Seq(SealedFrames(conns))
  BY DEF Rest
<1> QED
  BY <1>1, <1>2, <1>3, NoFrameRun

\* A handshake command has a new nonce.
LEMMA NextCommand ==
    ASSUME KeyShape, Rest, conns >= 1, NEW m \in Nat, Grow(out), Below(out, conns, m)
    PROVE  /\ Grow(Append(out, Command(m)))
           /\ Below(Append(out, Command(m)), conns, m + 1)
<1>1. conns \in Nat /\ conns \in 1..conns
  BY DEF KeyShape
<1>2. out \in Seq(SealedFrames(conns))
  BY DEF Rest
<1>3. [key |-> conns, nonce |-> m] \in SealedFrames(conns)
  BY <1>1 DEF SealedFrames
<1>4. Append(out, Command(m)) = out \o Run(conns, m, 1)
  BY <1>1, <1>2, <1>3, OneFrameRun DEF Command
<1> QED
  BY <1>1, <1>2, <1>4, RunExtends

\* Every step keeps it.
LEMMA NonceShapeKept ==
    ASSUME KeyShape, Rest, NonceShape, [Next]_vars
    PROVE  NonceShape'
<1>1. CASE Connect
  <2>1. ~st'.ready
    BY <1>1 DEF Connect, Wiped
  <2>2. Below(out, conns + 1, 1)
    BY FreshKey
  <2> QED
    BY <1>1, <2>1, <2>2 DEF NonceShape, Connect
<1>2. CASE Disconnect
  BY <1>2 DEF NonceShape, Disconnect, Shut, hsvars, outvars, invars
<1>3. CASE GreetingFails
  BY <1>3 DEF NonceShape, GreetingFails, Shut, hsvars, outvars, invars
<1>4. CASE Hello
  <2>1. Grow(out') /\ Below(out', conns, 2)
    BY <1>4, NextCommand DEF Hello, NonceShape, KeyShape, Talking
  <2>2. st'.nonce_out = 2 /\ ~st'.ready
    BY <1>4 DEF Hello, Wiped
  <2> QED
    BY <1>4, <2>1, <2>2 DEF NonceShape, Hello, hsvars
<1>5. CASE Initiate
  <2>1. conns >= 1 /\ st.nonce_out \in Nat
    BY <1>5 DEF Initiate, KeyShape, Talking, CurveStates
  <2>2. Grow(out') /\ Below(out', conns, st.nonce_out + 1)
    BY <1>5, <2>1, NextCommand DEF Initiate, NonceShape
  <2>3. st'.nonce_out = st.nonce_out + 1
    BY <1>5 DEF Initiate, KeyShape, CurveStates
  <2> QED
    BY <1>5, <2>2, <2>3 DEF NonceShape, Initiate, hsvars
<1>6. CASE Ready
  <2>1. st'.nonce_out = st.nonce_out
    BY <1>6 DEF Ready, KeyShape, CurveStates
  <2> QED
    BY <1>6, <2>1 DEF NonceShape, Ready, hsvars, outvars
<1>7. ASSUME NEW e \in CurveErrors, Fails(e)
      PROVE  NonceShape'
  <2>1. conns >= 1 /\ st.nonce_out \in Nat
    BY <1>7 DEF Fails, KeyShape, Talking, CurveStates
  <2>2. Grow(out')
    BY <1>7, <2>1, NextCommand DEF Fails, NonceShape
  <2> QED
    BY <1>7, <2>2 DEF NonceShape, Fails, Shut
<1>8. CASE BatchWritten
  <2>1. open /\ st.ready /\ out' = out \o Sealed(3)
    BY <1>8 DEF BatchWritten, Calls
  <2>2. st'.nonce_out = st.nonce_out + 3
    BY <1>8 DEF BatchWritten, KeyShape, CurveStates
  <2>3. Grow(out') /\ Below(out', conns, st'.nonce_out)
    BY <2>1, <2>2, NextFrames
  <2> QED
    BY <1>8, <2>3 DEF NonceShape, BatchWritten, Calls, hsvars
<1>9. ASSUME NEW k \in 0..3, BatchCut(k)
      PROVE  NonceShape'
  <2>1. /\ st.ready /\ out' = out \o Sealed(k) /\ (~open => k = 0)
        /\ open' = open /\ conns' = conns
    BY <1>9 DEF BatchCut, Calls, hsvars
  <2>2. st.nonce_out \in Nat /\ st'.nonce_out = st.nonce_out + 3
    BY <1>9 DEF BatchCut, KeyShape, CurveStates
  <2>3. CASE open
    <3>1. /\ out' \in Seq(SealedFrames(conns)) /\ Grow(out')
          /\ Below(out', conns, st.nonce_out + k)
      BY <2>1, <2>3, NextFrames
    <3>2. Below(out', conns, st'.nonce_out)
      BY <2>2, <3>1, BelowMonotone
    <3> QED
      BY <1>9, <2>1, <3>1, <3>2 DEF NonceShape, BatchCut
  <2>4. CASE ~open
    <3>1. Grow(out')
      BY <2>1, <2>4, NoFrame DEF NonceShape
    <3> QED
      BY <1>9, <2>1, <2>4, <3>1 DEF NonceShape, BatchCut
  <2> QED
    BY <2>3, <2>4
<1>10. ASSUME NEW c \in {"json", "blob", "subscribe"}, Piecewise(c)
      PROVE  NonceShape'
  <2>1. caller' = "subscribe" => todo' = <<"one_shot">>
    BY <1>10 DEF Piecewise
  <2> QED
    BY <1>10, <2>1 DEF NonceShape, Piecewise, hsvars
<1>11. CASE FrameWritten
  <2>1. open /\ st.ready /\ out' = out \o Sealed(1)
    BY <1>11 DEF FrameWritten, KeyShape
  <2>2. st'.nonce_out = st.nonce_out + 1
    BY <1>11 DEF FrameWritten, KeyShape, CurveStates
  <2>3. Grow(out') /\ Below(out', conns, st'.nonce_out)
    BY <2>1, <2>2, NextFrames
  <2>4. pc' = "frames" => Len(todo) # 1
    BY <1>11 DEF FrameWritten
  <2>5. pc = "frames" /\ caller' = caller /\ Len(<<"one_shot">>) = 1
    BY <1>11 DEF FrameWritten
  <2>6. pc' = "frames" => caller' # "subscribe"
    BY <2>4, <2>5 DEF NonceShape
  <2> QED
    BY <1>11, <2>3, <2>6 DEF NonceShape, FrameWritten, hsvars
<1>12. ASSUME NEW k \in 0..1, FrameCut(k)
      PROVE  NonceShape'
  <2>1. /\ st.ready /\ out' = out \o Sealed(k) /\ (~open => k = 0)
        /\ conns' = conns /\ pc' = "idle"
    BY <1>12 DEF FrameCut, KeyShape, hsvars
  <2>2. Grow(out')
    <3>1. CASE open
      BY <2>1, <3>1, NextFrames
    <3>2. CASE ~open
      BY <2>1, <3>2, NoFrame DEF NonceShape
    <3> QED
      BY <3>1, <3>2
  <2>3. ASSUME open'
        PROVE  Below(out', conns, st'.nonce_out)
    <3>1. open /\ caller = "subscribe" /\ pc = "frames"
      BY <1>12, <2>3 DEF FrameCut, Shut
    <3>2. Head(todo) = "one_shot"
      BY <3>1 DEF NonceShape
    <3>3. st.nonce_out \in Nat /\ st'.nonce_out = st.nonce_out + 1
      BY <1>12, <3>2 DEF FrameCut, KeyShape, CurveStates
    <3>4. /\ out' \in Seq(SealedFrames(conns))
          /\ Below(out', conns, st.nonce_out + k)
      BY <2>1, <3>1, NextFrames
    <3> QED
      BY <3>3, <3>4, BelowMonotone
  <2> QED
    BY <2>1, <2>2, <2>3 DEF NonceShape
<1>13. CASE RecvHeader
  BY <1>13 DEF NonceShape, RecvHeader, AtHeader, hsvars, outvars, invars
<1>14. CASE HeaderRefused
  BY <1>14 DEF NonceShape, HeaderRefused, AtHeader, LosesSync, hsvars, outvars, invars
<1>15. CASE GarbageRefused
  BY <1>15 DEF NonceShape, GarbageRefused, AtHeader, hsvars, outvars, invars
<1>16. CASE EndBody
  <2>1. st'.nonce_out = st.nonce_out /\ st'.ready = st.ready
    BY <1>16 DEF EndBody, KeyShape, CurveStates
  <2> QED
    BY <1>16, <2>1 DEF NonceShape, EndBody, hsvars, outvars
<1>17. CASE BodyAbandoned
  BY <1>17 DEF NonceShape, BodyAbandoned, LosesSync, Nothing, hsvars, outvars, invars
<1>18. CASE BrokerSeals
  BY <1>18 DEF NonceShape, BrokerSeals, Stream, hsvars, outvars, invars
<1>19. ASSUME NEW i \in 1..Len(inbox), Repeated(i) \/ Overtaken(i) \/ Damaged(i)
      PROVE  NonceShape'
  BY <1>19 DEF NonceShape, Repeated, Overtaken, Damaged, Stream, hsvars, outvars, invars
<1>20. CASE UNCHANGED vars
  BY <1>20 DEF NonceShape, vars, hsvars, outvars, invars
<1> QED
  BY <1>1, <1>2, <1>3, <1>4, <1>5, <1>6, <1>7, <1>8, <1>9, <1>10,
     <1>11, <1>12, <1>13, <1>14, <1>15, <1>16, <1>17, <1>18, <1>19, <1>20
  DEF Next, Handshake, Send, Receive, Broker

\* CURVE invariants 2 and 3: for any number of connections, calls and frames, a
\* session never seals two frames under one key and one nonce, and the nonces on
\* the wire grow; short writes, the fallback of a batch, streamed frames and
\* reconnections included.
THEOREM NoncesAreFresh == Spec => []NoncesGrow
<1>1. Init => NonceShape
  BY EmptySeq DEF Init, NonceShape, Grow, Wiped
<1>2. TypeShape /\ NonceShape /\ [Next]_vars => NonceShape'
  BY NonceShapeKept DEF TypeShape
<1>3. NonceShape => NoncesGrow
  BY DEF NonceShape, Grow, NoncesGrow
<1> QED
  BY <1>1, <1>2, <1>3, TypeAlways, PTL DEF Spec

-----------------------------------------------------------------------------
(***************************************************************************)
(* Receiving.  The counter of the session is the nonce of READY or of a    *)
(* frame it accepted, and no accepted frame is above it.  It only moves    *)
(* once the tag is checked, to a nonce it was below when the frame began.  *)
(***************************************************************************)

ReadShape ==
    /\ pc \in {"greeting", "welcome", "initiated"} => accepted = <<>>
    /\ inbox # <<>> => st.ready
    /\ pc = "body" => rx.nonce > st.nonce_in
    /\ AcceptedInOrder
    /\ \A i \in 1..Len(accepted) : accepted[i] <= st.nonce_in
    /\ \/ ~st.ready
       \/ st.nonce_in = 1
       \/ \E i \in 1..Len(accepted) : accepted[i] = st.nonce_in

\* Every step keeps it.
LEMMA ReadShapeKept ==
    ASSUME KeyShape, Rest, ReadShape, [Next]_vars
    PROVE  ReadShape'
<1>1. CASE Connect
  <2>1. accepted' = <<>> /\ inbox' = <<>> /\ ~st'.ready /\ pc' = "greeting"
    BY <1>1 DEF Connect, Wiped
  <2> QED
    BY <2>1, EmptySeq DEF ReadShape, AcceptedInOrder
<1>2. CASE Disconnect
  BY <1>2 DEF ReadShape, AcceptedInOrder, Disconnect, Shut, hsvars, outvars, invars
<1>3. CASE GreetingFails
  BY <1>3 DEF ReadShape, AcceptedInOrder, GreetingFails, Shut, hsvars, outvars, invars
<1>4. CASE Hello
  <2>1. accepted' = <<>> /\ inbox' = inbox /\ inbox = <<>> /\ ~st'.ready /\ pc' = "welcome"
    BY <1>4 DEF Hello, Wiped, ReadShape, KeyShape, invars
  <2> QED
    BY <2>1, EmptySeq DEF ReadShape, AcceptedInOrder
<1>5. CASE Initiate
  <2>1. st'.ready = st.ready
    BY <1>5 DEF Initiate, KeyShape, CurveStates
  <2>2. accepted' = <<>> /\ inbox' = inbox /\ inbox = <<>> /\ ~st'.ready /\ pc' = "initiated"
    BY <1>5, <2>1 DEF Initiate, ReadShape, KeyShape, invars
  <2> QED
    BY <2>2, EmptySeq DEF ReadShape, AcceptedInOrder
<1>6. CASE Ready
  <2>1. st'.nonce_in = 1
    BY <1>6 DEF Ready, KeyShape, CurveStates
  <2>2. accepted' = <<>> /\ inbox' = inbox /\ inbox = <<>> /\ pc' = "idle"
    BY <1>6 DEF Ready, ReadShape, KeyShape, invars
  <2> QED
    BY <2>1, <2>2, EmptySeq DEF ReadShape, AcceptedInOrder
<1>7. ASSUME NEW e \in CurveErrors, Fails(e)
      PROVE  ReadShape'
  <2>1. accepted' = <<>> /\ inbox' = <<>> /\ ~st'.ready /\ pc' = "idle"
    BY <1>7 DEF Fails, Shut, Wiped, ReadShape
  <2> QED
    BY <2>1, EmptySeq DEF ReadShape, AcceptedInOrder
<1>8. CASE BatchWritten
  <2>1. st'.nonce_in = st.nonce_in /\ st'.ready = st.ready
    BY <1>8 DEF BatchWritten, Calls, KeyShape, CurveStates
  <2>2. inbox' = inbox /\ accepted' = accepted /\ rx' = rx
    BY <1>8 DEF BatchWritten, Calls, invars
  <2>3. pc' \in {"greeting", "welcome", "initiated"} => pc \in {"greeting", "welcome", "initiated"}
    BY <1>8 DEF BatchWritten, Calls
  <2>4. pc' # "body"
    BY <1>8 DEF BatchWritten, Calls, KeyShape
  <2> QED
    BY <2>1, <2>2, <2>3, <2>4 DEF ReadShape, AcceptedInOrder
<1>9. ASSUME NEW k \in 0..3, BatchCut(k)
      PROVE  ReadShape'
  <2>1. st'.nonce_in = st.nonce_in /\ st'.ready = st.ready
    BY <1>9 DEF BatchCut, Calls, KeyShape, CurveStates
  <2>2. inbox' = inbox /\ accepted' = accepted /\ rx' = rx
    BY <1>9 DEF BatchCut, Calls, invars
  <2>3. pc' \in {"greeting", "welcome", "initiated"} => pc \in {"greeting", "welcome", "initiated"}
    BY <1>9 DEF BatchCut, Calls
  <2>4. pc' # "body"
    BY <1>9 DEF BatchCut, Calls, KeyShape
  <2> QED
    BY <2>1, <2>2, <2>3, <2>4 DEF ReadShape, AcceptedInOrder
<1>10. ASSUME NEW c \in {"json", "blob", "subscribe"}, Piecewise(c)
      PROVE  ReadShape'
  <2>1. st'.nonce_in = st.nonce_in /\ st'.ready = st.ready
    BY <1>10 DEF Piecewise, Calls, KeyShape, CurveStates
  <2>2. inbox' = inbox /\ accepted' = accepted /\ rx' = rx
    BY <1>10 DEF Piecewise, Calls, invars
  <2>3. pc' \in {"greeting", "welcome", "initiated"} => pc \in {"greeting", "welcome", "initiated"}
    BY <1>10 DEF Piecewise, Calls
  <2>4. pc' # "body"
    BY <1>10 DEF Piecewise, Calls, KeyShape
  <2> QED
    BY <2>1, <2>2, <2>3, <2>4 DEF ReadShape, AcceptedInOrder
<1>11. CASE FrameWritten
  <2>1. st'.nonce_in = st.nonce_in /\ st'.ready = st.ready
    BY <1>11 DEF FrameWritten, KeyShape, CurveStates
  <2>2. inbox' = inbox /\ accepted' = accepted /\ rx' = rx
    BY <1>11 DEF FrameWritten, invars
  <2>3. pc' \in {"greeting", "welcome", "initiated"} => pc \in {"greeting", "welcome", "initiated"}
    BY <1>11 DEF FrameWritten
  <2>4. pc' # "body"
    BY <1>11 DEF FrameWritten, KeyShape
  <2> QED
    BY <2>1, <2>2, <2>3, <2>4 DEF ReadShape, AcceptedInOrder
<1>12. ASSUME NEW k \in 0..1, FrameCut(k)
      PROVE  ReadShape'
  <2>1. st'.nonce_in = st.nonce_in /\ st'.ready = st.ready
    BY <1>12 DEF FrameCut, KeyShape, CurveStates
  <2>2. (inbox' = inbox \/ inbox' = <<>>) /\ accepted' = accepted /\ pc' = "idle"
    BY <1>12 DEF FrameCut, Shut
  <2> QED
    BY <2>1, <2>2 DEF ReadShape, AcceptedInOrder
<1>13. CASE RecvHeader
  <2>1. rx'.nonce > st.nonce_in /\ pc' = "body" /\ st.ready
    BY <1>13 DEF RecvHeader, AtHeader
  <2>2. st' = st /\ accepted' = accepted
    BY <1>13 DEF RecvHeader
  <2> QED
    BY <2>1, <2>2 DEF ReadShape, AcceptedInOrder
<1>14. CASE HeaderRefused
  <2>1. st' = st /\ accepted' = accepted /\ pc' = pc /\ rx' = rx /\ st.ready
    BY <1>14 DEF HeaderRefused, AtHeader, LosesSync
  <2> QED
    BY <2>1 DEF ReadShape, AcceptedInOrder
<1>15. CASE GarbageRefused
  <2>1. st' = st /\ accepted' = accepted /\ pc' = pc /\ rx' = rx /\ st.ready
    BY <1>15 DEF GarbageRefused, AtHeader
  <2> QED
    BY <2>1 DEF ReadShape, AcceptedInOrder
<1>16. CASE EndBody
  <2>1. inbox' = inbox /\ pc' = "idle" /\ pc = "body" /\ rx.nonce > st.nonce_in
    BY <1>16 DEF EndBody, ReadShape
  <2>2. CASE ~rx.good
    <3>1. st' = st /\ accepted' = accepted
      BY <1>16, <2>2 DEF EndBody
    <3> QED
      BY <2>1, <3>1 DEF ReadShape, AcceptedInOrder
  <2>3. CASE rx.good
    <3>1. accepted' = Append(accepted, rx.nonce) /\ rx.nonce \in Nat
      BY <1>16, <2>3 DEF EndBody, Rest, IntactFrames, Frames
    <3>2. st'.nonce_in = rx.nonce /\ st'.ready = st.ready
      BY <1>16, <2>3 DEF EndBody, KeyShape, CurveStates
    <3>3. st.nonce_in \in Nat /\ Len(accepted) \in Nat /\ accepted \in Seq(Nat)
      BY LenProperties DEF KeyShape, CurveStates, Rest
    <3>4. \A i \in 1..Len(accepted) : accepted[i] \in Nat /\ accepted[i] < rx.nonce
      BY <2>1, <3>1, <3>3, ElementOfSeq DEF ReadShape
    <3>5. /\ Len(accepted') = Len(accepted) + 1
          /\ \A i \in 1..Len(accepted) : accepted'[i] = accepted[i]
          /\ accepted'[Len(accepted) + 1] = rx.nonce
      BY <3>1, <3>3, AppendProperties
    <3>6. AcceptedInOrder'
      <4> SUFFICES ASSUME NEW i \in 1..Len(accepted'), NEW j \in 1..Len(accepted'), i < j
                   PROVE  accepted'[i] < accepted'[j]
        BY DEF AcceptedInOrder
      <4>1. CASE j = Len(accepted) + 1
        BY <4>1, <3>3, <3>4, <3>5
      <4>2. CASE j \in 1..Len(accepted)
        BY <4>2, <3>3, <3>5, SMTT(30) DEF ReadShape, AcceptedInOrder
      <4> QED
        BY <4>1, <4>2, <3>3, <3>5
    <3>7. \A i \in 1..Len(accepted') : accepted'[i] <= st'.nonce_in
      BY <3>1, <3>2, <3>3, <3>4, <3>5
    <3>8. \E i \in 1..Len(accepted') : accepted'[i] = st'.nonce_in
      BY <3>2, <3>3, <3>5
    <3> QED
      BY <2>1, <3>2, <3>6, <3>7, <3>8 DEF ReadShape
  <2> QED
    BY <2>2, <2>3
<1>17. CASE BodyAbandoned
  BY <1>17 DEF ReadShape, AcceptedInOrder, BodyAbandoned, LosesSync, Nothing, hsvars, outvars, invars
<1>18. CASE BrokerSeals
  <2>1. st' = st /\ accepted' = accepted /\ pc' = pc /\ rx' = rx /\ st.ready
    BY <1>18 DEF BrokerSeals, Stream
  <2> QED
    BY <2>1 DEF ReadShape, AcceptedInOrder
<1>19. ASSUME NEW i \in 1..Len(inbox), Repeated(i) \/ Overtaken(i) \/ Damaged(i)
      PROVE  ReadShape'
  <2>1. st' = st /\ accepted' = accepted /\ pc' = pc /\ rx' = rx
    BY <1>19 DEF Repeated, Overtaken, Damaged, Stream
  <2>2. inbox # <<>>
    BY EmptySeq
  <2> QED
    BY <2>1, <2>2 DEF ReadShape, AcceptedInOrder
<1>20. CASE UNCHANGED vars
  BY <1>20 DEF ReadShape, AcceptedInOrder, vars, hsvars, outvars, invars
<1> QED
  BY <1>1, <1>2, <1>3, <1>4, <1>5, <1>6, <1>7, <1>8, <1>9, <1>10,
     <1>11, <1>12, <1>13, <1>14, <1>15, <1>16, <1>17, <1>18, <1>19, <1>20
  DEF Next, Handshake, Send, Receive, Broker

\* It holds in every reachable state.
LEMMA ReadAlways == Spec => [](TypeShape /\ ReadShape)
<1>1. Init => ReadShape
  BY EmptySeq DEF Init, ReadShape, AcceptedInOrder, Wiped
<1>2. TypeShape /\ ReadShape /\ [Next]_vars => ReadShape'
  BY ReadShapeKept DEF TypeShape
<1> QED
  BY <1>1, <1>2, TypeAlways, PTL DEF Spec

\* CURVE invariant 4, for any number of connections and frames: whatever is
\* repeated, overtaken or damaged on the way, curve_recv accepts the frames of a
\* connection in the order they were sealed and none of them twice.
THEOREM FramesAreAcceptedInOrder == Spec => []AcceptedInOrder
<1>1. ReadShape => AcceptedInOrder
  BY DEF ReadShape
<1> QED
  BY <1>1, ReadAlways, PTL

\* A damaged frame never makes an intact one stale: the counter of the session
\* is moved by curve_end_body() alone, after the tag is checked.
THEOREM DamageDoesNotRatchet == Spec => []FreshFramePasses
<1>1. TypeShape /\ ReadShape => FreshFramePasses
  <2> SUFFICES ASSUME TypeShape, ReadShape, inbox # <<>>, Head(inbox).good,
                      \A i \in 1..Len(accepted) : accepted[i] < Head(inbox).id
               PROVE  Head(inbox).nonce > st.nonce_in
    BY DEF FreshFramePasses
  <2>1. Head(inbox) \in IntactFrames
    BY HeadTailProperties DEF TypeShape, Rest
  <2>2. Head(inbox).nonce = Head(inbox).id /\ Head(inbox).id >= 2
    BY <2>1 DEF IntactFrames
  <2>3. st.nonce_in = 1 \/ \E i \in 1..Len(accepted) : accepted[i] = st.nonce_in
    BY DEF ReadShape
  <2>4. CASE st.nonce_in = 1
    BY <2>1, <2>2, <2>4 DEF IntactFrames, Frames
  <2>5. CASE \E i \in 1..Len(accepted) : accepted[i] = st.nonce_in
    BY <2>1, <2>2, <2>5 DEF IntactFrames, Frames
  <2> QED
    BY <2>3, <2>4, <2>5
<1> QED
  BY <1>1, ReadAlways, PTL

-----------------------------------------------------------------------------
(***************************************************************************)
(* Leaving a handshake.  Between calls a session is either ready or wiped: *)
(* Ready and fail() are the two ways out, and an exchange of greetings     *)
(* that fails has not begun to fill it.                                    *)
(***************************************************************************)

Clean ==
    /\ secrets => pc \in {"welcome", "initiated"}
    /\ pc \in {"idle", "greeting"} => st.ready \/ st = Wiped

\* Every step keeps it.
LEMMA CleanKept ==
    ASSUME KeyShape, Clean, [Next]_vars
    PROVE  Clean'
<1>1. CASE Connect
  <2>1. pc' = "greeting" /\ secrets' = secrets /\ st' = Wiped /\ pc = "idle"
    BY <1>1 DEF Connect
  <2> QED
    BY <2>1 DEF Clean
<1>2. CASE Disconnect
  BY <1>2 DEF Clean, Disconnect, hsvars
<1>3. CASE GreetingFails
  BY <1>3 DEF Clean, GreetingFails
<1>4. CASE Hello \/ Initiate
  BY <1>4 DEF Clean, Hello, Initiate, hsvars
<1>5. CASE Ready
  <2>1. st'.ready
    BY <1>5 DEF Ready, KeyShape, CurveStates
  <2> QED
    BY <1>5, <2>1 DEF Clean, Ready
<1>6. ASSUME NEW e \in CurveErrors, Fails(e)
      PROVE  Clean'
  BY <1>6 DEF Clean, Fails
<1>7. ASSUME st.ready, st'.ready = st.ready, secrets' = secrets,
             pc \notin {"welcome", "initiated"}
      PROVE  Clean'
  BY <1>7 DEF Clean
<1>8. CASE \/ BatchWritten
           \/ \E k \in 0..3 : BatchCut(k)
           \/ \E c \in {"json", "blob", "subscribe"} : Piecewise(c)
  <2>1. pc = "idle" /\ st.ready /\ secrets' = secrets
    BY <1>8 DEF BatchWritten, BatchCut, Piecewise, Calls, hsvars
  <2>2. st'.ready = st.ready
    BY <1>8 DEF BatchWritten, BatchCut, Piecewise, KeyShape, CurveStates
  <2> QED
    BY <1>7, <2>1, <2>2
<1>9. CASE FrameWritten \/ \E k \in 0..1 : FrameCut(k)
  <2>1. pc = "frames" /\ st.ready /\ secrets' = secrets
    BY <1>9 DEF FrameWritten, FrameCut, hsvars, KeyShape
  <2>2. st'.ready = st.ready
    BY <1>9 DEF FrameWritten, FrameCut, KeyShape, CurveStates
  <2> QED
    BY <1>7, <2>1, <2>2
<1>10. CASE RecvHeader \/ HeaderRefused \/ GarbageRefused
  <2>1. pc = "idle" /\ st.ready /\ st' = st /\ secrets' = secrets
    BY <1>10 DEF RecvHeader, HeaderRefused, GarbageRefused, LosesSync, AtHeader, hsvars
  <2> QED
    BY <1>7, <2>1
<1>11. CASE EndBody \/ BodyAbandoned
  <2>1. pc = "body" /\ st.ready /\ secrets' = secrets
    BY <1>11 DEF EndBody, BodyAbandoned, LosesSync, hsvars, KeyShape
  <2>2. st'.ready = st.ready
    BY <1>11 DEF EndBody, BodyAbandoned, LosesSync, KeyShape, CurveStates
  <2> QED
    BY <1>7, <2>1, <2>2
<1>12. CASE Broker
  BY <1>12 DEF Clean, Broker, BrokerSeals, Repeated, Overtaken, Damaged, Stream, hsvars
<1>13. CASE UNCHANGED vars
  BY <1>13 DEF Clean, vars, hsvars
<1> QED
  BY <1>1, <1>2, <1>3, <1>4, <1>5, <1>6, <1>8, <1>9, <1>10, <1>11, <1>12, <1>13
  DEF Next, Handshake, Send, Receive

\* It holds in every reachable state.
LEMMA CleanAlways == Spec => [](TypeShape /\ Clean)
<1>1. Init => Clean
  BY DEF Init, Clean
<1>2. TypeShape /\ Clean /\ [Next]_vars => Clean'
  BY CleanKept DEF TypeShape
<1> QED
  BY <1>1, <1>2, TypeAlways, PTL DEF Spec

\* Forward secrecy between calls, whatever ended the last handshake: no transient
\* key of it is left, and the CurveState of a session that is not ready is wiped.
THEOREM NothingIsLeftBehind == Spec => []CleanBetweenCalls
<1>1. Clean => CleanBetweenCalls
  BY DEF Clean, CleanBetweenCalls
<1> QED
  BY <1>1, CleanAlways, PTL

\* The reason of a failure is `rejected` only if the broker's ERROR ended this very
\* attempt, so that the retry interval of the agent grows for nothing else.
THEOREM RejectionIsCurrent == Spec => RejectedIsCurrent
<1>1. ASSUME TypeShape, Clean, [Next]_vars,
             pc # "idle", pc' = "idle", ~st'.ready, err' = "rejected"
      PROVE  pc = "initiated"
  <2>1. CASE Handshake
    <3>1. ~Connect /\ ~Disconnect /\ ~GreetingFails /\ ~Hello /\ ~Initiate
      BY <1>1 DEF Connect, Disconnect, GreetingFails, Hello, Initiate
    <3>2. ~Ready
      BY <1>1 DEF Ready, TypeShape, KeyShape, CurveStates
    <3>3. ASSUME NEW e \in CurveErrors, Fails(e)
          PROVE  pc = "initiated"
      BY <1>1, <3>3 DEF Fails, Reasons
    <3> QED
      BY <2>1, <3>1, <3>2, <3>3 DEF Handshake
  <2>2. ~Send
    <3>1. ~BatchWritten /\ \A k \in 0..3 : ~BatchCut(k)
      BY <1>1 DEF BatchWritten, BatchCut, Calls
    <3>2. \A c \in {"json", "blob", "subscribe"} : ~Piecewise(c)
      BY <1>1 DEF Piecewise, Calls
    <3>3. ~FrameWritten /\ \A k \in 0..1 : ~FrameCut(k)
      BY <1>1 DEF FrameWritten, FrameCut, TypeShape, KeyShape, CurveStates
    <3> QED
      BY <3>1, <3>2, <3>3 DEF Send
  <2>3. ~Receive
    <3>1. ~RecvHeader /\ ~HeaderRefused /\ ~GarbageRefused
      BY <1>1 DEF RecvHeader, HeaderRefused, GarbageRefused, AtHeader
    <3>2. ~EndBody /\ ~BodyAbandoned
      BY <1>1 DEF EndBody, BodyAbandoned, LosesSync, TypeShape, KeyShape, CurveStates
    <3> QED
      BY <3>1, <3>2 DEF Receive
  <2>4. ~Broker /\ vars' # vars
    BY <1>1 DEF Broker, BrokerSeals, Repeated, Overtaken, Damaged, Stream, vars
  <2> QED
    BY <1>1, <2>1, <2>2, <2>3, <2>4 DEF Next
<1>2. TypeShape /\ Clean /\ [Next]_vars
      => [pc # "idle" /\ pc' = "idle" /\ ~st'.ready /\ err' = "rejected"
            => pc = "initiated"]_vars
  BY <1>1
<1> QED
  BY <1>2, CleanAlways, PTL DEF RejectedIsCurrent, Spec

-----------------------------------------------------------------------------
(***************************************************************************)
(* The session implements the channel.  Only what the broker has sealed on *)
(* this connection can be on the way or in the hands of a call, whatever   *)
(* happened to it; with ReadShape, what is accepted is a step of Take.     *)
(***************************************************************************)

SealedUpTo(n) == {f \in IntactFrames : f.good => f.id <= n}

OfThisConnection ==
    /\ inbox \in Seq(SealedUpTo(sealed))
    /\ rx \in SealedUpTo(sealed)
    /\ pc \in {"greeting", "welcome", "initiated"} => sealed = 0

\* A damaged frame, and no frame, come from nobody.
LEMMA NobodysFrame ==
    ASSUME NEW n \in Nat
    PROVE  /\ Nothing \in SealedUpTo(n)
           /\ \A k \in Nat : [nonce |-> k, id |-> 0, good |-> FALSE] \in SealedUpTo(n)
BY DEF Nothing, SealedUpTo, IntactFrames, Frames

\* Every step keeps it.
LEMMA ConnectionKept ==
    ASSUME TypeShape, ReadShape, OfThisConnection, [Next]_vars
    PROVE  OfThisConnection'
<1>1. sealed \in Nat /\ Len(inbox) \in Nat /\ inbox \in Seq(SealedUpTo(sealed))
  BY LenProperties DEF TypeShape, KeyShape, OfThisConnection
<1>2. ASSUME sealed' = sealed, rx' = rx \/ rx' = Nothing,
             inbox' = inbox \/ inbox' = <<>>,
             \/ pc' \notin {"greeting", "welcome", "initiated"}
             \/ pc \in {"greeting", "welcome", "initiated"}
      PROVE  OfThisConnection'
  BY <1>1, <1>2, NobodysFrame, EmptySeq DEF OfThisConnection
<1>3. CASE Connect
  BY <1>3, NobodysFrame, EmptySeq DEF Connect, OfThisConnection
<1>4. CASE Disconnect \/ GreetingFails \/ \E e \in CurveErrors : Fails(e)
  BY <1>2, <1>4 DEF Disconnect, GreetingFails, Fails, Shut
<1>5. CASE Hello \/ Initiate
  BY <1>2, <1>5 DEF Hello, Initiate, invars
<1>6. CASE Ready
  <2>1. sealed' = 1 /\ sealed = 0 /\ rx' = rx /\ inbox' = inbox /\ pc' = "idle"
    BY <1>6 DEF Ready, invars, OfThisConnection
  <2>2. SealedUpTo(0) \subseteq SealedUpTo(1)
    BY DEF SealedUpTo, IntactFrames, Frames
  <2> QED
    BY <1>1, <2>1, <2>2, SeqMonotonic DEF OfThisConnection
<1>7. CASE Send
  BY <1>2, <1>7
  DEF Send, BatchWritten, BatchCut, Piecewise, Calls, FrameWritten, FrameCut, Shut, invars
<1>8. CASE RecvHeader \/ HeaderRefused
  <2>1. Head(inbox) \in SealedUpTo(sealed) /\ Tail(inbox) \in Seq(SealedUpTo(sealed))
    BY <1>1, <1>8, HeadTailProperties DEF RecvHeader, HeaderRefused, AtHeader
  <2> QED
    BY <1>8, <2>1 DEF RecvHeader, HeaderRefused, AtHeader, LosesSync, OfThisConnection
<1>9. CASE GarbageRefused
  <2>1. PICK n \in 0..Len(inbox) : inbox' = SubSeq(inbox, n + 1, Len(inbox))
    BY <1>9 DEF GarbageRefused
  <2>2. \A i \in n + 1..Len(inbox) : inbox[i] \in SealedUpTo(sealed)
    BY <1>1, ElementOfSeq
  <2>3. inbox' \in Seq(SealedUpTo(sealed))
    BY <1>1, <2>1, <2>2, SubSeqProperties
  <2> QED
    BY <1>9, <2>3 DEF GarbageRefused, AtHeader, OfThisConnection
<1>10. CASE EndBody \/ BodyAbandoned
  BY <1>2, <1>10 DEF EndBody, BodyAbandoned, LosesSync
<1>11. CASE BrokerSeals
  <2>1. SealedUpTo(sealed) \subseteq SealedUpTo(sealed + 1)
    BY <1>1 DEF SealedUpTo, IntactFrames, Frames
  <2>2. inbox \in Seq(SealedUpTo(sealed + 1))
    BY <1>1, <2>1, SeqMonotonic
  <2>3. [nonce |-> sealed + 1, id |-> sealed + 1, good |-> TRUE] \in SealedUpTo(sealed + 1)
    BY <1>1, <1>11 DEF BrokerSeals, SealedUpTo, IntactFrames, Frames, TypeShape, KeyShape
  <2>4. inbox' \in Seq(SealedUpTo(sealed + 1))
    BY <1>11, <2>2, <2>3, AppendProperties DEF BrokerSeals
  <2>5. pc' \notin {"greeting", "welcome", "initiated"}
    BY <1>11 DEF BrokerSeals, Stream, TypeShape, KeyShape
  <2> QED
    BY <1>11, <2>1, <2>4, <2>5 DEF BrokerSeals, Stream, OfThisConnection
<1>12. ASSUME NEW i \in 1..Len(inbox), Repeated(i) \/ Overtaken(i) \/ Damaged(i)
       PROVE  OfThisConnection'
  <2>1. inbox[i] \in SealedUpTo(sealed)
    BY <1>1, ElementOfSeq
  <2>2. sealed' = sealed /\ rx' = rx /\ pc' = pc
    BY <1>12 DEF Repeated, Overtaken, Damaged, Stream
  <2>3. CASE Repeated(i)
    BY <1>1, <2>1, <2>2, <2>3, AppendProperties DEF Repeated, OfThisConnection
  <2>4. CASE Overtaken(i)
    <3>1. inbox[i + 1] \in SealedUpTo(sealed)
      BY <1>1, <2>4, ElementOfSeq DEF Overtaken
    <3>2. inbox' \in Seq(SealedUpTo(sealed))
      BY <1>1, <2>1, <2>4, <3>1 DEF Overtaken
    <3> QED
      BY <2>2, <3>2 DEF OfThisConnection
  <2>5. CASE Damaged(i)
    <3>1. PICK n \in 0..(MaxFrames + 2) :
             inbox' = [inbox EXCEPT ![i] = [nonce |-> n, id |-> 0, good |-> FALSE]]
      BY <2>5 DEF Damaged
    <3>2. [nonce |-> n, id |-> 0, good |-> FALSE] \in SealedUpTo(sealed)
      BY <1>1, NobodysFrame
    <3>3. inbox' \in Seq(SealedUpTo(sealed))
      BY <1>1, <3>1, <3>2
    <3> QED
      BY <2>2, <3>3 DEF OfThisConnection
  <2> QED
    BY <1>12, <2>3, <2>4, <2>5
<1>13. CASE UNCHANGED vars
  BY <1>2, <1>13 DEF vars, invars
<1> QED
  BY <1>3, <1>4, <1>5, <1>6, <1>7, <1>8, <1>9, <1>10, <1>11, <1>12, <1>13
  DEF Next, Handshake, Receive, Broker

\* Every step is a step of the channel or none.
LEMMA ChannelStep ==
    ASSUME TypeShape, ReadShape, OfThisConnection, [Next]_vars
    PROVE  [Channel!Next]_(Channel!vars)
<1>1. CASE UNCHANGED <<conns, sealed, accepted>>
  BY <1>1 DEF Channel!vars
<1>2. CASE Connect
  BY <1>2 DEF Connect, Channel!Open, Channel!Next
<1>3. CASE Disconnect \/ GreetingFails \/ Hello \/ Initiate \/ \E e \in CurveErrors : Fails(e)
  BY <1>1, <1>3 DEF Disconnect, GreetingFails, Hello, Initiate, Fails, hsvars, invars
<1>4. CASE Ready \/ BrokerSeals
  <2>1. sealed' = sealed + 1
    BY <1>4 DEF Ready, BrokerSeals, OfThisConnection
  <2> QED
    BY <1>4, <2>1 DEF Ready, BrokerSeals, Stream, hsvars, invars, Channel!Seal, Channel!Next
<1>5. CASE Send
  BY <1>1, <1>5
  DEF Send, BatchWritten, BatchCut, Piecewise, Calls, FrameWritten, FrameCut, hsvars, invars
<1>6. CASE RecvHeader \/ HeaderRefused \/ GarbageRefused \/ BodyAbandoned
  BY <1>1, <1>6
  DEF RecvHeader, HeaderRefused, GarbageRefused, BodyAbandoned, LosesSync, hsvars
<1>7. CASE EndBody
  <2>1. CASE ~rx.good
    BY <1>1, <1>7, <2>1 DEF EndBody, hsvars
  <2>2. CASE rx.good
    <3>1. rx.id = rx.nonce /\ rx.nonce \in Nat /\ rx.id >= 2 /\ rx.id <= sealed
      BY <2>2 DEF OfThisConnection, SealedUpTo, IntactFrames, Frames
    <3>2. rx.nonce > st.nonce_in /\ st.nonce_in \in Nat
      BY <1>7 DEF EndBody, ReadShape, TypeShape, KeyShape, CurveStates
    <3>3. \A i \in 1..Len(accepted) : accepted[i] <= st.nonce_in /\ accepted[i] \in Nat
      BY ElementOfSeq DEF ReadShape, TypeShape, Rest
    <3>4. \A i \in 1..Len(accepted) : accepted[i] < rx.id
      BY <3>1, <3>2, <3>3
    <3>5. Channel!Take(rx.id)
      BY <1>7, <2>2, <3>4 DEF EndBody, hsvars, Channel!Take
    <3>6. rx.id \in 1..sealed
      BY <3>1 DEF TypeShape, KeyShape
    <3> QED
      BY <3>5, <3>6 DEF Channel!Next
  <2> QED
    BY <2>1, <2>2
<1>8. CASE \E i \in 1..Len(inbox) : Repeated(i) \/ Overtaken(i) \/ Damaged(i)
  BY <1>1, <1>8 DEF Repeated, Overtaken, Damaged, Stream, hsvars
<1>9. CASE UNCHANGED vars
  BY <1>1, <1>9 DEF vars, hsvars, invars
<1> QED
  BY <1>2, <1>3, <1>4, <1>5, <1>6, <1>7, <1>8, <1>9 DEF Next, Handshake, Receive, Broker

\* The receiving half of a CURVE session implements the channel it promises: what
\* is accepted was sealed by the broker on this very connection and comes in its
\* order, none twice and none made up, whatever happens to frames on the way.
THEOREM SessionImplementsTheChannel == Spec => KeepsTheChannel
<1>1. Init => Channel!Init /\ OfThisConnection
  <2>1. Init => Channel!Init
    BY DEF Init, Channel!Init
  <2>2. Init => OfThisConnection
    BY NobodysFrame, EmptySeq DEF Init, OfThisConnection
  <2> QED
    BY <2>1, <2>2
<1>2. TypeShape /\ ReadShape /\ OfThisConnection /\ [Next]_vars => OfThisConnection'
  BY ConnectionKept
<1>3. TypeShape /\ ReadShape /\ OfThisConnection /\ [Next]_vars
      => [Channel!Next]_(Channel!vars)
  BY ChannelStep
<1> QED
  BY <1>1, <1>2, <1>3, ReadAlways, PTL DEF Spec, Channel!Spec, KeepsTheChannel

-----------------------------------------------------------------------------
(***************************************************************************)
(* A sketch that publishes blobs only.                                     *)
(***************************************************************************)

\* A link with half a frame on it is closed, and every call in progress is a blob's.
TornIsClosed == (torn => ~open) /\ (pc = "frames" => caller = "blob")

LEMMA TornIsClosedKept ==
    ASSUME Sends \subseteq {"blob"}, TornIsClosed, [Next]_vars
    PROVE  TornIsClosed'
<1>1. CASE Handshake
  BY <1>1 DEF Handshake, Connect, Disconnect, GreetingFails, Hello, Initiate, Ready, Fails, Shut,
              TornIsClosed, hsvars, outvars, invars
<1>2. CASE BatchWritten
  BY <1>2 DEF BatchWritten, Calls
<1>3. ASSUME NEW k \in 0..3, BatchCut(k)
      PROVE  TornIsClosed'
  BY <1>3 DEF BatchCut, Calls
<1>4. ASSUME NEW c \in {"json", "blob", "subscribe"}, Piecewise(c)
      PROVE  TornIsClosed'
  BY <1>4 DEF Piecewise, Calls, TornIsClosed
<1>5. CASE FrameWritten
  BY <1>5 DEF FrameWritten, TornIsClosed
<1>6. ASSUME NEW k \in 0..1, FrameCut(k)
      PROVE  TornIsClosed'
  BY <1>6 DEF FrameCut, Shut, TornIsClosed
<1>7. CASE Receive
  BY <1>7 DEF Receive, RecvHeader, HeaderRefused, GarbageRefused, EndBody, BodyAbandoned,
              LosesSync, TornIsClosed, outvars
<1>8. CASE Broker
  BY <1>8 DEF Broker, BrokerSeals, Repeated, Overtaken, Damaged, Stream, TornIsClosed, outvars
<1>9. CASE UNCHANGED vars
  BY <1>9 DEF vars, TornIsClosed, outvars
<1> QED
  BY <1>1, <1>2, <1>3, <1>4, <1>5, <1>6, <1>7, <1>8, <1>9 DEF Next, Send

\* A blob that publish() reports as sent is whole, after any short write on this or an
\* earlier connection: every failed send of publish() closes the socket.  (With a
\* batch of JSON this is not so, see the run curve_fallback.)
THEOREM BlobsAreWhole ==
    ASSUME Sends \subseteq {"blob"} PROVE Spec => SentMeansWhole
<1>1. Init => TornIsClosed
  BY DEF Init, TornIsClosed
<1>2. TornIsClosed /\ [Next]_vars => TornIsClosed'
  BY TornIsClosedKept
<1>3. TornIsClosed' =>
        [pc = "frames" /\ pc' = "idle" /\ open' /\ caller # "subscribe" => ~torn']_vars
  BY DEF TornIsClosed
<1> QED
  BY <1>1, <1>2, <1>3, PTL DEF Spec, SentMeansWhole

=============================================================================
