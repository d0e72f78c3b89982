-------------------------- MODULE Settings_proofs ---------------------------
(***************************************************************************)
(* Proofs about Settings, for any texts and any way they arrive: types,    *)
(* the ports that are dialled, lists, and that what is kept is what one    *)
(* text says, read as a whole.                                             *)
(***************************************************************************)
EXTENDS Settings_words

\* A scan by its fields.
Scan(line, agents, watched, done, front, back, rate, entries) ==
    [line |-> line, agents |-> agents, watched |-> watched, done |-> done,
     front |-> front, back |-> back, fps |-> rate, entries |-> entries]

\* A scan has its fields, ports in range, and is done only with all three.
IsScan(s) ==
    s = Scan(s.line, s.agents, s.watched, s.done, s.front, s.back, s.fps, s.entries)
Shape(s) ==
    /\ IsScan(s)
    /\ s.front \in 0..PortMax
    /\ s.back \in 0..PortMax
    /\ s.done \in BOOLEAN
    /\ s.done => s.front # 0 /\ s.back # 0 /\ s.fps # 0

\* Settings are there only between calls: every call clears the flag first.
Kept == Shape(scan) /\ PortsAgree

LEMMA Limits == PortMax \in Nat /\ 0 \in 0..PortMax
  BY CapsAssumption

\* A port that is read is in range, and a line without one changes nothing.
LEMMA PortRange ==
    ASSUME NEW l, NEW key, NEW old \in 0..PortMax
    PROVE  /\ OrElse(Port(l, key), old) \in 0..PortMax
           /\ old # 0 => OrElse(Port(l, key), old) # 0
  <1>1. Port(l, key) \in 0..PortMax
    BY Limits DEF Port
  <1>2. QED
    BY <1>1 DEF OrElse

\* What an assignment to a field of a scan leaves.
LEMMA Assigned ==
    ASSUME NEW s, IsScan(s), NEW x
    PROVE  /\ [s EXCEPT !.line = x]
              = Scan(x, s.agents, s.watched, s.done, s.front, s.back, s.fps, s.entries)
           /\ [s EXCEPT !.agents = x]
              = Scan(s.line, x, s.watched, s.done, s.front, s.back, s.fps, s.entries)
           /\ [s EXCEPT !.watched = x]
              = Scan(s.line, s.agents, x, s.done, s.front, s.back, s.fps, s.entries)
           /\ [s EXCEPT !.done = x]
              = Scan(s.line, s.agents, s.watched, x, s.front, s.back, s.fps, s.entries)
           /\ [s EXCEPT !.front = x]
              = Scan(s.line, s.agents, s.watched, s.done, x, s.back, s.fps, s.entries)
           /\ [s EXCEPT !.back = x]
              = Scan(s.line, s.agents, s.watched, s.done, s.front, x, s.fps, s.entries)
           /\ [s EXCEPT !.fps = x]
              = Scan(s.line, s.agents, s.watched, s.done, s.front, s.back, x, s.entries)
           /\ [s EXCEPT !.entries = x]
              = Scan(s.line, s.agents, s.watched, s.done, s.front, s.back, s.fps, x)
  BY DEF IsScan, Scan

LEMMA Fields ==
    ASSUME NEW a, NEW b, NEW c, NEW d, NEW e, NEW f, NEW g, NEW h,
           e \in 0..PortMax, f \in 0..PortMax, d \in BOOLEAN,
           d => e # 0 /\ f # 0 /\ g # 0
    PROVE  Shape(Scan(a, b, c, d, e, f, g, h))
  BY DEF Shape, IsScan, Scan

LEMMA BlankShape == Shape(Blank)
  BY Limits, Fields DEF Blank, Scan

\* What a line of [agents] changes.
LEMMA MatchedIs ==
    ASSUME NEW s, IsScan(s), NEW l
    PROVE  LET front == OrElse(Port(l, "frontend_address="), s.front)
               back == OrElse(Port(l, "backend_address="), s.back)
               rate == OrElse(Fps(l), s.fps)
           IN  Matched(s, l)
               = Scan(s.line, s.agents, s.watched,
                      s.done \/ (front # 0 /\ back # 0 /\ rate # 0),
                      front, back, rate, s.entries)
  <1> DEFINE front == OrElse(Port(l, "frontend_address="), s.front)
             back == OrElse(Port(l, "backend_address="), s.back)
             rate == OrElse(Fps(l), s.fps)
             t == [s EXCEPT !.front = front, !.back = back, !.fps = rate]
  <1>1. Matched(s, l) = [t EXCEPT !.done = t.done \/ (t.front # 0 /\ t.back # 0 /\ t.fps # 0)]
    BY DEF Matched
  <1> HIDE DEF front, back, rate
  <1>2. t = Scan(s.line, s.agents, s.watched, s.done, front, back, rate, s.entries)
    <2> DEFINE p == [s EXCEPT !.front = front]
               q == [p EXCEPT !.back = back]
    <2>1. t = [q EXCEPT !.fps = rate]
      OBVIOUS
    <2>2. p = Scan(s.line, s.agents, s.watched, s.done, front, s.back, s.fps, s.entries)
      BY Assigned
    <2> HIDE DEF p
    <2>3. q = Scan(s.line, s.agents, s.watched, s.done, front, back, s.fps, s.entries)
      BY <2>2 DEF Scan
    <2> HIDE DEF q
    <2>4. QED
      BY <2>1, <2>3 DEF Scan
  <1> HIDE DEF t
  <1>3. t.front = front /\ t.back = back /\ t.fps = rate /\ t.done = s.done
    BY <1>2 DEF Scan
  <1>4. QED
    BY <1>1, <1>2, <1>3 DEF Scan, front, back, rate

\* A line of [agents].
LEMMA MatchedShape ==
    ASSUME NEW s, Shape(s), NEW l
    PROVE  Shape(Matched(s, l))
  <1> DEFINE front == OrElse(Port(l, "frontend_address="), s.front)
             back == OrElse(Port(l, "backend_address="), s.back)
             rate == OrElse(Fps(l), s.fps)
             done == s.done \/ (front # 0 /\ back # 0 /\ rate # 0)
  <1>1. /\ front \in 0..PortMax /\ (s.front # 0 => front # 0)
        /\ back \in 0..PortMax /\ (s.back # 0 => back # 0)
    BY PortRange DEF Shape
  <1>2. s.fps # 0 => rate # 0
    BY DEF OrElse
  <1>3. Matched(s, l) = Scan(s.line, s.agents, s.watched, done, front, back, rate, s.entries)
    BY MatchedIs DEF Shape
  <1> HIDE DEF front, back, rate
  <1>4. done \in BOOLEAN /\ (done => front # 0 /\ back # 0 /\ rate # 0)
    BY <1>1, <1>2 DEF Shape
  <1> HIDE DEF done
  <1>5. QED
    BY <1>1, <1>3, <1>4, Fields

\* Any other line.
LEMMA LineShape ==
    ASSUME NEW s, Shape(s)
    PROVE  Shape(OnLine(s))
  <1> DEFINE l == SkipSpaces(s.line)
  <1>1. Shape(Matched(s, l))
    BY MatchedShape
  <1>2. ASSUME NEW x PROVE Shape([s EXCEPT !.entries = x])
    <2>1. [s EXCEPT !.entries = x]
          = Scan(s.line, s.agents, s.watched, s.done, s.front, s.back, s.fps, x)
      BY Assigned, ZenonT(30) DEF Shape
    <2>2. QED
      BY <2>1, Fields DEF Shape
  <1>3. Shape(Captured(s, l))
    BY <1>2 DEF Captured
  <1>4. ASSUME NEW x, NEW y PROVE Shape([s EXCEPT !.agents = x, !.watched = y])
    <2>1. [s EXCEPT !.agents = x, !.watched = y]
          = Scan(s.line, x, y, s.done, s.front, s.back, s.fps, s.entries)
      <3> DEFINE p == [s EXCEPT !.agents = x]
      <3>1. [s EXCEPT !.agents = x, !.watched = y] = [p EXCEPT !.watched = y]
        OBVIOUS
      <3>2. p = Scan(s.line, x, s.watched, s.done, s.front, s.back, s.fps, s.entries)
        BY Assigned DEF Shape
      <3> HIDE DEF p
      <3>3. QED
        BY <3>1, <3>2 DEF Scan
    <2>2. QED
      BY <2>1, Fields DEF Shape
  <1>5. QED
    BY <1>1, <1>3, <1>4 DEF OnLine

\* A byte, and the end of the text.
LEMMA FeedShape ==
    ASSUME NEW s, Shape(s), NEW c
    PROVE  Shape(Feed(s, c)) /\ Shape(Finish(s))
  <1>1. ASSUME NEW r, Shape(r), NEW x PROVE Shape([r EXCEPT !.line = x])
    <2>1. [r EXCEPT !.line = x]
          = Scan(x, r.agents, r.watched, r.done, r.front, r.back, r.fps, r.entries)
      BY <1>1, Assigned DEF Shape
    <2>2. QED
      BY <1>1, <2>1, Fields DEF Shape
  <1>2. QED
    BY <1>1, LineShape DEF Feed, Finish

LEMMA KeptInductive == Kept /\ [Next]_vars => Kept'
  <1> SUFFICES ASSUME Kept, [Next]_vars PROVE Kept'
    OBVIOUS
  <1>1. ASSUME Shape(scan'), ok' = FALSE PROVE Kept'
    BY <1>1 DEF Kept, PortsAgree
  <1>2. CASE Fetch
    BY <1>1, <1>2, BlankShape DEF Fetch
  <1>3. ASSUME pc # "idle" PROVE ok = FALSE \/ ~ok
    BY <1>3 DEF Kept, PortsAgree
  <1>4. ASSUME pc # "idle", Shape(scan'), ok' = ok PROVE Kept'
    BY <1>4, <1>3 DEF Kept, PortsAgree
  <1>5. CASE Refused \/ Cut \/ Incomplete
    BY <1>4, <1>5 DEF Refused, Cut, Incomplete, Kept
  <1>6. ASSUME NEW t \in Texts, Begins(t) PROVE Kept'
    BY <1>4, <1>6 DEF Begins, Kept
  <1>7. ASSUME NEW n \in 1..ChunkCap, ReadChunk(n) PROVE Kept'
    BY <1>4, <1>7 DEF ReadChunk, Kept
  <1>8. CASE FeedByte
    BY <1>4, <1>8, FeedShape DEF FeedByte, Kept
  <1>9. CASE BadTag
    BY <1>4, <1>9, BlankShape DEF BadTag, AllFed
  <1>10. CASE TextEnds
    BY <1>4, <1>10, FeedShape DEF TextEnds, AllFed, Kept
  <1>11. CASE Accepted
    <2>1. /\ scan' = scan /\ scan.done /\ scan.front # 0 /\ scan.back # 0
          /\ ports' = [front |-> scan.front, back |-> scan.back]
          /\ pc' = "idle" /\ outcome' = "accepted"
      BY <1>11 DEF Accepted, Complete, Ends
    <2>2. scan.front \in 1..PortMax /\ scan.back \in 1..PortMax
      BY <2>1, Limits DEF Kept, Shape
    <2>3. QED
      BY <2>1, <2>2 DEF Kept, PortsAgree
  <1>12. CASE UNCHANGED vars
    BY <1>12 DEF vars, agent, Kept, PortsAgree
  <1>13. QED
    BY <1>2, <1>5, <1>6, <1>7, <1>8, <1>9, <1>10, <1>11, <1>12 DEF Next

\* Whatever texts a broker sends and however they arrive, the two ports that are
\* dialled are those of the one text that was accepted last, both are port numbers,
\* and a call that fails in between leaves no permission to dial them.
THEOREM PortsAreOfOneReply == Spec => []PortsAgree
  <1>1. Init => Kept
    BY BlankShape DEF Init, Kept, PortsAgree
  <1>2. Kept => PortsAgree
    BY DEF Kept
  <1>3. QED
    BY <1>1, <1>2, KeptInductive, PTL DEF Spec

-----------------------------------------------------------------------------
(***************************************************************************)
(* Types.                                                                  *)
(***************************************************************************)

Scans == [line : Seq(Cells), agents : BOOLEAN, watched : BOOLEAN, done : BOOLEAN,
          front : 0..PortMax, back : 0..PortMax, fps : IntRange, entries : Seq(Entries)]
Typed(s) == s \in Scans /\ Len(s.line) <= Cap /\ Len(s.entries) <= MaxEntries

\* Nothing has been read when a reply is asked for.
TypeInv == TypeOK /\ (pc = "asking" => reply = <<<<>>, 0, <<>>>> /\ scan = Blank)

LEMMA BlankTyped == Typed(Blank)
  <1>1. 0 \in IntRange
    BY IntSizes DEF IntRange
  <1>2. QED
    BY <1>1, Sizes, EmptySeq DEF Typed, Scans, Blank

\* What a line says has its type.
LEMMA FpsType ==
    ASSUME NEW l \in Seq(Cells)
    PROVE  Fps(l) \in IntRange
  <1>0. 0 \in IntRange
    BY IntSizes DEF IntRange
  <1>1. CASE l = <<>>
    BY <1>0, <1>1 DEF Fps, StartsWith
  <1>2. CASE l # <<>>
    <2>1. Before(SkipSpaces(Tail(l)), Digits) \in Seq(Cells \cap Digits)
      <3>1. Tail(l) \in Seq(Cells)
        BY <1>2
      <3>2. SkipSpaces(Tail(l)) \in Seq(Cells)
        BY <3>1, TrimShape
      <3>3. QED
        BY <3>2, AfterShape
    <2>2. Before(SkipSpaces(Tail(l)), Digits) \in Seq(Digits)
      <3>1. Cells \cap Digits = Digits
        BY DEF Cells
      <3>2. QED
        BY <2>1, <3>1
    <2>3. Number(Before(SkipSpaces(Tail(l)), Digits)) \in Int
      BY <2>2, NumberIsNatural
    <2>4. Signed(Number(Before(SkipSpaces(Tail(l)), Digits))) \in IntRange
      BY <2>3, SignedIs
    <2>5. QED
      BY <1>0, <2>4 DEF Fps
  <1>3. QED
    BY <1>1, <1>2

LEMMA EntryType ==
    ASSUME NEW l \in Seq(Cells), IsEntry(l)
    PROVE  Entry(l) \in Entries
  <1>1. FromKey(l) \in Seq(Cells) /\ FromKey(l) # <<>> /\ Name(l) \in Seq(Cells)
    <2>1. FromKey(l) \in Seq(Cells) /\ Name(l) \in Seq(Cells \cap (Cells \ Keys))
      BY AfterShape DEF FromKey, Name
    <2>2. Name(l) \in Seq(Cells)
      BY <2>1
    <2>3. QED
      BY <2>1, <2>2 DEF IsEntry
  <1>2. Key(l) \in Seq(Cells) \ (LongKeys \cup {<<>>})
    <2>1. TrimRight(Name(l)) \in Seq(Cells)
      BY <1>1, TrimShape
    <2>2. Append(Name(l), Head(FromKey(l))) \in Seq(Cells)
      BY <1>1
    <2>3. QED
      BY <2>1, <2>2 DEF Key, IsEntry
  <1> DEFINE value == FirstCells(TrimRight(SkipSpaces(Tail(FromKey(l)))), ValueCap)
  <1>3. value \in Seq(Cells) /\ Len(value) <= ValueCap
    <2>1. Tail(FromKey(l)) \in Seq(Cells)
      BY <1>1
    <2>2. SkipSpaces(Tail(FromKey(l))) \in Seq(Cells)
      BY <2>1, TrimShape
    <2>3. TrimRight(SkipSpaces(Tail(FromKey(l)))) \in Seq(Cells)
      BY <2>2, TrimShape
    <2>4. QED
      BY <2>3, Sizes, FirstShape
  <1>4. Entry(l) = [key |-> Key(l), value |-> value]
    BY DEF Entry
  <1> HIDE DEF value
  <1>5. QED
    BY <1>2, <1>3, <1>4 DEF Entries

\* What an assignment to a field leaves typed.
LEMMA AssignedType ==
    ASSUME NEW s, Typed(s)
    PROVE  /\ \A x \in Seq(Cells) : Len(x) <= Cap => Typed([s EXCEPT !.line = x])
           /\ \A x, y \in BOOLEAN : Typed([s EXCEPT !.agents = x, !.watched = y])
           /\ \A x, y \in 0..PortMax, z \in IntRange :
                 Typed([s EXCEPT !.front = x, !.back = y, !.fps = z])
           /\ \A x \in BOOLEAN : Typed([s EXCEPT !.done = x])
           /\ \A x \in Seq(Entries) : Len(x) <= MaxEntries => Typed([s EXCEPT !.entries = x])
  BY DEF Typed, Scans

LEMMA LineTyped ==
    ASSUME NEW s, Typed(s)
    PROVE  Typed(OnLine(s))
  <1> DEFINE l == SkipSpaces(s.line)
  <1>1. s.line \in Seq(Cells) /\ l \in Seq(Cells)
    BY TrimShape DEF Typed, Scans
  <1>2. Typed(Matched(s, l))
    <2> DEFINE front == OrElse(Port(l, "frontend_address="), s.front)
               back == OrElse(Port(l, "backend_address="), s.back)
               rate == OrElse(Fps(l), s.fps)
               t == [s EXCEPT !.front = front, !.back = back, !.fps = rate]
    <2>1. s.front \in 0..PortMax /\ s.back \in 0..PortMax /\ s.fps \in IntRange /\ s.done \in BOOLEAN
      BY DEF Typed, Scans
    <2>2. front \in 0..PortMax /\ back \in 0..PortMax
      BY <2>1, PortRange
    <2>3. rate \in IntRange
      BY <1>1, <2>1, FpsType DEF OrElse
    <2> HIDE DEF front, back, rate, l
    <2>4. Typed(t)
      BY <2>2, <2>3, AssignedType
    <2> DEFINE done == t.done \/ (t.front # 0 /\ t.back # 0 /\ t.fps # 0)
    <2>5. done \in BOOLEAN
      OBVIOUS
    <2>6. Matched(s, l) = [t EXCEPT !.done = done]
      BY DEF Matched, front, back, rate
    <2> HIDE DEF t, done
    <2>7. QED
      BY <2>4, <2>5, <2>6, AssignedType
  <1>3. Typed(Captured(s, l))
    <2>1. CASE Len(s.entries) < MaxEntries /\ IsEntry(l)
      <3> DEFINE more == Append(s.entries, Entry(l))
      <3>1. more \in Seq(Entries) /\ Len(more) = Len(s.entries) + 1 /\ Len(s.entries) \in Nat
        BY <1>1, <2>1, EntryType DEF Typed, Scans
      <3>2. Len(more) <= MaxEntries
        BY <2>1, <3>1, Sizes
      <3>3. Captured(s, l) = [s EXCEPT !.entries = more]
        BY <2>1 DEF Captured
      <3> HIDE DEF more
      <3>4. QED
        BY <3>1, <3>2, <3>3 DEF Typed, Scans
    <2>2. QED
      BY <2>1 DEF Captured
  <1>4. Typed([s EXCEPT !.agents = (Head(l) = "[agents]"), !.watched = (Head(l) = "[own]")])
    BY AssignedType
  <1>5. QED
    BY <1>2, <1>3, <1>4 DEF OnLine

LEMMA FeedTyped ==
    ASSUME NEW s, Typed(s), NEW c \in Cells
    PROVE  Typed(Feed(s, c)) /\ Typed(Finish(s))
  <1>1. Typed([OnLine(s) EXCEPT !.line = <<>>])
    <2>1. Typed(OnLine(s))
      BY LineTyped
    <2>2. <<>> \in Seq(Cells) /\ Len(<<>>) <= Cap
      BY Sizes
    <2>3. QED
      BY <2>1, <2>2, AssignedType
  <1>2. ASSUME Len(s.line) < Cap PROVE Typed([s EXCEPT !.line = Append(s.line, c)])
    <2>1. /\ Append(s.line, c) \in Seq(Cells) /\ Len(s.line) \in Nat
          /\ Len(Append(s.line, c)) = Len(s.line) + 1
      BY DEF Typed, Scans
    <2>2. Len(Append(s.line, c)) <= Cap
      BY <1>2, <2>1, Sizes
    <2>3. QED
      BY <2>1, <2>2, AssignedType
  <1>3. Len(s.line) \in Nat
    BY DEF Typed, Scans
  <1>4. QED
    BY <1>1, <1>2, <1>3, Sizes DEF Feed, Finish

LEMMA TypeInvInductive == TypeInv /\ [Next]_vars => TypeInv'
  <1> SUFFICES ASSUME TypeInv, [Next]_vars PROVE TypeInv'
    OBVIOUS
  <1>0. /\ Typed(scan) /\ text \in Seq(Cells) /\ pos \in 0..Len(text)
        /\ chunk \in Seq(Cells) /\ Len(chunk) <= ChunkCap
        /\ ok \in BOOLEAN /\ fps \in 1..IntMax /\ outcome \in Outcomes
        /\ ports \in [front : 0..PortMax, back : 0..PortMax]
    BY DEF TypeInv, TypeOK, Typed, Scans
  \* A step that is not the start of a call, by the type of what it assigns.
  <1>1. ASSUME pc' \in {"idle", "text", "drain"}, Typed(scan'),
               text' \in Seq(Cells), pos' \in 0..Len(text'),
               chunk' \in Seq(Cells), Len(chunk') <= ChunkCap,
               ok' \in BOOLEAN, fps' \in 1..IntMax, outcome' \in Outcomes,
               ports' \in [front : 0..PortMax, back : 0..PortMax]
        PROVE  TypeInv'
    BY <1>1 DEF TypeInv, TypeOK, Typed, Scans
  <1>2. CASE Fetch
    <2>1. /\ pc' = "asking" /\ text' = <<>> /\ pos' = 0 /\ chunk' = <<>> /\ scan' = Blank
          /\ ok' = FALSE /\ fps' = fps /\ ports' = ports /\ outcome' = outcome
      BY <1>2 DEF Fetch, NoReply, agent
    <2>2. Typed(scan')
      BY <2>1, BlankTyped
    <2>3. <<>> \in Seq(Cells) /\ pos' \in 0..Len(text') /\ Len(chunk') <= ChunkCap
      BY <2>1, Sizes
    <2>4. TypeOK'
      BY <1>0, <2>1, <2>2, <2>3 DEF TypeOK, Typed, Scans
    <2>5. QED
      BY <2>1, <2>4 DEF TypeInv, reply
  <1>3. CASE Refused \/ Cut \/ Incomplete
    BY <1>0, <1>1, <1>3 DEF Refused, Cut, Incomplete, Ends, reply, agent, Outcomes
  <1>4. ASSUME NEW t \in Texts, Begins(t) PROVE TypeInv'
    <2>1. t \in Seq(Cells) /\ pos = 0
      BY <1>4, TextsAssumption DEF Begins, TypeInv, reply
    <2>2. QED
      BY <1>0, <1>1, <1>4, <2>1 DEF Begins, agent
  <1>5. ASSUME NEW n \in 1..ChunkCap, ReadChunk(n) PROVE TypeInv'
    <2>1. n \in 1..(Len(text) - pos) /\ n <= ChunkCap /\ Len(text) \in Nat
      BY <1>0, <1>5, Sizes DEF ReadChunk, Wanted
    <2>2. /\ SubSeq(text, pos + 1, pos + n) \in Seq(Cells) /\ pos + n \in 0..Len(text)
          /\ Len(SubSeq(text, pos + 1, pos + n)) = n
      BY <1>0, <2>1
    <2>3. QED
      BY <1>0, <1>1, <1>5, <2>2 DEF ReadChunk, agent
  <1>6. CASE FeedByte
    <2>1. Head(chunk) \in Cells /\ Tail(chunk) \in Seq(Cells) /\ Len(Tail(chunk)) <= ChunkCap
      <3>1. chunk # <<>> /\ Len(Tail(chunk)) = Len(chunk) - 1 /\ Len(chunk) \in Nat
        BY <1>0, <1>6 DEF FeedByte
      <3>2. QED
        BY <1>0, <3>1, Sizes
    <2>2. Typed(Feed(scan, Head(chunk)))
      BY <1>0, <2>1, FeedTyped
    <2>3. QED
      BY <1>0, <1>1, <1>6, <2>1, <2>2 DEF FeedByte, agent
  <1>7. CASE BadTag
    BY <1>0, <1>1, <1>7, BlankTyped DEF BadTag, Ends, reply, agent, Outcomes
  <1>8. CASE TextEnds
    <2>1. Typed(Finish(scan))
      <3>1. "lf" \in Cells
        BY DEF Cells
      <3>2. QED
        BY <1>0, <3>1, FeedTyped
    <2>2. QED
      BY <1>0, <1>1, <1>8, <2>1 DEF TextEnds, reply, agent
  <1>9. CASE Accepted
    <2>1. scan.front \in 0..PortMax /\ scan.back \in 0..PortMax /\ scan.fps \in IntRange
      BY <1>0 DEF Typed, Scans
    <2>2. (IF scan.fps > 0 THEN scan.fps ELSE 25) \in 1..IntMax
      BY <2>1, IntSizes DEF IntRange
    <2>3. fps' \in 1..IntMax
      BY <1>9, <2>2 DEF Accepted
    <2>4. QED
      BY <1>0, <1>1, <1>9, <2>1, <2>3 DEF Accepted, Ends, reply, Outcomes
  <1>10. CASE UNCHANGED vars
    BY <1>10 DEF vars, reply, agent, TypeInv, TypeOK
  <1>11. QED
    BY <1>2, <1>3, <1>4, <1>5, <1>6, <1>7, <1>8, <1>9, <1>10 DEF Next

LEMMA TypeInvInitially == Init => TypeInv
  <1> SUFFICES ASSUME Init PROVE TypeInv
    OBVIOUS
  <1>1. Typed(scan)
    BY BlankTyped DEF Init
  <1>2. /\ text \in Seq(Cells) /\ pos \in 0..Len(text)
        /\ chunk \in Seq(Cells) /\ Len(chunk) <= ChunkCap
    BY Sizes DEF Init
  <1>3. ports \in [front : 0..PortMax, back : 0..PortMax] /\ fps \in 1..IntMax
    BY Sizes, IntSizes DEF Init
  <1>4. pc = "idle" /\ ok \in BOOLEAN /\ outcome \in Outcomes
    BY DEF Init, Outcomes
  <1>5. QED
    BY <1>1, <1>2, <1>3, <1>4 DEF TypeInv, TypeOK, Typed, Scans

\* Whatever a text holds and however it arrives, no line, chunk or value outgrows its
\* buffer, no key is longer than its place, no more entries are kept than there are
\* places, and a number that is kept is an int, also if what the text spells is not.
THEOREM SettingsTypeCorrect == Spec => []TypeOK
  <1>1. TypeInv => TypeOK
    BY DEF TypeInv
  <1>2. QED
    BY <1>1, TypeInvInitially, TypeInvInductive, PTL DEF Spec

-----------------------------------------------------------------------------
(***************************************************************************)
(* Lists.                                                                  *)
(***************************************************************************)

\* The value of a key, where it is kept.
LEMMA RawValueType ==
    ASSUME NEW s, Typed(s), NEW key
    PROVE  RawValue(s, key) \in Seq(Cells)
  <1> DEFINE found == {i \in 1..Len(s.entries) : s.entries[i].key = key}
  <1>1. s.entries \in Seq(Entries) /\ Len(s.entries) \in Nat
    BY DEF Typed, Scans
  <1>2. CASE found = {}
    BY <1>2 DEF RawValue
  <1>3. CASE found # {}
    <2>1. found \subseteq Nat /\ found \subseteq 1..Len(s.entries)
      OBVIOUS
    <2>2. RawValue(s, key) = s.entries[Min(found)].value
      BY <1>3 DEF RawValue
    <2> HIDE DEF found
    <2>3. PICK m \in found : \A i \in found : m <= i
      BY <1>3, <2>1, LeastElement
    <2>4. Min(found) \in found
      BY <2>3 DEF Min
    <2>5. s.entries[Min(found)] \in Entries
      <3>1. Min(found) \in 1..Len(s.entries)
        BY <2>1, <2>4
      <3>2. QED
        BY <1>1, <3>1, ElementOfSeq
    <2>6. QED
      BY <2>2, <2>5 DEF Entries
  <1>4. QED
    BY <1>2, <1>3

\* The first n of a sequence.
LEMMA CutIs ==
    ASSUME NEW s \in Seq(Int), NEW n \in Nat
    PROVE  /\ FirstCells(s, n) \in Seq(Int)
           /\ Len(FirstCells(s, n)) = IF Len(s) < n THEN Len(s) ELSE n
           /\ \A i \in 1..Len(FirstCells(s, n)) : FirstCells(s, n)[i] = s[i]
  BY DEF FirstCells

\* What two cuts leave of joined sequences, and that a cut does not lengthen one.
LEMMA FirstOfFirst ==
    ASSUME NEW s \in Seq(Int), NEW t \in Seq(Int), NEW n \in Nat
    PROVE  FirstCells(FirstCells(s \o t, n), Len(s)) = FirstCells(s, n)
  <1> DEFINE j == s \o t
             c == FirstCells(j, n)
             l == FirstCells(c, Len(s))
             r == FirstCells(s, n)
  <1>1. /\ j \in Seq(Int) /\ Len(s) \in Nat /\ Len(t) \in Nat /\ Len(j) = Len(s) + Len(t)
        /\ \A i \in 1..Len(s) : j[i] = s[i]
    BY ConcatProperties
  <1> HIDE DEF j
  <1>2. /\ c \in Seq(Int) /\ Len(c) = IF Len(j) < n THEN Len(j) ELSE n
        /\ \A i \in 1..Len(c) : c[i] = j[i]
    BY <1>1, CutIs
  <1> HIDE DEF c
  <1>3. /\ l \in Seq(Int) /\ Len(l) = IF Len(c) < Len(s) THEN Len(c) ELSE Len(s)
        /\ \A i \in 1..Len(l) : l[i] = c[i]
    BY <1>1, <1>2, CutIs
  <1>4. /\ r \in Seq(Int) /\ Len(r) = IF Len(s) < n THEN Len(s) ELSE n
        /\ \A i \in 1..Len(r) : r[i] = s[i]
    BY CutIs
  <1> HIDE DEF l, r
  <1>5. /\ Len(l) = Len(r)
        /\ {Len(l), Len(c), Len(s)} \subseteq Nat
        /\ Len(l) <= Len(c) /\ Len(l) <= Len(s)
    <2>1. {Len(l), Len(r), Len(c), Len(s), Len(t), Len(j)} \subseteq Nat
      BY <1>1, <1>2, <1>3, <1>4
    <2>2. /\ Len(j) = Len(s) + Len(t)
          /\ Len(c) = IF Len(j) < n THEN Len(j) ELSE n
          /\ Len(l) = IF Len(c) < Len(s) THEN Len(c) ELSE Len(s)
          /\ Len(r) = IF Len(s) < n THEN Len(s) ELSE n
      BY <1>1, <1>2, <1>3, <1>4
    <2>3. QED
      BY <2>1, <2>2
  <1>6. ASSUME NEW i \in 1..Len(l) PROVE l[i] = r[i]
    <2>1. i \in 1..Len(c) /\ i \in 1..Len(s) /\ i \in 1..Len(r)
      BY <1>5
    <2>2. l[i] = c[i] /\ c[i] = j[i] /\ j[i] = s[i] /\ r[i] = s[i]
      BY <1>1, <1>2, <1>3, <1>4, <2>1
    <2>3. QED
      BY <2>2
  <1>7. l = r
    BY <1>3, <1>4, <1>5, <1>6, SeqEqual
  <1>8. QED
    BY <1>7 DEF l, r, c, j

LEMMA FirstShorter ==
    ASSUME NEW s \in Seq(Int), NEW n \in Nat
    PROVE  Len(FirstCells(s, n)) <= Len(s)
  BY CutIs

\* The integers of the list that a value spells are what is asked for of it.
LEMMA ArrayOfList ==
    ASSUME NEW s, Typed(s), NEW key, NEW v, v = RawValue(s, key), IsList(v),
           \A n \in 1..Items(v) : IsInt(Item(v, n))
    PROVE  LET ints == IntArray(s, key, MaxInts)
               spelled == [n \in 1..Items(v) |-> Spelled(Item(v, n))]
           IN  /\ FirstCells(ints, Items(v)) = FirstCells(spelled, MaxInts)
               /\ Last(v) = "]" => Len(ints) <= Items(v)
  <1> DEFINE spelled == [n \in 1..Items(v) |-> Spelled(Item(v, n))]
             ints == IntArray(s, key, MaxInts)
  <1>1. v \in Seq(Cells) /\ v # <<>> /\ Head(v) = "["
    BY RawValueType DEF IsList
  <1>2. SkipSpaces(v) = v
    <2>1. Head(v) \notin {" "}
      BY <1>1
    <2>2. QED
      BY <1>1, <2>1, AfterNothing DEF SkipSpaces
  <1>3. StartsWith(v, "[")
    BY <1>1 DEF StartsWith
  <1>4. ints = FirstCells(Ints(Tail(v)), MaxInts)
    BY <1>2, <1>3 DEF IntArray
  <1>5. /\ Items(v) \in Nat /\ spelled \in Seq(Int) /\ Len(spelled) = Items(v)
        /\ \E more \in Seq(Int) : /\ Ints(Tail(v)) = spelled \o more
                                  /\ Last(v) = "]" => more = <<>>
    BY <1>1, IntsOfList
  <1> HIDE DEF spelled
  <1>6. PICK more \in Seq(Int) : /\ Ints(Tail(v)) = spelled \o more
                                 /\ Last(v) = "]" => more = <<>>
    BY <1>5
  <1>7. MaxInts \in Nat
    BY Sizes
  <1>8. FirstCells(FirstCells(spelled \o more, MaxInts), Items(v)) = FirstCells(spelled, MaxInts)
    BY <1>5, <1>7, FirstOfFirst
  <1>9. Last(v) = "]" => Len(ints) <= Items(v)
    <2> SUFFICES ASSUME Last(v) = "]" PROVE Len(ints) <= Items(v)
      OBVIOUS
    <2>1. spelled \o more = spelled
      BY <1>5, <1>6, ConcatEmptySeq
    <2>2. ints = FirstCells(spelled, MaxInts)
      BY <1>4, <1>6, <2>1
    <2>3. QED
      BY <1>5, <1>7, <2>2, FirstShorter
  <1>10. QED
    BY <1>4, <1>6, <1>8, <1>9 DEF spelled

\* However a value came to be kept, an array that is asked for begins with the integers
\* of the list that the value spells, in their order, none left out, up to the limit;
\* and if the list is closed there are no others.
THEOREM ArraysHoldTheLists == Spec => []ArraysAreLists
  <1>1. TypeOK => ArraysAreLists
    <2> SUFFICES ASSUME TypeOK, NEW n \in 1..Len(scan.entries)
                 PROVE  LET key == scan.entries[n].key
                            v == RawValue(scan, key)
                            ints == IntArray(scan, key, MaxInts)
                            spelled == [i \in 1..Items(v) |-> Spelled(Item(v, i))]
                        IN  IsList(v) /\ (\A i \in 1..Items(v) : IsInt(Item(v, i)))
                            => /\ FirstCells(ints, Items(v)) = FirstCells(spelled, MaxInts)
                               /\ Last(v) = "]" => Len(ints) <= Items(v)
      BY DEF ArraysAreLists
    <2> DEFINE key == scan.entries[n].key
               v == RawValue(scan, key)
    <2>1. Typed(scan)
      BY DEF TypeOK, Typed, Scans
    <2>2. v = RawValue(scan, key)
      OBVIOUS
    <2> HIDE DEF v, key
    <2>3. ASSUME IsList(v), \A i \in 1..Items(v) : IsInt(Item(v, i))
          PROVE  LET ints == IntArray(scan, key, MaxInts)
                     spelled == [i \in 1..Items(v) |-> Spelled(Item(v, i))]
                 IN  /\ FirstCells(ints, Items(v)) = FirstCells(spelled, MaxInts)
                     /\ Last(v) = "]" => Len(ints) <= Items(v)
      BY <2>1, <2>2, <2>3, ArrayOfList
    <2>4. QED
      BY <2>3 DEF v, key
  <1>2. QED
    BY <1>1, SettingsTypeCorrect, PTL

-----------------------------------------------------------------------------
(***************************************************************************)
(* What a text has said, line by line.                                     *)
(***************************************************************************)

LinesOf(t, n, section) == {b \in Breaks(t) : b <= n /\ Section(t, b) = section}
EntryLines(t, n) == {b \in LinesOf(t, n, "[own]") : HoldsEntry(Words(t, b))}

FrontOf(t, n) ==
    LastOf([b \in LinesOf(t, n, "[agents]") |-> Port(Words(t, b), "frontend_address=")])
BackOf(t, n) ==
    LastOf([b \in LinesOf(t, n, "[agents]") |-> Port(Words(t, b), "backend_address=")])
RateOf(t, n) == LastOf([b \in LinesOf(t, n, "[agents]") |-> Fps(Words(t, b))])
EntriesOf(t, n) ==
    LET own == EntryLines(t, n)
    IN  FirstCells(Picked([b \in own |-> Entry(Words(t, b))], own), MaxEntries)

\* A scan that has been fed n cells of a text, or all of it and its end, with what it
\* holds of an unfinished line.
Told(t, n, line) ==
    Scan(line, Section(t, n + 1) = "[agents]", Section(t, n + 1) = "[own]",
         FrontOf(t, n) # 0 /\ BackOf(t, n) # 0 /\ RateOf(t, n) # 0,
         FrontOf(t, n), BackOf(t, n), RateOf(t, n), EntriesOf(t, n))

\* A line that ends adds itself to the lines of its section.
LEMMA LinesNext ==
    ASSUME NEW t \in Seq(Cells), NEW n \in 0..Len(t), NEW section
    PROVE  /\ LinesOf(t, n, section) \subseteq 1..n
           /\ LinesOf(t, n + 1, section)
              = LinesOf(t, n, section)
                \cup {b \in Breaks(t) : b = n + 1 /\ Section(t, b) = section}
  <1>1. Len(t) \in Nat /\ n \in Nat
    OBVIOUS
  <1>2. Breaks(t) \subseteq Nat /\ \A b \in Breaks(t) : 1 <= b
    BY <1>1 DEF Breaks
  <1>3. \A b \in Breaks(t) : b <= n + 1 <=> b <= n \/ b = n + 1
    BY <1>1, <1>2
  <1>4. \A b \in Breaks(t) : b <= n => b \in 1..n
    BY <1>1, <1>2
  <1>5. QED
    BY <1>3, <1>4 DEF LinesOf

\* A header opens a section, and another line leaves it open.
LEMMA SectionNext ==
    ASSUME NEW t \in Seq(Cells), NEW n \in 0..Len(t)
    PROVE  Section(t, n + 2)
           = IF n + 1 \in Breaks(t) /\ IsHeader(Words(t, n + 1))
             THEN Head(Words(t, n + 1)) ELSE Section(t, n + 1)
  <1> DEFINE old == {h \in Breaks(t) : h < n + 1 /\ IsHeader(Words(t, h))}
             new == {h \in Breaks(t) : h < n + 2 /\ IsHeader(Words(t, h))}
  <1>1. Len(t) \in Nat /\ n \in Nat
    OBVIOUS
  <1>2. Breaks(t) \subseteq Nat
    BY <1>1 DEF Breaks
  <1>3. \A h \in Breaks(t) : h < n + 2 <=> h < n + 1 \/ h = n + 1
    BY <1>1, <1>2
  <1>4. Section(t, n + 2) = IF new = {} THEN "none" ELSE Head(Words(t, Max(new)))
    BY DEF Section
  <1>5. Section(t, n + 1) = IF old = {} THEN "none" ELSE Head(Words(t, Max(old)))
    BY DEF Section
  <1>6. CASE n + 1 \in Breaks(t) /\ IsHeader(Words(t, n + 1))
    <2>1. n + 1 \in new
      BY <1>3, <1>6
    <2>2. new \subseteq Nat /\ \A y \in new : y <= n + 1
      BY <1>1, <1>2, <1>3
    <2> HIDE DEF new
    <2>3. Max(new) = n + 1
      BY <2>1, <2>2, MaxIs
    <2>4. QED
      BY <1>4, <1>6, <2>1, <2>3
  <1>7. CASE ~(n + 1 \in Breaks(t) /\ IsHeader(Words(t, n + 1)))
    <2>1. new = old
      BY <1>3, <1>7
    <2>2. QED
      BY <1>4, <1>5, <1>7, <2>1
  <1>8. QED
    BY <1>6, <1>7

\* What the lines of [agents] have said, one line later.
LEMMA ValuesNext ==
    ASSUME NEW t \in Seq(Cells), NEW n \in 0..Len(t)
    PROVE  LET w == Words(t, n + 1)
           IN  IF n + 1 \in Breaks(t) /\ Section(t, n + 1) = "[agents]"
               THEN /\ FrontOf(t, n + 1) = OrElse(Port(w, "frontend_address="), FrontOf(t, n))
                    /\ BackOf(t, n + 1) = OrElse(Port(w, "backend_address="), BackOf(t, n))
                    /\ RateOf(t, n + 1) = OrElse(Fps(w), RateOf(t, n))
               ELSE /\ FrontOf(t, n + 1) = FrontOf(t, n)
                    /\ BackOf(t, n + 1) = BackOf(t, n)
                    /\ RateOf(t, n + 1) = RateOf(t, n)
  <1> DEFINE A == LinesOf(t, n, "[agents]")
             B == LinesOf(t, n + 1, "[agents]")
  <1>1. n \in Nat
    OBVIOUS
  <1>1a. A \subseteq 1..n
    BY LinesNext
  <1>2. CASE n + 1 \in Breaks(t) /\ Section(t, n + 1) = "[agents]"
    <2>1. B = A \cup {n + 1}
      BY <1>2, LinesNext
    <2> HIDE DEF A, B
    <2>2. n + 1 \in B /\ A \subseteq B
      BY <2>1
    <2>3. LastOf([b \in B |-> Port(Words(t, b), "frontend_address=")])
          = OrElse(Port(Words(t, n + 1), "frontend_address="),
                   LastOf([b \in A |-> Port(Words(t, b), "frontend_address=")]))
      <3> DEFINE f == [b \in A |-> Port(Words(t, b), "frontend_address=")]
                 g == [b \in B |-> Port(Words(t, b), "frontend_address=")]
      <3>1. /\ DOMAIN f \subseteq 1..n /\ OneMore(f, g, n + 1)
            /\ g[n + 1] = Port(Words(t, n + 1), "frontend_address=")
        BY <1>1a, <2>1, <2>2 DEF OneMore
      <3> HIDE DEF f, g
      <3>2. LastOf(g) = OrElse(g[n + 1], LastOf(f))
        BY <1>1, <3>1, LastMore
      <3>3. QED
        BY <3>1, <3>2 DEF f, g
    <2>4. LastOf([b \in B |-> Port(Words(t, b), "backend_address=")])
          = OrElse(Port(Words(t, n + 1), "backend_address="),
                   LastOf([b \in A |-> Port(Words(t, b), "backend_address=")]))
      <3> DEFINE f == [b \in A |-> Port(Words(t, b), "backend_address=")]
                 g == [b \in B |-> Port(Words(t, b), "backend_address=")]
      <3>1. /\ DOMAIN f \subseteq 1..n /\ OneMore(f, g, n + 1)
            /\ g[n + 1] = Port(Words(t, n + 1), "backend_address=")
        BY <1>1a, <2>1, <2>2 DEF OneMore
      <3> HIDE DEF f, g
      <3>2. LastOf(g) = OrElse(g[n + 1], LastOf(f))
        BY <1>1, <3>1, LastMore
      <3>3. QED
        BY <3>1, <3>2 DEF f, g
    <2>5. LastOf([b \in B |-> Fps(Words(t, b))])
          = OrElse(Fps(Words(t, n + 1)), LastOf([b \in A |-> Fps(Words(t, b))]))
      <3> DEFINE f == [b \in A |-> Fps(Words(t, b))]
                 g == [b \in B |-> Fps(Words(t, b))]
      <3>1. /\ DOMAIN f \subseteq 1..n /\ OneMore(f, g, n + 1)
            /\ g[n + 1] = Fps(Words(t, n + 1))
        BY <1>1a, <2>1, <2>2 DEF OneMore
      <3> HIDE DEF f, g
      <3>2. LastOf(g) = OrElse(g[n + 1], LastOf(f))
        BY <1>1, <3>1, LastMore
      <3>3. QED
        BY <3>1, <3>2 DEF f, g
    <2>6. QED
      BY <1>2, <2>3, <2>4, <2>5 DEF A, B, FrontOf, BackOf, RateOf
  <1>3. CASE ~(n + 1 \in Breaks(t) /\ Section(t, n + 1) = "[agents]")
    <2>1. B = A
      <3>1. B = A \cup {b \in Breaks(t) : b = n + 1 /\ Section(t, b) = "[agents]"}
        BY LinesNext
      <3>2. {b \in Breaks(t) : b = n + 1 /\ Section(t, b) = "[agents]"} = {}
        BY <1>3
      <3>3. QED
        BY <3>1, <3>2
    <2>2. QED
      BY <1>3, <2>1 DEF FrontOf, BackOf, RateOf
  <1>4. QED
    BY <1>2, <1>3

LEMMA WordsType ==
    ASSUME NEW t \in Seq(Cells), NEW b \in 1..(Len(t) + 1)
    PROVE  Words(t, b) \in Seq(Cells)
  <1>1. b - 1 \in 0..Len(t) /\ (b - 1) + 1 = b
    OBVIOUS
  <1>2. Line(t, b) \in Seq(Cells)
    BY <1>1, HeldShape
  <1>3. QED
    BY <1>2, TrimShape DEF Words

\* The entries of the section of the agent, one line later.
LEMMA EntriesNext ==
    ASSUME NEW t \in Seq(Cells), NEW n \in 0..Len(t)
    PROVE  LET w == Words(t, n + 1)
           IN  IF n + 1 \in Breaks(t) /\ Section(t, n + 1) = "[own]" /\ HoldsEntry(w)
               THEN EntriesOf(t, n + 1) = IF Len(EntriesOf(t, n)) < MaxEntries
                                          THEN Append(EntriesOf(t, n), Entry(w))
                                          ELSE EntriesOf(t, n)
               ELSE EntriesOf(t, n + 1) = EntriesOf(t, n)
  <1> DEFINE A == EntryLines(t, n)
             B == EntryLines(t, n + 1)
  <1>1. n \in Nat /\ Len(t) \in Nat /\ n <= Len(t) /\ A \subseteq 1..n
    BY LinesNext DEF EntryLines
  <1>2. CASE n + 1 \in Breaks(t) /\ Section(t, n + 1) = "[own]" /\ HoldsEntry(Words(t, n + 1))
    <2> DEFINE f == [b \in A |-> Entry(Words(t, b))]
               g == [b \in B |-> Entry(Words(t, b))]
    <2>1. B = A \cup {n + 1}
      BY <1>2, LinesNext DEF EntryLines
    <2>2. \A b \in B : b \in 1..(Len(t) + 1) /\ HoldsEntry(Words(t, b))
      <3>1. \A b \in A : HoldsEntry(Words(t, b))
        BY DEF EntryLines
      <3>2. \A b \in A : b \in 1..(Len(t) + 1)
        BY <1>1
      <3>3. n + 1 \in 1..(Len(t) + 1)
        BY <1>1
      <3>4. QED
        BY <1>2, <2>1, <3>1, <3>2, <3>3
    <2>3. \A b \in B : Entry(Words(t, b)) \in Entries
      BY <2>2, WordsType, EntryType DEF HoldsEntry
    <2>4. Positions(A)
      <3>1. IsFiniteSet(1..n)
        BY <1>1, FS_Interval
      <3>2. IsFiniteSet(A)
        BY <1>1, <3>1, FS_Subset
      <3>3. QED
        BY <1>1, <3>2 DEF Positions
    <2>5. n + 1 \in Nat /\ \A i \in A : i < n + 1
      BY <1>1
    <2> HIDE DEF A, B
    <2>6. /\ \A i \in A : f[i] = g[i]
          /\ \A i \in A \cup {n + 1} : g[i] \in Entries
          /\ \A i \in A : f[i] \in Entries
          /\ g[n + 1] = Entry(Words(t, n + 1))
      BY <2>1, <2>3
    <2> HIDE DEF f, g
    <2> DEFINE p == Picked(f, A)
    <2>7. Picked(g, A) = p
      BY <2>4, <2>6, PickedSame
    <2>8. Picked(g, A \cup {n + 1}) = Append(Picked(g, A), g[n + 1])
      BY <2>4, <2>5, <2>6, PickedMore
    <2>9. p \in Seq(Entries)
      BY <2>4, <2>6, PickedType
    <2>10. Entry(Words(t, n + 1)) \in Entries
      BY <2>1, <2>3
    <2> HIDE DEF p
    <2>11. FirstCells(Append(p, Entry(Words(t, n + 1))), MaxEntries)
           = IF Len(FirstCells(p, MaxEntries)) < MaxEntries
             THEN Append(FirstCells(p, MaxEntries), Entry(Words(t, n + 1)))
             ELSE FirstCells(p, MaxEntries)
      BY <2>9, <2>10, Sizes, FirstMore
    <2>12. EntriesOf(t, n) = FirstCells(p, MaxEntries)
      BY DEF EntriesOf, p, f, A
    <2>13. EntriesOf(t, n + 1) = FirstCells(Append(p, Entry(Words(t, n + 1))), MaxEntries)
      <3>1. EntriesOf(t, n + 1) = FirstCells(Picked(g, B), MaxEntries)
        BY DEF EntriesOf, g, B
      <3>2. Picked(g, B) = Append(p, Entry(Words(t, n + 1)))
        BY <2>1, <2>6, <2>7, <2>8
      <3>3. QED
        BY <3>1, <3>2
    <2>14. QED
      BY <1>2, <2>11, <2>12, <2>13
  <1>3. CASE ~(n + 1 \in Breaks(t) /\ Section(t, n + 1) = "[own]" /\ HoldsEntry(Words(t, n + 1)))
    <2>1. B = A
      BY <1>3, LinesNext DEF EntryLines
    <2>2. EntriesOf(t, n + 1) = EntriesOf(t, n)
      BY <2>1 DEF EntriesOf
    <2>3. QED
      BY <1>3, <2>2
  <1>4. QED
    BY <1>2, <1>3

-----------------------------------------------------------------------------
(***************************************************************************)
(* The scanner reads what the text says.                                   *)
(***************************************************************************)

\* A comment or a line in brackets says no port, no rate and no entry.
LEMMA NoKey ==
    ASSUME NEW l, ~Says(l)
    PROVE  /\ Port(l, "frontend_address=") = 0 /\ Port(l, "backend_address=") = 0
           /\ Fps(l) = 0 /\ ~HoldsEntry(l)
  <1>1. l = <<>> \/ Head(l) \in {"#", "["} \cup Headers
    BY DEF Says, IsComment
  <1>2. /\ ~StartsWith(l, "frontend_address=") /\ ~StartsWith(l, "backend_address=")
        /\ ~StartsWith(l, "timecode_fps=")
    BY <1>1 DEF StartsWith, Headers
  <1>3. QED
    BY <1>2 DEF Port, Fps, HoldsEntry

LEMMA ScanFields ==
    ASSUME NEW a, NEW b, NEW c, NEW d, NEW e, NEW f, NEW g, NEW h
    PROVE  LET s == Scan(a, b, c, d, e, f, g, h)
           IN  /\ s.line = a /\ s.agents = b /\ s.watched = c /\ s.done = d
               /\ s.front = e /\ s.back = f /\ s.fps = g /\ s.entries = h
               /\ IsScan(s)
               /\ [s EXCEPT !.line = <<>>] = Scan(<<>>, b, c, d, e, f, g, h)
  BY DEF Scan, IsScan

\* The end of a line: on_line() takes from it what it says.
LEMMA EndLine ==
    ASSUME NEW t \in Seq(Cells), NEW n \in 0..Len(t), n + 1 \in Breaks(t), NEW line,
           \/ SkipSpaces(line) = Words(t, n + 1)
           \/ SkipSpaces(line) = <<>> /\ IsComment(Words(t, n + 1))
    PROVE  [OnLine(Told(t, n, line)) EXCEPT !.line = <<>>] = Told(t, n + 1, <<>>)
  <1> DEFINE w == Words(t, n + 1)
             l == SkipSpaces(line)
             F == FrontOf(t, n)
             B == BackOf(t, n)
             R == RateOf(t, n)
             E == EntriesOf(t, n)
             D == F # 0 /\ B # 0 /\ R # 0
             in == Section(t, n + 1)
             next == Section(t, n + 2)
             s == Told(t, n, line)
             G == FrontOf(t, n + 1)
             C == BackOf(t, n + 1)
             Q == RateOf(t, n + 1)
             Z == EntriesOf(t, n + 1)
             told == Told(t, n + 1, <<>>)
  <1>1. /\ s = Scan(line, in = "[agents]", in = "[own]", D, F, B, R, E)
        /\ told = Scan(<<>>, next = "[agents]", next = "[own]",
                       G # 0 /\ C # 0 /\ Q # 0, G, C, Q, Z)
    <2>1. (n + 1) + 1 = n + 2
      OBVIOUS
    <2>2. QED
      BY <2>1 DEF Told
  <1>2. next = IF IsHeader(w) THEN Head(w) ELSE in
    BY SectionNext
  <1>3. IF in = "[agents]"
        THEN /\ G = OrElse(Port(w, "frontend_address="), F)
             /\ C = OrElse(Port(w, "backend_address="), B)
             /\ Q = OrElse(Fps(w), R)
        ELSE G = F /\ C = B /\ Q = R
    BY ValuesNext
  <1>4. IF in = "[own]" /\ HoldsEntry(w)
        THEN Z = IF Len(E) < MaxEntries THEN Append(E, Entry(w)) ELSE E
        ELSE Z = E
    BY EntriesNext
  <1>5. /\ s.line = line /\ s.agents = (in = "[agents]") /\ s.watched = (in = "[own]")
        /\ s.done = D /\ s.front = F /\ s.back = B /\ s.fps = R /\ s.entries = E
        /\ IsScan(s)
        /\ [s EXCEPT !.line = <<>>] = Scan(<<>>, in = "[agents]", in = "[own]", D, F, B, R, E)
    BY <1>1, ScanFields
  <1>6. D \in BOOLEAN
    OBVIOUS
  <1>7. /\ IsComment(w) <=> w = <<>> \/ Head(w) = "#"
        /\ IsComment(w) => IsComment(l)
        /\ ~IsComment(w) => l = w
    BY DEF IsComment
  <1> HIDE DEF w, l, F, B, R, E, D, in, next, s, G, C, Q, Z, told
  \* A line that says nothing, wherever it is.
  <1>8. ASSUME ~IsHeader(w), ~Says(w)
        PROVE  told = Scan(<<>>, in = "[agents]", in = "[own]", D, F, B, R, E)
    <2>1. /\ Port(w, "frontend_address=") = 0 /\ Port(w, "backend_address=") = 0
          /\ Fps(w) = 0 /\ ~HoldsEntry(w)
      BY <1>8, NoKey
    <2>2. G = F /\ C = B /\ Q = R /\ Z = E /\ next = in
      BY <1>2, <1>3, <1>4, <1>8, <2>1 DEF OrElse
    <2>3. QED
      BY <1>1, <2>2 DEF D
  <1>9. OnLine(s)
        = IF IsComment(l) THEN s
          ELSE IF IsHeader(l)
          THEN [s EXCEPT !.agents = (Head(l) = "[agents]"), !.watched = (Head(l) = "[own]")]
          ELSE IF Head(l) = "[" THEN s
          ELSE IF s.agents THEN Matched(s, l)
          ELSE IF s.watched THEN Captured(s, l)
          ELSE s
    BY <1>5 DEF OnLine, l
  <1>10. CASE IsComment(w)
    <2>1. ~Says(w)
      BY <1>10 DEF Says
    <2>2. ~IsHeader(w)
      BY <1>7, <1>10 DEF IsHeader, Headers
    <2>3. OnLine(s) = s
      BY <1>7, <1>9, <1>10
    <2>4. QED
      BY <1>5, <1>8, <2>1, <2>2, <2>3 DEF s, told
  <1>11. CASE ~IsComment(w) /\ IsHeader(w)
    <2>1. ~Says(w)
      BY <1>11 DEF IsHeader, Says
    <2>2. /\ Port(w, "frontend_address=") = 0 /\ Port(w, "backend_address=") = 0
          /\ Fps(w) = 0 /\ ~HoldsEntry(w)
      BY <2>1, NoKey
    <2>3. G = F /\ C = B /\ Q = R /\ Z = E /\ next = Head(w)
      BY <1>2, <1>3, <1>4, <1>11, <2>2 DEF OrElse
    <2>4. told = Scan(<<>>, Head(w) = "[agents]", Head(w) = "[own]", D, F, B, R, E)
      BY <1>1, <2>3 DEF D
    <2>5. OnLine(s)
          = [s EXCEPT !.agents = (Head(w) = "[agents]"), !.watched = (Head(w) = "[own]")]
      BY <1>7, <1>9, <1>11
    <2>6. s = Scan(line, in = "[agents]", in = "[own]", D, F, B, R, E)
      BY <1>1
    <2>7. [[s EXCEPT !.agents = (Head(w) = "[agents]"), !.watched = (Head(w) = "[own]")]
              EXCEPT !.line = <<>>]
          = Scan(<<>>, Head(w) = "[agents]", Head(w) = "[own]", D, F, B, R, E)
      <3> DEFINE x == Head(w) = "[agents]"
                 y == Head(w) = "[own]"
                 p == [s EXCEPT !.agents = x]
                 q == [p EXCEPT !.watched = y]
      <3>1. [s EXCEPT !.agents = x, !.watched = y] = q
        OBVIOUS
      <3> HIDE DEF x, y
      <3>2. p = Scan(line, x, in = "[own]", D, F, B, R, E)
        BY <2>6 DEF Scan
      <3> HIDE DEF p
      <3>3. q = Scan(line, x, y, D, F, B, R, E)
        BY <3>2 DEF Scan
      <3> HIDE DEF q
      <3>4. [q EXCEPT !.line = <<>>] = Scan(<<>>, x, y, D, F, B, R, E)
        BY <3>3, ScanFields
      <3>5. QED
        BY <3>1, <3>4 DEF x, y
    <2>8. QED
      BY <2>4, <2>5, <2>7 DEF s, told
  <1>12. CASE ~IsComment(w) /\ ~IsHeader(w) /\ Head(w) = "["
    <2>1. ~Says(w)
      BY <1>12 DEF Says
    <2>2. OnLine(s) = s
      BY <1>7, <1>9, <1>12
    <2>3. QED
      BY <1>5, <1>8, <1>12, <2>1, <2>2 DEF s, told
  <1>13. CASE ~IsComment(w) /\ ~IsHeader(w) /\ Head(w) # "[" /\ in = "[agents]"
    <2>1. OnLine(s) = Matched(s, w)
      BY <1>5, <1>7, <1>9, <1>13
    <2>2. /\ G = OrElse(Port(w, "frontend_address="), F)
          /\ C = OrElse(Port(w, "backend_address="), B)
          /\ Q = OrElse(Fps(w), R) /\ Z = E /\ next = in
      BY <1>2, <1>3, <1>4, <1>13
    <2>3. Matched(s, w) = Scan(line, in = "[agents]", in = "[own]",
                               D \/ (G # 0 /\ C # 0 /\ Q # 0), G, C, Q, E)
      BY <1>5, <2>2, MatchedIs
    <2>4. (D \/ (G # 0 /\ C # 0 /\ Q # 0)) = (G # 0 /\ C # 0 /\ Q # 0)
      BY <2>2 DEF D, OrElse
    <2>5. [Matched(s, w) EXCEPT !.line = <<>>]
          = Scan(<<>>, in = "[agents]", in = "[own]",
                 D \/ (G # 0 /\ C # 0 /\ Q # 0), G, C, Q, E)
      BY <2>3, ScanFields
    <2>6. QED
      BY <1>1, <2>1, <2>2, <2>4, <2>5 DEF s, told
  <1>14. CASE ~IsComment(w) /\ ~IsHeader(w) /\ Head(w) # "[" /\ in = "[own]"
    <2>0. HoldsEntry(w) <=> IsEntry(w)
      <3>1. Head(w) \notin Headers
        BY <1>7, <1>14 DEF IsHeader
      <3>2. QED
        BY <1>14, <3>1 DEF HoldsEntry, Says
    <2>1. OnLine(s) = Captured(s, w)
      BY <1>5, <1>7, <1>9, <1>14
    <2>2. G = F /\ C = B /\ Q = R /\ next = in
      BY <1>2, <1>3, <1>14
    <2>3. Captured(s, w) = Scan(line, in = "[agents]", in = "[own]", D, F, B, R, Z)
      <3>0. s = Scan(line, in = "[agents]", in = "[own]", D, F, B, R, E) /\ s.entries = E
        BY <1>1, <1>5
      <3> DEFINE x == Append(E, Entry(w))
      <3>1. [s EXCEPT !.entries = Append(s.entries, Entry(w))]
            = Scan(line, in = "[agents]", in = "[own]", D, F, B, R, x)
        <4>1. Append(s.entries, Entry(w)) = x
          BY <3>0
        <4> HIDE DEF x
        <4>2. [s EXCEPT !.entries = x]
              = Scan(line, in = "[agents]", in = "[own]", D, F, B, R, x)
          BY <3>0 DEF Scan
        <4>3. QED
          BY <4>1, <4>2
      <3>2. CASE Len(E) < MaxEntries /\ IsEntry(w)
        <4>1. Z = x
          BY <1>4, <1>14, <2>0, <3>2
        <4>2. Captured(s, w) = [s EXCEPT !.entries = Append(s.entries, Entry(w))]
          BY <3>0, <3>2 DEF Captured
        <4> HIDE DEF x
        <4>3. QED
          BY <3>1, <4>1, <4>2
      <3>3. CASE ~(Len(E) < MaxEntries /\ IsEntry(w))
        <4>1. Z = E
          BY <1>4, <1>14, <2>0, <3>3
        <4>2. Captured(s, w) = s
          BY <3>0, <3>3 DEF Captured
        <4>3. QED
          BY <3>0, <4>1, <4>2
      <3>4. QED
        BY <3>2, <3>3
    <2>4. [Captured(s, w) EXCEPT !.line = <<>>]
          = Scan(<<>>, in = "[agents]", in = "[own]", D, F, B, R, Z)
      BY <2>3, ScanFields
    <2>5. QED
      BY <1>1, <2>1, <2>2, <2>4 DEF s, told, D
  <1>15. CASE ~IsComment(w) /\ ~IsHeader(w) /\ Head(w) # "[" /\ in \notin {"[agents]", "[own]"}
    <2>1. OnLine(s) = s
      BY <1>5, <1>7, <1>9, <1>15
    <2>2. G = F /\ C = B /\ Q = R /\ Z = E /\ next = in
      BY <1>2, <1>3, <1>4, <1>15
    <2>3. QED
      BY <1>1, <1>5, <2>1, <2>2 DEF s, told, D
  <1>16. QED
    BY <1>10, <1>11, <1>12, <1>13, <1>14, <1>15

\* What the buffer holds of the line that n cells leave unfinished: nothing, once the
\* line has been longer.
Partial(t, n) == IF Len(Line(t, n + 1)) <= Cap THEN Line(t, n + 1) ELSE <<>>

\* Within a line nothing is said.
LEMMA WithinLine ==
    ASSUME NEW t \in Seq(Cells), NEW n \in 0..Len(t), n + 1 \notin Breaks(t), NEW line
    PROVE  Told(t, n + 1, line) = Told(t, n, line)
  <1>1. /\ FrontOf(t, n + 1) = FrontOf(t, n) /\ BackOf(t, n + 1) = BackOf(t, n)
        /\ RateOf(t, n + 1) = RateOf(t, n)
    BY ValuesNext
  <1>2. EntriesOf(t, n + 1) = EntriesOf(t, n)
    BY EntriesNext
  <1>3. Section(t, (n + 1) + 1) = Section(t, n + 1)
    <2>1. (n + 1) + 1 = n + 2
      OBVIOUS
    <2>2. QED
      BY <2>1, SectionNext
  <1>4. QED
    BY <1>1, <1>2, <1>3 DEF Told

LEMMA NoSpaces == SkipSpaces(<<>>) = <<>>
  <1>1. <<>> \in Seq(Cells)
    OBVIOUS
  <1>2. QED
    BY <1>1, AfterNothing DEF SkipSpaces

\* What the buffer holds says at the end of the line what the line says.
LEMMA PartialWords ==
    ASSUME NEW t \in Seq(Cells), Scannable(t), NEW n \in 0..Len(t)
    PROVE  \/ SkipSpaces(Partial(t, n)) = Words(t, n + 1)
           \/ SkipSpaces(Partial(t, n)) = <<>> /\ IsComment(Words(t, n + 1))
  <1>1. CASE Len(Line(t, n + 1)) <= Cap
    BY <1>1 DEF Partial, Words
  <1>2. CASE ~(Len(Line(t, n + 1)) <= Cap)
    <2>1. Len(Line(t, n + 1)) \in Nat /\ Cap \in Nat
      BY HeldShape, Sizes
    <2>2. Len(Line(t, n + 1)) > Cap
      BY <1>2, <2>1
    <2>3. IsComment(Words(t, n + 1))
      BY <2>2, Overlong
    <2>4. QED
      BY <1>2, <2>3, NoSpaces DEF Partial
  <1>3. QED
    BY <1>1, <1>2

\* feed() takes one cell of a text.
LEMMA FeedReads ==
    ASSUME NEW t \in Seq(Cells), Scannable(t), NEW n \in 0..(Len(t) - 1)
    PROVE  Feed(Told(t, n, Partial(t, n)), t[n + 1]) = Told(t, n + 1, Partial(t, n + 1))
  <1> DEFINE c == t[n + 1]
             line == Partial(t, n)
             s == Told(t, n, line)
             L == Line(t, n + 1)
  <1>1. /\ Len(t) \in Nat /\ n \in 0..Len(t) /\ n + 1 \in 0..Len(t) /\ n + 1 \in 1..Len(t)
        /\ (n + 1) + 1 = n + 2 /\ n + 1 # Len(t) + 1
    OBVIOUS
  <1>2. n + 1 \in Breaks(t) <=> c = "lf"
    BY <1>1 DEF Breaks
  <1>3. /\ c = "cr" => Line(t, n + 2) = L
        /\ c = "lf" => Line(t, n + 2) = <<>>
        /\ c \notin {"cr", "lf"} => Line(t, n + 2) = Append(L, c)
    BY LineNext
  <1>4. Partial(t, n + 1) = IF Len(Line(t, n + 2)) <= Cap THEN Line(t, n + 2) ELSE <<>>
    BY <1>1 DEF Partial
  <1>5. L \in Seq(Cells) /\ Len(L) \in Nat /\ c \in Cells /\ Cap \in Nat \ {0}
    BY <1>1, HeldShape, ElementOfSeq, Sizes
  <1>6. /\ s.line = line /\ \A x : [s EXCEPT !.line = x] = Told(t, n, x)
    BY DEF Told, Scan
  <1>7. line = IF Len(L) <= Cap THEN L ELSE <<>>
    BY DEF Partial
  <1>8. CASE c = "cr"
    <2>1. Partial(t, n + 1) = line
      BY <1>3, <1>4, <1>7, <1>8
    <2>2. Told(t, n + 1, line) = s
      BY <1>1, <1>2, <1>8, WithinLine
    <2>3. Feed(s, c) = s
      BY <1>8 DEF Feed
    <2>4. QED
      BY <2>1, <2>2, <2>3
  <1>9. CASE c = "lf"
    <2>1. Partial(t, n + 1) = <<>>
      BY <1>3, <1>4, <1>5, <1>9
    <2>2. \/ SkipSpaces(line) = Words(t, n + 1)
          \/ SkipSpaces(line) = <<>> /\ IsComment(Words(t, n + 1))
      BY <1>1, PartialWords
    <2>3. [OnLine(s) EXCEPT !.line = <<>>] = Told(t, n + 1, <<>>)
      BY <1>1, <1>2, <1>9, <2>2, EndLine
    <2>4. Feed(s, c) = [OnLine(s) EXCEPT !.line = <<>>]
      BY <1>9 DEF Feed
    <2>5. QED
      BY <2>1, <2>3, <2>4
  <1>10. CASE c \notin {"cr", "lf"}
    <2>1. Line(t, n + 2) = Append(L, c) /\ Len(Append(L, c)) = Len(L) + 1
      BY <1>3, <1>5, <1>10, AppendProperties
    <2>2. \A x : Told(t, n + 1, x) = Told(t, n, x)
      BY <1>1, <1>2, <1>10, WithinLine
    <2>3. Len(L) + 1 > Cap
          => Len(L) + 1 = Cap + 1 /\ IsComment(SkipSpaces(Append(L, c)))
      <3>1. SUFFICES ASSUME Len(L) + 1 > Cap
                     PROVE  Len(L) + 1 = Cap + 1 /\ IsComment(SkipSpaces(Append(L, c)))
        OBVIOUS
      <3>2. Len(Line(t, (n + 1) + 1)) > Cap
        BY <1>1, <2>1, <3>1
      <3>3. Len(Line(t, (n + 1) + 1)) = Cap + 1 /\ IsComment(Words(t, (n + 1) + 1))
        BY <1>1, <3>2, Overlong
      <3>4. QED
        BY <1>1, <2>1, <3>3 DEF Words
    <2>4. CASE Len(L) < Cap
      <3>1. line = L /\ Len(line) < Cap
        BY <1>5, <1>7, <2>4
      <3>2. Partial(t, n + 1) = Append(line, c)
        BY <1>4, <1>5, <2>1, <2>4, <3>1
      <3>3. Feed(s, c) = [s EXCEPT !.line = Append(s.line, c)]
        <4>1. ~(Len(s.line) >= Cap)
          BY <1>5, <1>6, <2>4, <3>1
        <4> HIDE DEF s
        <4>2. QED
          BY <1>10, <4>1 DEF Feed
      <3>4. QED
        BY <1>6, <2>2, <3>2, <3>3
    <2>5. CASE Len(L) >= Cap
      <3>1. Len(L) = Cap /\ IsComment(SkipSpaces(Append(L, c)))
        BY <1>5, <2>3, <2>5
      <3>2. line = L /\ Len(line) = Cap
        BY <1>5, <1>7, <3>1
      <3>3. IsComment(SkipSpaces(L))
        BY <1>5, <3>1, CommentShorter
      <3>4. Partial(t, n + 1) = <<>>
        BY <1>4, <1>5, <2>1, <3>1
      <3>5. Feed(s, c) = [OnLine(s) EXCEPT !.line = <<>>]
        <4>1. Len(s.line) >= Cap
          BY <1>5, <1>6, <3>2
        <4> HIDE DEF s
        <4>2. QED
          BY <1>10, <4>1 DEF Feed
      <3>6. OnLine(s) = s
        BY <1>6, <3>2, <3>3 DEF OnLine
      <3>7. QED
        BY <1>6, <2>2, <3>4, <3>5, <3>6
    <2>6. QED
      BY <1>5, <2>4, <2>5
  <1>11. QED
    BY <1>8, <1>9, <1>10

\* finish() takes the line that the text leaves without a break.
LEMMA FinishReads ==
    ASSUME NEW t \in Seq(Cells), Scannable(t)
    PROVE  Finish(Told(t, Len(t), Partial(t, Len(t)))) = Told(t, Len(t) + 1, <<>>)
  <1> DEFINE n == Len(t)
             line == Partial(t, n)
             s == Told(t, n, line)
  <1>1. n \in 0..Len(t) /\ n + 1 \in Breaks(t)
    BY DEF Breaks
  <1>2. \/ SkipSpaces(line) = Words(t, n + 1)
        \/ SkipSpaces(line) = <<>> /\ IsComment(Words(t, n + 1))
    BY <1>1, PartialWords
  <1>3. [OnLine(s) EXCEPT !.line = <<>>] = Told(t, n + 1, <<>>)
    BY <1>1, <1>2, EndLine
  <1>4. /\ s.line = line /\ [s EXCEPT !.line = <<>>] = Told(t, n, <<>>)
    BY DEF Told, Scan
  <1>5. CASE line = <<>>
    <2>1. OnLine(s) = s
      BY <1>4, <1>5, NoSpaces DEF OnLine, IsComment
    <2>2. Finish(s) = s
      BY <1>4, <1>5 DEF Finish
    <2>3. QED
      BY <1>3, <1>4, <1>5, <2>1, <2>2
  <1>6. CASE line # <<>>
    BY <1>3, <1>4, <1>6 DEF Finish
  <1>7. QED
    BY <1>5, <1>6

\* reset() is what has been read of nothing.
LEMMA BlankReads ==
    ASSUME NEW t \in Seq(Cells)
    PROVE  Blank = Told(t, 0, Partial(t, 0))
  <1>1. Len(t) \in Nat /\ 0 \in 0..Len(t) /\ Breaks(t) \subseteq 1..(Len(t) + 1)
    BY DEF Breaks
  <1>2. \A f : Picked(f, {}) = <<>>
    <2>1. Cardinality({}) = 0
      BY FS_EmptySet
    <2>2. QED
      BY <2>1 DEF Picked
  <1>3. Partial(t, 0) = <<>>
    <2>1. Held(t, 0) = {}
      BY DEF Held
    <2>2. Line(t, 0 + 1) = <<>>
      BY <1>1, <1>2, <2>1, HeldShape
    <2>3. QED
      BY <2>2, Sizes DEF Partial
  <1>4. Section(t, 0 + 1) = "none"
    <2>1. \A h \in Breaks(t) : ~(h < 0 + 1)
      BY <1>1
    <2>2. {h \in Breaks(t) : h < 0 + 1 /\ IsHeader(Words(t, h))} = {}
      BY <2>1
    <2>3. QED
      BY <2>2 DEF Section
  <1>5. \A section : LinesOf(t, 0, section) = {}
    <2>1. \A b \in Breaks(t) : ~(b <= 0)
      BY <1>1
    <2>2. QED
      BY <2>1 DEF LinesOf
  <1>6. \A f : DOMAIN f = {} => LastOf(f) = 0
    BY DEF LastOf
  <1>7. FrontOf(t, 0) = 0 /\ BackOf(t, 0) = 0 /\ RateOf(t, 0) = 0
    <2>1. FrontOf(t, 0) = 0
      BY <1>5, <1>6 DEF FrontOf
    <2>2. BackOf(t, 0) = 0
      BY <1>5, <1>6 DEF BackOf
    <2>3. RateOf(t, 0) = 0
      BY <1>5, <1>6 DEF RateOf
    <2>4. QED
      BY <2>1, <2>2, <2>3
  <1>8. EntriesOf(t, 0) = <<>>
    <2>1. EntryLines(t, 0) = {}
      BY <1>5 DEF EntryLines
    <2>2. FirstCells(<<>>, MaxEntries) = <<>>
      <3>1. <<>> \in Seq(Cells) /\ Len(<<>>) = 0
        OBVIOUS
      <3>2. SubSeq(<<>>, 1, 0) = <<>>
        BY SubSeqEmpty
      <3>3. (IF 0 < MaxEntries THEN 0 ELSE MaxEntries) = 0
        BY Sizes
      <3>4. QED
        BY <3>1, <3>2, <3>3 DEF FirstCells
    <2>3. QED
      BY <1>2, <2>1, <2>2 DEF EntriesOf
  <1>9. QED
    BY <1>3, <1>4, <1>7, <1>8 DEF Told, Scan, Blank

\* What has been read of a text and its end is what the text says.
LEMMA AllIsRead ==
    ASSUME NEW t \in Seq(Cells)
    PROVE  LET s == Told(t, Len(t) + 1, <<>>)
           IN  /\ [front |-> s.front, back |-> s.back, fps |-> s.fps, entries |-> s.entries]
                  = Reading(t)
               /\ s.done = (s.front # 0 /\ s.back # 0 /\ s.fps # 0)
  <1> DEFINE m == Len(t) + 1
  <1>1. \A b \in Breaks(t) : b <= m
    BY DEF Breaks
  <1>2. \A section : LinesOf(t, m, section) = {b \in Breaks(t) : Section(t, b) = section}
    BY <1>1 DEF LinesOf
  <1>3. EntryLines(t, m) = {b \in Breaks(t) : Section(t, b) = "[own]" /\ HoldsEntry(Words(t, b))}
    BY <1>2 DEF EntryLines
  <1> HIDE DEF m
  <1>4. Reading(t) = [front |-> FrontOf(t, m), back |-> BackOf(t, m), fps |-> RateOf(t, m),
                      entries |-> EntriesOf(t, m)]
    BY <1>2, <1>3 DEF Reading, FrontOf, BackOf, RateOf, EntriesOf
  <1>5. QED
    BY <1>4 DEF Told, Scan, m

\* The cells that were fed.
Fed == pos - Len(chunk)

\* What is kept is Blank, or what has been said by what was read so far, or by all.
AnswersInv ==
    /\ pc = "idle" /\ outcome \in {"none", "refused", "bad_tag"} => scan = Blank
    /\ pc = "text" => /\ Len(chunk) <= pos /\ chunk = SubSeq(text, Fed + 1, pos)
                      /\ Scannable(text) => scan = Told(text, Fed, Partial(text, Fed))
    /\ (pc = "drain" \/ (pc = "idle" /\ outcome \in {"incomplete", "accepted"}))
       /\ Scannable(text) => scan = Told(text, Len(text) + 1, <<>>)

LEMMA AnswersInductive == TypeInv /\ AnswersInv /\ [Next]_vars => AnswersInv'
  <1> SUFFICES ASSUME TypeInv, AnswersInv, [Next]_vars PROVE AnswersInv'
    OBVIOUS
  <1>0. text \in Seq(Cells) /\ Len(text) \in Nat /\ pos \in 0..Len(text) /\ chunk \in Seq(Cells)
    BY LenProperties DEF TypeInv, TypeOK
  <1>1. CASE Fetch
    BY <1>1 DEF Fetch, AnswersInv
  <1>2. CASE Refused
    BY <1>2 DEF Refused, Ends, AnswersInv, TypeInv
  <1>3. CASE Cut
    BY <1>3 DEF Cut, Ends, AnswersInv
  <1>4. CASE BadTag
    BY <1>4 DEF BadTag, Ends, AnswersInv
  <1>5. ASSUME NEW t \in Texts, Begins(t) PROVE AnswersInv'
    <2>1. pc' = "text" /\ text' = t /\ pos' = 0 /\ chunk' = <<>> /\ scan' = Blank
      BY <1>5 DEF Begins, TypeInv, reply
    <2>2. t \in Seq(Cells)
      BY TextsAssumption
    <2>3. Blank = Told(t, 0, Partial(t, 0))
      BY <2>2, BlankReads
    <2>4. Fed' = 0
      <3>1. Fed' = pos' - Len(chunk')
        BY DEF Fed
      <3>2. pos' = 0 /\ Len(chunk') = 0
        BY <2>1
      <3>3. QED
        BY <3>1, <3>2
    <2>5. SubSeq(t, 1, 0) = <<>>
      BY SubSeqEmpty
    <2>6. QED
      BY <2>1, <2>3, <2>4, <2>5 DEF AnswersInv
  <1>6. ASSUME NEW n \in 1..ChunkCap, ReadChunk(n) PROVE AnswersInv'
    <2>1. /\ pc = "text" /\ pc' = "text" /\ chunk = <<>> /\ chunk' = SubSeq(text, pos + 1, pos + n)
          /\ pos' = pos + n /\ text' = text /\ scan' = scan /\ n \in 1..Wanted
      BY <1>6 DEF ReadChunk
    <2>2. n \in 1..(Len(text) - pos)
      BY <1>0, <2>1, Sizes DEF Wanted
    <2>3. Len(chunk') = n
      BY <1>0, <2>1, <2>2
    <2>4. Fed = pos /\ Fed' = pos
      BY <1>0, <2>1, <2>2, <2>3 DEF Fed
    <2>5. Len(chunk') <= pos'
      BY <1>0, <2>1, <2>2, <2>3
    <2>6. QED
      BY <2>1, <2>4, <2>5 DEF AnswersInv
  <1>7. CASE FeedByte
    <2>1. /\ pc = "text" /\ pc' = "text" /\ chunk # <<>> /\ chunk' = Tail(chunk)
          /\ scan' = Feed(scan, Head(chunk)) /\ text' = text /\ pos' = pos
      BY <1>7 DEF FeedByte
    <2>2. Len(chunk) \in Nat \ {0} /\ Len(chunk') = Len(chunk) - 1
      BY <1>0, <2>1
    <2>3. Len(chunk) <= pos /\ chunk = SubSeq(text, Fed + 1, pos)
      BY <2>1 DEF AnswersInv
    <2> DEFINE f == Fed
    <2>4. /\ f \in 0..(Len(text) - 1) /\ f + 1 \in 1..Len(text)
          /\ pos \in (f + 1)..Len(text) /\ Fed' = f + 1
      <3>1. f = pos - Len(chunk) /\ Fed' = pos - Len(chunk')
        BY <2>1 DEF Fed
      <3>2. pos \in Nat /\ pos <= Len(text) /\ Len(chunk) <= pos
        BY <1>0, <2>3
      <3> HIDE DEF f
      <3>3. QED
        BY <1>0, <2>2, <3>1, <3>2
    <2>5. chunk = SubSeq(text, f + 1, pos)
      BY <2>3
    <2> HIDE DEF f
    <2>6. Head(chunk) = text[f + 1] /\ Tail(chunk) = SubSeq(text, (f + 1) + 1, pos)
      BY <1>0, <2>4, <2>5, HeadTailOfSubSeq
    <2>7. Len(chunk') <= pos' /\ chunk' = SubSeq(text', Fed' + 1, pos')
      <3>1. Len(chunk') <= pos
        BY <1>0, <2>2, <2>3
      <3>2. QED
        BY <2>1, <2>4, <2>6, <3>1
    <2>8. ASSUME Scannable(text) PROVE scan' = Told(text, Fed', Partial(text, Fed'))
      <3>1. scan = Told(text, f, Partial(text, f))
        BY <2>1, <2>8 DEF AnswersInv, f
      <3>2. Feed(scan, text[f + 1]) = Told(text, f + 1, Partial(text, f + 1))
        BY <1>0, <2>4, <2>8, <3>1, FeedReads
      <3>3. QED
        BY <2>1, <2>4, <2>6, <3>2
    <2>9. QED
      BY <2>1, <2>7, <2>8 DEF AnswersInv
  <1>8. CASE TextEnds
    <2>1. /\ pc = "text" /\ chunk = <<>> /\ pos = Len(text) /\ pc' = "drain"
          /\ scan' = Finish(scan) /\ text' = text
      BY <1>8 DEF TextEnds, AllFed, reply
    <2>2. Fed = Len(text)
      BY <1>0, <2>1 DEF Fed
    <2>3. ASSUME Scannable(text) PROVE scan' = Told(text, Len(text) + 1, <<>>)
      BY <1>0, <2>1, <2>2, <2>3, FinishReads DEF AnswersInv
    <2>4. QED
      BY <2>1, <2>3 DEF AnswersInv
  <1>9. CASE Incomplete
    BY <1>9 DEF Incomplete, Ends, reply, AnswersInv
  <1>10. CASE Accepted
    BY <1>10 DEF Accepted, Ends, reply, AnswersInv
  <1>11. CASE UNCHANGED vars
    BY <1>11 DEF vars, reply, AnswersInv, Fed
  <1>12. QED
    BY <1>1, <1>2, <1>3, <1>4, <1>5, <1>6, <1>7, <1>8, <1>9, <1>10, <1>11 DEF Next

LEMMA AnswersFollow == TypeInv /\ AnswersInv => AnswersAreTheText
  <1> SUFFICES ASSUME TypeInv, AnswersInv, pc = "idle", outcome # "cut", scan # Blank
               PROVE  /\ outcome \in {"incomplete", "accepted"}
                      /\ Scannable(text) =>
                            /\ [front |-> scan.front, back |-> scan.back, fps |-> scan.fps,
                                entries |-> scan.entries] = Reading(text)
                            /\ scan.done = (scan.front # 0 /\ scan.back # 0 /\ scan.fps # 0)
    BY DEF AnswersAreTheText
  <1>1. outcome \in Outcomes /\ text \in Seq(Cells)
    BY DEF TypeInv, TypeOK
  <1>2. outcome \in {"incomplete", "accepted"}
    BY <1>1 DEF Outcomes, AnswersInv
  <1>3. ASSUME Scannable(text)
        PROVE  /\ [front |-> scan.front, back |-> scan.back, fps |-> scan.fps,
                   entries |-> scan.entries] = Reading(text)
               /\ scan.done = (scan.front # 0 /\ scan.back # 0 /\ scan.fps # 0)
    <2>1. scan = Told(text, Len(text) + 1, <<>>)
      BY <1>2, <1>3 DEF AnswersInv
    <2>2. QED
      BY <1>1, <2>1, AllIsRead
  <1>4. QED
    BY <1>2, <1>3

\* Whatever files a broker has, in whatever pieces a reply arrives and whatever calls
\* failed before: unless the last call was cut short, the ports, the rate and the
\* entries that are kept are those of one text, read as a whole.
THEOREM AnswersAreOfTheText == Spec => []AnswersAreTheText
  <1>1. Init => TypeInv /\ AnswersInv
    <2> SUFFICES ASSUME Init PROVE TypeInv /\ AnswersInv
      OBVIOUS
    <2>1. TypeInv
      BY TypeInvInitially
    <2>2. AnswersInv
      BY DEF Init, AnswersInv
    <2>3. QED
      BY <2>1, <2>2
  <1>2. (TypeInv /\ AnswersInv) /\ [Next]_vars => (TypeInv /\ AnswersInv)'
    BY TypeInvInductive, AnswersInductive
  <1>3. QED
    BY <1>1, <1>2, AnswersFollow, PTL DEF Spec

=============================================================================
