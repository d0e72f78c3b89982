------------------------------ MODULE Settings ------------------------------
(***************************************************************************)
(* The settings an agent keeps: TomlScan (src/mads/toml_scan.cpp), fed     *)
(* from the reply as it arrives by fetch_settings() (mads_agent.cpp:232),  *)
(* which may fail at any byte and be repeated with another file.           *)
(*                                                                         *)
(* A text is a sequence of cells: a cell is a byte, or a run of bytes that *)
(* the scanner takes as one word (a section header, a key with its "=").   *)
(***************************************************************************)
EXTENDS Integers, SequencesExt

CONSTANTS
    Texts,          \* the settings files a broker may have
    Cap,            \* LINE_BUF_SIZE - 1
    MaxEntries,
    LongKeys,       \* sequences of cells: keys of KEY_CAP bytes and more
    ValueCap,       \* VALUE_CAP - 1
    ChunkCap,       \* the chunk buffer of fetch_settings()
    MaxInts,        \* what a sketch asks setting_int_array() for
    PortMax,        \* 65535
    IntMax,         \* 2^31 - 1
    StrictOverflow  \* may the compiler take it that no int ever overflows?

Digits == {"0", "1", "9"}
Keys == {"frontend_address=", "backend_address=", "timecode_fps=", "a=", "b=", "="}
Headers == {"[agents]", "[own]", "[other]"}
Cells == Digits \cup Keys \cup Headers \cup
         {"lf", "cr", " ", "#", "[", "]", ",", ":", "-", "x"}

ASSUME TextsAssumption == Texts \subseteq Seq(Cells)
ASSUME CapsAssumption == {Cap, ChunkCap, PortMax} \subseteq Nat \ {0}
ASSUME LimitsAssumption == {MaxEntries, ValueCap, MaxInts} \subseteq Nat
ASSUME IntAssumption == IntMax \in Nat /\ IntMax >= 25
ASSUME OverflowAssumption == StrictOverflow \in BOOLEAN
ASSUME KeysAssumption == LongKeys \subseteq Seq(Cells)

VARIABLES
    pc,             \* where fetch_settings() is, "idle" between calls
    text,           \* the file of this reply
    pos,            \* cells of it that were read
    chunk,          \* cells read and not yet fed
    scan,           \* _settings_scan
    ok,             \* _settings_ok
    ports,          \* _frontend_port, _backend_port
    fps,            \* _timecode_fps
    outcome         \* history: how the last call ended

reply == <<text, pos, chunk>>
agent == <<ports, fps>>
vars == <<pc, reply, scan, ok, agent, outcome>>

-----------------------------------------------------------------------------
(***************************************************************************)
(* Words of a line.                                                        *)
(***************************************************************************)

\* s without, and up to, the cells in front that are in set.
After(s, set) ==
    LET others == {i \in 1..Len(s) : s[i] \notin set}
    IN  IF others = {} THEN <<>> ELSE SubSeq(s, Min(others), Len(s))
Before(s, set) == SubSeq(s, 1, Len(s) - Len(After(s, set)))

\* skip_ws() and rtrim().
SkipSpaces(s) == After(s, {" "})
TrimRight(s) == Reverse(After(Reverse(s), {" "}))

FirstCells(s, n) == SubSeq(s, 1, IF Len(s) < n THEN Len(s) ELSE n)
StartsWith(s, cell) == s # <<>> /\ Head(s) = cell

Value(digit) == CASE digit = "0" -> 0 [] digit = "1" -> 1 [] digit = "9" -> 9
Number(digits) ==
    LET n[i \in 0..Len(digits)] == IF i = 0 THEN 0 ELSE 10 * n[i - 1] + Value(digits[i])
    IN  n[Len(digits)]

\* What 32 bits hold of a number, unsigned and signed.
Word == 2 * (IntMax + 1)
Unsigned(n) == n % Word
Signed(n) == IF Unsigned(n) <= IntMax THEN Unsigned(n) ELSE Unsigned(n) - Word
IntRange == -(IntMax + 1)..IntMax

\* What follows the last colon of s.
AfterColon(s) ==
    LET colons == {i \in 1..Len(s) : s[i] = ":"}
    IN  IF colons = {} THEN <<>> ELSE SubSeq(s, Max(colons) + 1, Len(s))

-----------------------------------------------------------------------------
(***************************************************************************)
(* TomlScan.                                                               *)
(***************************************************************************)

Blank == [line |-> <<>>, agents |-> FALSE, watched |-> FALSE, done |-> FALSE,
          front |-> 0, back |-> 0, fps |-> 0, entries |-> <<>>]

\* try_match_port() and try_match_fps(), whose sums wrap: 0 for no match.  The sum of
\* digits is an int in the second: a compiler that counts on it not to overflow
\* may test it for # 0 where the code says > 0.
Port(l, key) ==
    LET number == Unsigned(Number(Before(AfterColon(l), Digits)))
    IN  IF StartsWith(l, key) /\ number \in 1..PortMax THEN number ELSE 0
Fps(l) ==
    LET number == Signed(Number(Before(SkipSpaces(Tail(l)), Digits)))
    IN  IF StartsWith(l, "timecode_fps=") /\ (number > 0 \/ StrictOverflow) THEN number ELSE 0

OrElse(new, old) == IF new # 0 THEN new ELSE old

\* on_line() in [agents].
Matched(s, l) ==
    LET t == [s EXCEPT !.front = OrElse(Port(l, "frontend_address="), @),
                       !.back = OrElse(Port(l, "backend_address="), @),
                       !.fps = OrElse(Fps(l), @)]
    IN  [t EXCEPT !.done = @ \/ (t.front # 0 /\ t.back # 0 /\ t.fps # 0)]

\* capture_entry(): the first "=" of the line ends the key.
Name(l) == Before(l, Cells \ Keys)
FromKey(l) == After(l, Cells \ Keys)
Key(l) ==
    IF StartsWith(FromKey(l), "=") THEN TrimRight(Name(l))
                                   ELSE Append(Name(l), Head(FromKey(l)))

\* A key that fits, and a value that is cut to fit.
IsEntry(l) == FromKey(l) # <<>> /\ Key(l) \notin LongKeys \cup {<<>>}
Entry(l) ==
    [key |-> Key(l),
     value |-> FirstCells(TrimRight(SkipSpaces(Tail(FromKey(l)))), ValueCap)]
Captured(s, l) ==
    IF Len(s.entries) < MaxEntries /\ IsEntry(l)
    THEN [s EXCEPT !.entries = Append(@, Entry(l))]
    ELSE s

IsComment(l) == l = <<>> \/ Head(l) = "#"
IsHeader(l) ==
    l # <<>> /\ (Head(l) \in Headers \/ (Head(l) = "[" /\ Contains(l, "]")))

\* on_line().
OnLine(s) ==
    LET l == SkipSpaces(s.line)
    IN  IF IsComment(l) THEN s
        ELSE IF IsHeader(l)
        THEN [s EXCEPT !.agents = (Head(l) = "[agents]"), !.watched = (Head(l) = "[own]")]
        ELSE IF Head(l) = "[" THEN s
        ELSE IF s.agents THEN Matched(s, l)
        ELSE IF s.watched THEN Captured(s, l)
        ELSE s

\* Mutant of Feed: the line may be one longer than its buffer.
FeedOneOver(s, c) ==
    IF c = "cr" THEN s
    ELSE IF c = "lf" \/ Len(s.line) > Cap THEN [OnLine(s) EXCEPT !.line = <<>>]
    ELSE [s EXCEPT !.line = Append(@, c)]

\* feed(): a byte that finds the buffer full ends the line, and is lost.
Feed(s, c) ==
    IF c = "cr" THEN s
    ELSE IF c = "lf" \/ Len(s.line) >= Cap THEN [OnLine(s) EXCEPT !.line = <<>>]
    ELSE [s EXCEPT !.line = Append(@, c)]

Finish(s) == IF s.line = <<>> THEN s ELSE [OnLine(s) EXCEPT !.line = <<>>]

\* raw_value(), nothing if there is no such key.
RawValue(s, key) ==
    LET found == {i \in 1..Len(s.entries) : s.entries[i].key = key}
    IN  IF found = {} THEN <<>> ELSE s.entries[Min(found)].value

\* The number in front of v.
Spelled(v) ==
    IF StartsWith(v, "-") THEN -Number(Before(Tail(v), Digits)) ELSE Number(Before(v, Digits))

\* int_value(): what an int holds of it, if there is one, and what follows it.
Integer(v) ==
    LET digits == IF StartsWith(v, "-") THEN Tail(v) ELSE v
    IN  [any |-> Before(digits, Digits) # <<>>,
         int |-> Signed(Spelled(v)),
         rest |-> After(digits, Digits)]

\* Mutant of Ints: only one separator is skipped.
IntsSparse(v) ==
    LET f[w \in Seq(Cells)] ==
            LET t == IF StartsWith(w, ",") \/ StartsWith(w, " ") THEN Tail(w) ELSE w
                i == Integer(t)
            IN  IF i.any THEN <<i.int>> \o f[i.rest] ELSE <<>>
    IN  f[v]

\* The loop of int_array(): integers between separators, up to anything else.
Ints(v) ==
    LET f[w \in Seq(Cells)] ==
            LET i == Integer(After(w, {" ", ","}))
            IN  IF i.any THEN <<i.int>> \o f[i.rest] ELSE <<>>
    IN  f[v]

IntArray(s, key, max) ==
    LET v == SkipSpaces(RawValue(s, key))
    IN  FirstCells(Ints(IF StartsWith(v, "[") THEN Tail(v) ELSE v), max)

-----------------------------------------------------------------------------
(***************************************************************************)
(* fetch_settings().                                                       *)
(***************************************************************************)

Entries ==
    [key : Seq(Cells) \ (LongKeys \cup {<<>>}),
     value : {v \in Seq(Cells) : Len(v) <= ValueCap}]
Outcomes == {"none", "refused", "cut", "bad_tag", "incomplete", "accepted"}

TypeOK ==
    /\ pc \in {"idle", "asking", "text", "drain"}
    /\ text \in Seq(Cells)
    /\ pos \in 0..Len(text)
    /\ chunk \in Seq(Cells) /\ Len(chunk) <= ChunkCap
    /\ scan \in [line : Seq(Cells), agents : BOOLEAN, watched : BOOLEAN, done : BOOLEAN,
                 front : 0..PortMax, back : 0..PortMax, fps : IntRange,
                 entries : Seq(Entries)]
    /\ Len(scan.line) <= Cap
    /\ Len(scan.entries) <= MaxEntries
    /\ ok \in BOOLEAN
    /\ ports \in [front : 0..PortMax, back : 0..PortMax]
    /\ fps \in 1..IntMax
    /\ outcome \in Outcomes

\* The default ports of a broker stand until a reply is accepted.
Init ==
    /\ pc = "idle"
    /\ text = <<>>
    /\ pos = 0
    /\ chunk = <<>>
    /\ scan = Blank
    /\ ok = FALSE
    /\ ports = [front |-> PortMax, back |-> PortMax]
    /\ fps = 25
    /\ outcome = "none"

Ends(how) ==
    /\ pc' = "idle"
    /\ outcome' = how
    /\ UNCHANGED reply

NoReply ==
    /\ text' = <<>>
    /\ pos' = 0
    /\ chunk' = <<>>

\* Mutant of Fetch: the old answer stands while the new one is fetched.
FetchKeepsOk ==
    /\ pc = "idle"
    /\ pc' = "asking"
    /\ scan' = Blank
    /\ NoReply
    /\ UNCHANGED <<ok, agent, outcome>>

\* begin(), or a reconnection without settings: reset(), and a new socket.
Fetch ==
    /\ pc = "idle"
    /\ pc' = "asking"
    /\ scan' = Blank
    /\ ok' = FALSE
    /\ NoReply
    /\ UNCHANGED <<agent, outcome>>

\* The socket, the handshake, the request or one of the first frames fails.
Refused ==
    /\ pc = "asking"
    /\ Ends("refused")
    /\ UNCHANGED <<scan, ok, agent>>

\* The header of the third frame is read: the file begins.
Begins(t) ==
    /\ pc = "asking"
    /\ pc' = "text"
    /\ text' = t
    /\ UNCHANGED <<pos, chunk, scan, ok, agent, outcome>>

Wanted == IF Len(text) - pos < ChunkCap THEN Len(text) - pos ELSE ChunkCap

\* Mutant of ReadChunk: what was asked for is counted, not what came.
ReadChunkCountsWanted(n) ==
    /\ pc = "text" /\ chunk = <<>>
    /\ n \in 1..Wanted
    /\ chunk' = SubSeq(text, pos + 1, pos + n)
    /\ pos' = pos + Wanted
    /\ UNCHANGED <<pc, text, scan, ok, agent, outcome>>

\* read_body_chunk(): some of what is asked for has come.
ReadChunk(n) ==
    /\ pc = "text" /\ chunk = <<>>
    /\ n \in 1..Wanted
    /\ chunk' = SubSeq(text, pos + 1, pos + n)
    /\ pos' = pos + n
    /\ UNCHANGED <<pc, text, scan, ok, agent, outcome>>

FeedByte ==
    /\ pc = "text" /\ chunk # <<>>
    /\ scan' = Feed(scan, Head(chunk))
    /\ chunk' = Tail(chunk)
    /\ UNCHANGED <<pc, text, pos, ok, agent, outcome>>

\* read_body_chunk() gives nothing, or an error: what was fed stays.
Cut ==
    /\ pc = "text" /\ chunk = <<>> /\ pos < Len(text)
    /\ Ends("cut")
    /\ UNCHANGED <<scan, ok, agent>>

AllFed == pc = "text" /\ chunk = <<>> /\ pos = Len(text)

\* end_recv_body() is false: the tag of the frame is wrong.
BadTag ==
    /\ AllFed
    /\ scan' = Blank
    /\ Ends("bad_tag")
    /\ UNCHANGED <<ok, agent>>

\* finish(), then attachments, whose loss is no failure.
TextEnds ==
    /\ AllFed
    /\ scan' = Finish(scan)
    /\ pc' = "drain"
    /\ UNCHANGED <<reply, ok, agent, outcome>>

Complete == scan.done /\ scan.front # 0 /\ scan.back # 0

Incomplete ==
    /\ pc = "drain"
    /\ ~Complete
    /\ Ends("incomplete")
    /\ UNCHANGED <<scan, ok, agent>>

Accepted ==
    /\ pc = "drain"
    /\ Complete
    /\ ports' = [front |-> scan.front, back |-> scan.back]
    /\ fps' = IF scan.fps > 0 THEN scan.fps ELSE 25
    /\ ok' = TRUE
    /\ Ends("accepted")
    /\ UNCHANGED scan

Next ==
    \/ Fetch \/ Refused
    \/ \E t \in Texts : Begins(t)
    \/ \E n \in 1..ChunkCap : ReadChunk(n)
    \/ FeedByte \/ Cut \/ BadTag \/ TextEnds
    \/ Incomplete \/ Accepted

Spec == Init /\ [][Next]_vars

-----------------------------------------------------------------------------
(***************************************************************************)
(* What a text says, read as a whole.                                      *)
(***************************************************************************)

\* The elements of s at some positions, in their order.
Nth(positions, k) ==
    CHOOSE i \in positions : Cardinality({j \in positions : j < i}) = k - 1
Picked(s, positions) == [k \in 1..Cardinality(positions) |-> s[Nth(positions, k)]]

\* The positions that end its lines, and what the line before b says: all since the
\* line break before, without carriage returns.
Breaks(t) == {i \in 1..Len(t) : t[i] = "lf"} \cup {Len(t) + 1}
Line(t, b) ==
    Picked(t, {i \in 1..(b - 1) : t[i] # "cr" /\ \A j \in i..(b - 1) : t[j] # "lf"})
Words(t, b) == SkipSpaces(Line(t, b))

\* A line that is neither a comment nor one in brackets.
Says(l) == ~IsComment(l) /\ Head(l) \notin Headers \cup {"["}
HoldsEntry(l) == Says(l) /\ IsEntry(l)

\* The header that is the last before b.
Section(t, b) ==
    LET headers == {h \in Breaks(t) : h < b /\ IsHeader(Words(t, h))}
    IN  IF headers = {} THEN "none" ELSE Head(Words(t, Max(headers)))

\* The last of several values that counts.
LastOf(values) ==
    LET valid == {b \in DOMAIN values : values[b] # 0}
    IN  IF valid = {} THEN 0 ELSE values[Max(valid)]

Reading(t) ==
    LET agents == {b \in Breaks(t) : Section(t, b) = "[agents]"}
        own == {b \in Breaks(t) : Section(t, b) = "[own]" /\ HoldsEntry(Words(t, b))}
    IN  [front |-> LastOf([b \in agents |-> Port(Words(t, b), "frontend_address=")]),
         back |-> LastOf([b \in agents |-> Port(Words(t, b), "backend_address=")]),
         fps |-> LastOf([b \in agents |-> Fps(Words(t, b))]),
         entries |-> FirstCells(Picked([b \in own |-> Entry(Words(t, b))], own), MaxEntries)]

\* A text whose lines fit the buffer; a comment may be one longer.
Scannable(t) ==
    \A b \in Breaks(t) :
        \/ Len(Line(t, b)) <= Cap
        \/ Len(Line(t, b)) = Cap + 1 /\ IsComment(Words(t, b))

-----------------------------------------------------------------------------

\* Between calls the answers of setting_int() come from one text, all of it, and its
\* tag was good, however it arrived and whatever calls failed before; only a call
\* that was cut short leaves something else.
AnswersAreTheText ==
    pc = "idle" /\ outcome # "cut" /\ scan # Blank =>
        /\ outcome \in {"incomplete", "accepted"}
        /\ Scannable(text) =>
              /\ [front |-> scan.front, back |-> scan.back, fps |-> scan.fps,
                  entries |-> scan.entries] = Reading(text)
              /\ scan.done = (scan.front # 0 /\ scan.back # 0 /\ scan.fps # 0)

\* The ports that are dialled are both of the text that was accepted last, and a
\* later call that fails takes the permission to dial them with it.
PortsAgree ==
    ok => /\ pc = "idle" /\ outcome = "accepted"
          /\ scan.done
          /\ ports = [front |-> scan.front, back |-> scan.back]
          /\ {ports.front, ports.back} \subseteq 1..PortMax

\* A list, whose end may be missing, and its items: what a comma or a bracket ends.
Separators(v) == {i \in 1..Len(v) : v[i] \in {"[", ",", "]"}}
IsList(v) ==
    /\ v # <<>> /\ Head(v) = "["
    /\ \A i \in 2..Len(v) : v[i] # "[" /\ (v[i] = "]" => i = Len(v))
Items(v) == Cardinality(Separators(v)) - 1
Item(v, n) ==
    TrimRight(SkipSpaces(SubSeq(v, Nth(Separators(v), n) + 1, Nth(Separators(v), n + 1) - 1)))
IsInt(item) == Integer(item).any /\ Integer(item).rest = <<>> /\ Spelled(item) \in IntRange

\* setting_int_array() gives the integers of a list in their order, none left out and
\* each with the value that it spells; only where the slot cut off the end of the list
\* may something else follow, what is left of the item that was cut through.
ArraysAreLists ==
    pc = "idle" => \A n \in 1..Len(scan.entries) :
        LET key == scan.entries[n].key
            v == RawValue(scan, key)
            ints == IntArray(scan, key, MaxInts)
            spelled == [i \in 1..Items(v) |-> Spelled(Item(v, i))]
        IN  IsList(v) /\ (\A i \in 1..Items(v) : IsInt(Item(v, i)))
            => /\ FirstCells(ints, Items(v)) = FirstCells(spelled, MaxInts)
               /\ Last(v) = "]" => Len(ints) <= Items(v)

=============================================================================
