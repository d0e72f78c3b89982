---------------------------- MODULE MCSubStream ----------------------------
(***************************************************************************)
(* SubStream for TLC: the kinds of messages a MADS broker forwards.        *)
(***************************************************************************)
EXTENDS SubStream

Part1(l, i) == [len |-> l, is |-> i]

\* publish(JsonDocument&), with a topic as long as a header or a shorter one.
Json == [name |-> "json", parts |->
    <<Part1("short", "other"), Part1("twelve", "mads"), Part1("long", "text")>>]
Small == [name |-> "small", parts |->
    <<Part1("twelve", "other"), Part1("twelve", "mads"), Part1("twelve", "text")>>]

\* A payload longer than the sketch's buffer; MsgPack or compressed JSON.
TooLong == [name |-> "too_long", parts |->
    <<Part1("short", "other"), Part1("twelve", "mads"), Part1("huge", "text")>>]
Packed == [name |-> "packed", parts |->
    <<Part1("short", "other"), Part1("twelve", "other"), Part1("long", "other")>>]

\* One frame; a MADS header and no payload.
Bare == [name |-> "bare", parts |-> <<Part1("short", "other")>>]
Headless == [name |-> "headless", parts |->
    <<Part1("short", "other"), Part1("twelve", "mads")>>]

\* This library's publish(blob); the 2-part Snappy form; a topic that is too long.
Blob == [name |-> "blob", parts |->
    <<Part1("short", "other"), Part1("long", "text"), Part1("huge", "other")>>]
Legacy == [name |-> "legacy", parts |->
    <<Part1("short", "other"), Part1("long", "other")>>]
LongTopic == [name |-> "long_topic", parts |->
    <<Part1("long", "other"), Part1("twelve", "mads"), Part1("short", "text")>>]

\* A blob under MsgPack, [topic][header][meta][bytes], with metadata as short as a
\* topic or longer; a message with a frame behind its payload.
PackedBlob == [name |-> "packed_blob", parts |->
    <<Part1("short", "other"), Part1("twelve", "other"), Part1("short", "other"),
      Part1("huge", "other")>>]
PackedLong == [name |-> "packed_long", parts |->
    <<Part1("short", "other"), Part1("twelve", "other"), Part1("long", "other"),
      Part1("huge", "other")>>]
Extra == [name |-> "extra", parts |->
    <<Part1("short", "other"), Part1("twelve", "mads"), Part1("short", "text"),
      Part1("long", "other")>>]

AllMessages ==
    {Json, Small, TooLong, Packed, Bare, Headless, Blob, Legacy, LongTopic,
     PackedBlob, PackedLong, Extra}
JsonAndBlobs == {Json, Blob}
=============================================================================
