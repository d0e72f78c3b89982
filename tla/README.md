# Verification of arduino_mads

TLA+ models, TLC runs and TLAPS proofs for the MADS agent library for the
Arduino UNO R4 WiFi. File names without a directory are those of
`src/mads/`, `README.md`, `DEVELOPER.md` and `CURVE.md` of the repository.

The library lets a sketch publish to, and receive from, a MADS broker over
ZeroMQ's wire protocol. It is single-threaded: everything happens inside the
calls the sketch makes from `loop()`. What makes it hard is not threads but
time and the outside: a call blocks, and while it does the access point, the
broker and three TCP sockets come and go; the WiFi module goes on reporting a
dead connection as alive; bytes come in pieces; and each of dozens of early
returns leaves sockets, timestamps, session keys, half-read frames and half-fed
scanners behind for the next call to find.

## 1. Inventory

| component | state | operations | what is hard | what makes it correct |
|---|---|---|---|---|
| `Agent`: connection management (`mads_agent.cpp/.hpp`) | `_pub/_sub_transport` and sessions, `_last_*` timestamps, `_*_attempted`, `_pub_assumed_up`, two backoff intervals, `_settings_ok`, `_want_sub`, the topic table, `_hostname`, the publish buffer | `begin`, `publish` (3 overloads), `poll`, `connect_sub`, `subscribe`, `drain_pub`, `ensure_wifi`, `ensure_pub_link`, `ensure_sub_link`, `fetch_settings` | a cached "link is up"; failures half way through a message; publish and poll share the WiFi clock and one retry interval; three timers; a module that does not see a dead peer | bounded black hole, no write to a socket closed by the agent, every topic on every new link, an old address in one message at most, spaced joins, recovery of both links, every call returns |
| `Agent`: framing of `poll()` | position in the SUB stream | header / body / skip calls, fifteen early returns | an early return in the middle of a frame or message; a read that times out there | messages whole, in order and once; one that is not wanted is dropped alone; `poll()` returns |
| `Agent`: settings, `TomlScan` | line buffer, two section flags, ports, frame rate, entries; `_settings_ok`, `_frontend_port`, `_backend_port` | `feed`, `finish`, `reset`, `fetch_settings`, `setting_int`, `setting_int_array` | bytes arrive in pieces; lines longer than the buffer; the exchange fails at any byte and is repeated with another file | what is kept is what one text says as a whole, however it came; the ports dialled are of one accepted reply |
| `WifiTransport`, `Transport` | one `WiFiClient` | connect, connected, close, write, read, available | `connected()` and `close()` depend on unread bytes; `read()` may return short | as part of the agent |
| `ZmtpSession` (`zmtp_session.*`) | mechanism, CURVE state, pending read | greeting, READY, `send_frame`, `send_frames3`, header/body/skip | the seam between batch, one-shot and streamed sends; a header whose body nobody reads | whole frames or a closed socket |
| CURVE client (`curve.*`) | session key, two nonce counters, `_ready`; file-static transient secrets; `g_err` | HELLO/WELCOME/INITIATE/READY, sealing, opening, failing | nonces counted before or after the write depending on the path; fifteen failure exits; a pending nonce that must not be committed early | no nonce twice, no secret of a handshake left, frames of this connection in order and once, the recorded reason is the right one |
| secretbox (`crypto/nacl_box.*`, `crypto/salsa20.*`) | block number and place in the block, the cached half of block 0, `_pos`, the tag so far | seal at once; `init`, `absorb`, `tag`, `restart`, `encrypt`; `init`, `update`, `finish` | two passes that cut the message at different places; block 0 is split; reads of any size | both passes make the same bytes, no byte of key stream twice, the reader gets the message |
| Z85 | none | decode 40 characters | a group of 5 characters above 2^32 | inverse of encoding on its range |
| Entropy | initialised and healthy flags | `entropy_init` with one health check, `entropy_fill` | the first answer is kept: the check runs once | a source that failed its check is never used |
| X25519, Monocypher | - | - | cipher arithmetic | test vectors |
| sketches, hardware diagnostics, desktop tests | - | - | - | read as documentation of use |

Interactions: the sketch calls the agent; the agent drives one `ZmtpSession`
per socket and closes the `Transport` under it when a session call fails; the
session calls the CURVE client when a key is set, which seals and opens with the
secretbox; the settings reply is fed to `TomlScan` as it arrives; handshake
failures come back to the agent through `curve_last_error()`, which decides
whether the retry interval grows.

## 2. Modules

| module | models | built from |
|---|---|---|
| `Network` | the radio, DHCP, broker and the three sockets (external), and `WifiTransport` (translated) | - |
| `MadsAgent` | all of connection management; properties, fairness | extends `Network` |
| `CurveSession` | a CURVE-armed `ZmtpSession` and its socket; properties | instantiates `SecureChannel` |
| `SecureChannel` | what a session promises its receiving calls | - |
| `SubStream` | `poll()` over the bytes of one SUB connection | instantiates `MessageQueue` |
| `MessageQueue` | what `poll()` promises a sketch | - |
| `Settings` | `TomlScan`, and `fetch_settings()` feeding it | - |
| `SecretboxStream` | one encrypted frame, from its seal to its reader | - |
| `MCMadsAgent`, `MCSubStream`, `MCSettings`, `MCSecretboxStream` | values for TLC | the module each is named for |
| `MadsAgent_proofs`, `CurveSession_proofs`, `SubStream_proofs`, `Settings_proofs`, `SecretboxStream_proofs` | theorems | the module each is named for, `TLAPS` |
| `Settings_words` | lemmas on the words of a line and on the recursive operators of `Settings` | `Settings`, `WellOrder` |
| `WellOrder` | induction and recursion on the naturals and by a measure, as lemmas | the library's theorems on finite sets |

The models meet at the calls of the code. `MadsAgent` takes a message (`Receive`), a
settings reply (`SettingsArrive`, `SettingsUnusable`) and a handshake in one step each;
`SubStream`, `Settings` and `CurveSession` are what happens inside those steps, and
`SecretboxStream` is the inside of a frame that `CurveSession` sends or reads in
one. They are not put together in one state space: what they share is small (a
socket that is closed or not, a flag, a return value) and is left open, or chosen
freely, on both sides.

### MadsAgent

A call is a walk through the values of `pc`, one action for each stretch of code
between two blocking waits. The walk of a reconnection is
`wifi -> joining -> dhcp -> [dial_settings -> greet_settings -> exchange ->]
dial -> greet -> [replay ->] send or recv`, and `op` says for which call it is
made. The environment and the clock move at the waits only; nothing moves
between `ensure_pub_link()` and the first write except that the peer may go.
A handshake or request is over in two steps: the broker's last word arrives
(`BrokerAnswers`, kept in `answer`), and the call reads it, up to a timeout later. In
between the peer may go, and the answer is read all the same: `ensure_pub_link()` then
stamps `_last_pub_connect` on a link that is already dead.

* `Publish(kind)` has three cases, as the code: ready, held back by the rate
  limit, reconnecting. Which overload it is decides whether the envelope is
  filled first and whether a failed send clears `_pub_assumed_up`.
* `Poll`, `ConnectSub`, `Subscribe(t)`, `DrainPub`, `Begin`: one action per path.
  `subscribe()` remembers a topic first and reports whether it could write it; a
  topic it could not write to a live link is kept in the history variable `unsent`.
* `WifiUp`, `WifiHeldBack`, `JoinStarts`, `JoinSucceeds`, `JoinTimesOut`,
  `AddressKnown`, `AddressTimesOut`: the exits of `ensure_wifi()`.
* `DialSettings` ... `SettingsUnusable`: `fetch_settings()`. `Dial`, `Greet*`,
  `Replay*`: opening a link. `Rejected`, `HandshakeFails`: the failures of any
  handshake, of which only `CurveError::rejected` grows the interval. No setter keeps
  `reconnect_interval` below the two maxima, and neither does the model (`Backoffs`).

Time: a timestamp is kept as its age. An age stops growing at the largest value
the code compares it with, so the state space is finite and no comparison is
changed; what is lost is the wrap of `millis()` after 49 days (listed as a
hazard). Two ages are not in the code and are read by properties only: `silent`,
since the PUB link stopped being live, and `join`, since `WiFi.begin()` was last
entered, whoever's clock the code used for it.

Sockets: `live`, `closed`, and three ways of being dead. `silent` is the one
`DEVELOPER.md:323` is about: the peer is gone, `connected()` says 1 and writes
succeed. `broken` is a loss the module knows of; `connected()` still answers 1
while unread bytes remain (`avail`), as the Arduino core does, and `close()`
inherits that. `torn` is a socket on which a write left half a frame: the broker can
make nothing of what it reads, but goes on sending. A write that comes up short may
also have left nothing (`AfterShortWrite`), and then the link is as it was; all
callers but `subscribe()` close it in either case.

Left out: payloads, JSON, frame contents, `agent_id`, and logging.

### CurveSession

Driven by the calls the agent makes, over up to `MaxConns` connections. Keys are
numbers of connections, 0 when wiped; the frame sealed with nonce n under key k
is the record [key, nonce]. A send is the batch of `curve_send3`, or frame by
frame with `curve_send`, one-shot or streamed by its length; every write may
come up short after any number of frames began to leave (`BatchCut`,
`FrameCut`), and the fallback of `send_frames3()` runs on the same socket, as in
the code. The receive path holds the nonce of the frame being read in `rx` and
commits it in `EndBody` only when the tag is good. The stream between broker and
board may repeat, overtake or damage a frame: TCP does not do that, but nonce and
tag are there for exactly this, so they are checked against it. After a refused
header the body stays on the stream and what is read next is garbage
(`synced`), because the code returns without skipping it. That garbage is refused
is the cipher's doing and abstract here: the model shows what the session does
with frames, not that noise never opens. `Nothing` and `Wiped` are of the session
and of `CurveState`; the subkeys that the frame coders (`_rx`, `g_seal`) keep of the
last frame are not in the model, and `wipe_mechanism()` does not touch them.

`SecureChannel` has a connection, the number of frames the broker sealed on it,
and the numbers taken. The mapping is `conns`, `sealed`, `accepted`.

### SubStream

The stream is the sequence of messages not yet taken, the number of frames read
of the first (`at`), and whether the next byte is inside a frame (`rest`). A
message has any number of frames. A
frame is described by what `poll()` compares its length with (12, `topic_cap`,
`payload_cap`) and by what its bytes mean, to `poll()` and to somebody who takes
them for a frame header. `pc` is the frame `poll()` wants; each way out of each
of its stages is an action (`TopicUnusable`, `TopicTaken`,
`HeaderOfOtherLength`, ...), and `Late` is the read timeout at any of them. The
NULL mechanism is modelled; under CURVE a loss of place is `CurveSession`'s
`synced`.

A body that is left on the stream is read as a header by the next call. JSON text
is deterministic there: `{"` is a LARGE header of a frame of some 2^61 bytes, so
the topic is "too long" and `skip_frame_body()` swallows what arrives
(`SkipsText`, `Swallow`, `SwallowEnds`). Other bytes give any length: `TopicNoise`
and `HeaderNoise` take off any part of what is on the stream.

`MessageQueue` is what the comment of `poll()` promises: on an undisturbed link
every message is delivered or dropped, alone and in order. Its `queue` is `Pending`:
after three frames the fate of a message is settled, and what it has left over is
read by the calls that follow, as topics. The history variable
`disturbed` says that a message outside `Tolerated` was sent or a read timed out
inside a message. `Tolerated` looks at every frame: the topic has to fit, the second
has to have 12 bytes, and so has whatever follows a frame that a later call may take
for a topic (from `Resumes` on). This library's blob, a long topic and the four-frame
blob under MsgPack with short metadata are outside it. From there the queue may lose messages and topics may be
noise, but a payload handed over is still a genuine one, and none comes twice or out of
order. A new link (`link`) starts afresh.

### Settings

A text is a sequence of cells: a byte, or a run of bytes the scanner takes as one
word (a section header, a key with its `=`). The scanner is `Feed` and the
operators under it, one per function of `toml_scan.cpp`; the exchange is the
actions from `Fetch` to `Accepted`, one per exit of `fetch_settings()` with what
it does to the scanner (left half fed by `Cut`, reset by `BadTag`), to
`_settings_ok` and to the ports. Numbers have the width of the code: a port is
accumulated in 32 bits (`Unsigned`), a rate and the items of an array in an `int`
(`Signed`), whose overflow is undefined in C++: `StrictOverflow` says whether the
compiler counts on it not to happen and tests a rate for `# 0` where the code says
`> 0`; without that the sum wraps and the test is as written. `Line`, `Section`, `Reading` are the
reference: they read the text as a whole, by the positions of its line breaks, and
share with the scanner only the operators about the inside of a line. For arrays it
is `Item`, what is between two separators of a list, and `Spelled`, the number that
is written there, of any size.

### SecretboxStream

A byte of key stream is its number, so "encrypted" is a pair of a place in the
message and a number. The generator is [`index`, `at`, `pos`]: `_block_index`,
`_block_pos`, and `_pos` of `SecretboxSeal` or `SecretboxOpen`. `Turn` and
`OpenTurn` are one turn of the loops of `xor_next()`; `Portion` is the piece a
call asks for, which differs between the passes. The tag is the sequence it was
computed over, and equality of tags is equality of those.

## 3. Runs

| run | what it asks | bounds | states |
|---|---|---|---|
| `publish` | type invariant; black hole bounded; no write to a closed link; ports known; an old address in one message at most; joins spaced | json and raw publish; retry interval 3, WiFi backoff up to 5 in a clock of width 8, so that doubling 5 wraps, and a curve maximum of 1, smaller than the interval; every wait times out in its second tick, sooner than the retry interval | 1.2 M |
| `both` | a link that is set up carries every topic, but for those whose own `subscribe()` failed on it; both links together join as rarely as one | raw publish, poll, `connect_sub`, subscribe; two topics (symmetric) for one slot, the watchdog on | 2.1 M |
| `publish_live` | every call returns; the PUB link recovers | json and blob publish | 299 k |
| `subscribe_live` | the SUB link recovers with every topic it has room for, unless it is torn and messages keep it alive | poll and subscribe; two topics for one slot, so that one is refused; watchdog on; the curve backoff stays at the retry interval (`publish_live` has it grow) | 243 k |
| `curve_send` | type invariant, fresh nonces, nothing left after a handshake, the reason recorded is current | three connections, three sends of any kind, every exit and every short write | 614 k |
| `curve_receive` | frames accepted in order and once; damage does not make intact frames stale; the session implements `SecureChannel` | two connections, two frames, each repeated, overtaken or damaged | 19 k |
| `sub_stream` | type invariant; `poll()` implements `MessageQueue`; on an undisturbed link every message is taken in the end | twelve kinds of messages of one to four frames, two on the stream, late bytes, new links | 243 k |
| `settings` | type invariant; the answers are the text; the ports are of one reply; arrays are the lists they are written as | any three of eleven lines, and whole files; pieces of one or two cells; a line buffer of 9 cells with lines of up to 11; values of 7 cells, which cut a list in its last number; keys with and without spaces, and one too long; an `int` up to 31, so that 99 is negative and 199 wraps into the port range of 20 | 1.2 M |
| `secretbox` | type invariant; the tag covers the wire; pads are used once; what is opened is what was sealed | blocks of 4, buffers of 4 and 6, messages of 1 to 13, one-shot up to 6 | 4 k |
| `blob_write_after_close`, `curve_fallback`, `poll_blocks` | see Findings | small | violation |

Why the bounds are enough to be interesting: intervals of two and three ticks let a
timeout fall before, on and after a refresh or rate limit; the refresh timer, the
probe interval and the retry interval differ from one another; the topic table
has room for the first topic and refuses the second; three connections let a key and its nonces be left
behind by a connection, met again by the next, and left again; three sends let a
cut call sit between two whole ones. Two messages on a stream let one be
disturbed and the next be read out of step, while more are published behind what
is read; the twelve kinds meet every return of `poll()`, the ones inside a message
of four frames included. Three lines put a section before, between and
after the lines that belong to it, and the files come in both orders of the two
sections. Lengths around one, one and a half and three blocks meet every
combination of a cached half, a block boundary and the end of a buffer. The
unbounded results are the theorems of section 4.

The runs of `CurveSession` do not check deadlock: the model stops when its bounds on
connections and calls are used up. Neither does `poll_blocks`. The others check
it: a sketch can always call again.

Each property is backed by a mutant, a plausible bug in one mapped definition
that makes TLC find it violated (for example a refresh that measures from the
last probe, a replay that skips the first topic, a nonce counted after the
write, a payload too long that is not skipped, a restart that forgets the
generator). The mutants stand in front of the definitions they change.

### Fairness

* `loop()` of every sketch in `examples/` calls `publish()` and `poll()` on every
  pass, but calls other things too, during which the action is not enabled:
  strong fairness of `Publish` and `Poll` in `MadsAgent`.
* Every blocking wait has a timeout (`millis() - start > timeout_ms`), so a call
  in progress moves on, by an answer or by its timeout: weak fairness of
  `Proceed \/ BrokerAnswers`, and strong fairness of `Tick`, since time passes during
  and between calls.
* An access point in range lets the board in and its DHCP server answers:
  weak fairness of `Associates` and `DhcpAnswers`. `CallsReturn` does not need
  these; `PubRecovers` and `SubRecovers` do.
* In `SubStream`, weak fairness of `Poll` (a byte that waits is met by a `poll()`
  again and again) and of `Read` (a call in progress goes on reading). Publishers,
  late bytes and the loss of a link are not fair.
* Nothing is assumed of the broker or of connections except in the premise of the
  recovery properties, `NetworkSettles`: from some point on the access point and
  the broker stay up, the key is accepted, and no connection, write or answer on a live
  connection fails (`Fault`). Before that point anything may have happened, a silent
  loss included.

### Findings

1. `blob_write_after_close`. The blob overload closes the socket after a failed
   send but leaves `_pub_assumed_up` set, so until the next probe is due
   `publish()` writes to a closed socket instead of reconnecting.
2. `curve_fallback`. `send_frames3()` cannot tell a batch that does not fit from
   one whose write came up short, and sends three more frames after the latter.
3. `poll_blocks`. A second frame that is not 12 bytes is dropped without its body
   (`mads_agent.cpp:534`), and this library's own blob publish sends such frames. The
   next `poll()` takes the JSON text for a frame of some 2^61 bytes and skips it:
   every message of every topic that arrives is swallowed, and the call does not
   return until nothing comes for `timeout_ms`. The documents say that `poll()`
   never blocks and that such frames are dropped.

### Observations without a run

Met while modelling; each follows from one place of the code, so that a property
would only restate it, or is the exception a property names.

* The envelope is filled before the reconnect that learns the address
  (`mads_agent.cpp:437`): the first message after it carries the old one, or none.
  `StaleAddressOnce` says that no other message does.
* `subscribe()` returns `false` for a third reason besides the two of
  `DEVELOPER.md:424`: its write to a link that is up came up short
  (`mads_agent.cpp:402`). If nothing was written the link goes on without that topic,
  until `subscribe()` is called again or the link is rebuilt, which nothing asks for.
  `README.md:126` tells sketches that `false` is not an error. It is the exception of
  `SubscriptionsReplayed` (`unsent`).
* If half of it was written, the broker reads whatever the board sends next as the
  rest of it, and messages for the topics of before go on renewing `_last_sub_rx`
  (`mads_agent.cpp:560`), so that the silence watchdog does not rebuild the link. It
  is the exception of `SubRecovers`.
* An answer of the broker is read, and `_last_pub_connect` stamped, also if its sender
  is gone by then (`mads_agent.cpp:180-186`). A silent loss can so be one handshake wait
  older than the refresh interval, which is the bound of `BlackHoleBounded`.
* `close()` does not stop a client that `connected()` reports down
  (`wifi_transport.hpp:20`); every exit of `fetch_settings()` calls it, but whether the
  module's socket is free then is up to the WiFi library.
* With `reconnect_interval` set above a maximum (no setter compares them) the interval
  falls to the maximum after the first failure: `set_reconnect_interval(60000)` with the
  default maximum of 30 s joins every 30 s. `JoinsAreSpaced` says the smaller of the two.
* The four-frame blob under MsgPack (`mads_agent.hpp:123`), which `mads_agent.hpp:142`
  says is dropped, is not dropped alone: its metadata is taken for a topic if it fits, its
  bytes for a header of other length, and the call after that starts inside them.
  It is the same line as finding 3 (`mads_agent.cpp:534`).
* With the watchdog at its default of 0 a SUB link whose loss the module does not
  notice never comes back (`mads_agent.cpp:193`), against "both links self-heal".
  `SubRecovers` is checked with the watchdog on.
* A topic of more than 23 characters is stored cut and compared whole
  (`mads_agent.cpp:389`), so it takes another slot each time and is replayed cut. It is
  the premise of `SubscriptionsAreReplayed`.
* A settings reply that is cut short leaves the scanner half fed
  (`mads_agent.cpp:319`), while one with a wrong tag resets it: `setting_int()` then
  answers from text that was never authenticated. `mads_agent.hpp:361` limits the
  answers to after a successful `begin()`, but a later exchange fails just so.
  `AnswersAreTheText` excepts this exit by name.
* A line longer than the buffer continues as a line of its own, without the byte
  that did not fit (`toml_scan.cpp:30`): the end of a long comment may open a section.
  `Scannable` is where the reference and the scanner agree: lines that fit, and
  comments one longer.
* A value is cut at its slot's end, in the middle of a number if it is there
  (`toml_scan.cpp:104`), and `setting_int_array()` and `setting_int()` report the cut
  number, where `toml_scan.hpp:21` says "stored verbatim". `ArraysAreLists` speaks of the
  items in front of the cut.
* A number of more than nine digits may overflow the `int` it is accumulated in
  (`toml_scan.cpp:166`, `195`, `229`), and a port its `uint32_t` (`toml_scan.cpp:141`),
  before anything is tested: a wrapped port that is in range is accepted.
* `done()` waits for `timecode_fps` (`toml_scan.cpp:80`), so the default of 25 in
  `fetch_settings()` is never used and a file without the key is refused.
* Ports are not asked for again when they no longer answer (`mads_agent.cpp:207`).

## 4. Proofs

All proved for every value of the constants, that is for all sets of calls,
topics and addresses, all intervals in any order of size, and all widths of the
clock; for the session, any number of
connections, calls and frames; for the stream, any messages of any number of frames
and any number of them; for settings, any texts over the cells, any sizes of
the buffers and any width of an `int`; for the secretbox, any size of block, buffers and message. Assumed
are the named `ASSUME`s of the modules (TLC evaluates them in every run) and,
where said, a premise of the theorem.

| theorem | property | along |
|---|---|---|
| `TypeCorrect` | `TypeOK` of `MadsAgent` | inductive by itself; `DoubledInRange` is what keeps the backoffs in range when the doubling wraps |
| `BlackHoleIsBounded` | `BlackHoleBounded` | `CallShape`, `PubAge` |
| `JsonReconnectsFirst` | `NoWriteToClosedLink`, if no blobs are published | `PubAssumption` |
| `SubscriptionsAreReplayed` | `SubscriptionsReplayed`, if topics fit their slot (with the exception the property names) | `SubReplay` |
| `AddressIsStaleOnce` | `StaleAddressOnce` | inductive with `TypeOK` |
| `PortsAreKnown` | `PortsKnown` | inductive by itself |
| `JoinsSpaced` | `JoinsAreSpaced` | `JoinClock`: the one clock shows the time since the last `WiFi.begin()`, whoever called it; `TypeOK`: the backoff is never below the smaller of interval and maximum |
| `SessionTypeCorrect` | `TypeOK` of `CurveSession` | `Flags`, `KeyShape`, `Rest` |
| `NoncesAreFresh` | `NoncesGrow` | `NonceShape` |
| `FramesAreAcceptedInOrder` | `AcceptedInOrder` | `ReadShape` |
| `DamageDoesNotRatchet` | `FreshFramePasses` | `ReadShape` |
| `NothingIsLeftBehind` | `CleanBetweenCalls` | `Clean` |
| `RejectionIsCurrent` | `RejectedIsCurrent` | `Clean` |
| `SessionImplementsTheChannel` | `KeepsTheChannel` (refinement) | `ReadShape`, `SealedUpTo` |
| `StreamTypeCorrect` | `TypeOK` of `SubStream` | with `AtPayload` |
| `PollImplementsTheQueue` | `KeepsTheQueue` (refinement) | `AtPayload`, `InStep`; `EndOfEnd`: what is pending after any read is an end of what was pending before |
| `StaysInStepIfTolerated` | the good case of finding 3: every message tolerated, none late | `InStep` |
| `BlobsAreWhole` | the good case of finding 2, `SentMeansWhole` if only blobs are published | `TornIsClosed` |
| `PortsAreOfOneReply` | `PortsAgree` | `Shape` of the scanner |
| `SettingsTypeCorrect` | `TypeOK` of `Settings` | `TypeInv`: nothing of an earlier text is left when a reply is asked for |
| `ArraysHoldTheLists` | `ArraysAreLists` | `TypeInv`; `IntsOfList`, by induction on the items that are left; `SignedIs`: what an `int` holds of a number in its range is that number |
| `AnswersAreOfTheText` | `AnswersAreTheText` | `AnswersInv`, with the closed form `Told` |
| `FrameTypeCorrect`, `TagCovers`, `PadsOnce`, `OpenedInOrder` | the four of `SecretboxStream` | `Made`, `Sending`, `Reading` |

The premises are not for convenience: findings 1, 2 and 3 and the observations on
long topics and on four-frame blobs are what happens without them.

Why strengthenings are needed. `BlackHoleBounded` speaks of the age of the
loss, but the code compares the age of the connection; `PubAge` says the first is
larger than the second by at most one wait: a link dies after it was opened, but the
stamp is taken when the handshake returns, and its answer may be of a peer that has
gone since. In the window between `Connect` and the stamp the age of the loss is bounded by the
age of the wait, once there is an answer, and `CallShape` places that window. `NoWriteToClosedLink` is about
one `pc`; `PubAssumption` says that `_pub_assumed_up` implies an open socket and
is false on the way through a reconnection. `SubscriptionsReplayed` needs the
stages in which the link is being set up excepted, and the silent socket, on
which a replay is lost, told apart from the live one, and `unsent` emptied with every new
socket. `NoncesGrow` says nothing of the counter;
`NonceShape` says it is above every nonce used under the current key, and that
keys of earlier connections are gone. `AcceptedInOrder` needs that the committed
nonce is the last accepted number, and `IntactFrames` that a frame that opens
carries the nonce it was sealed with. The channel needs in addition that what is
on the way or in the hands of a call was sealed on this connection.

`KeepsTheQueue` is a step simulation: every action is a step of the queue or none.
`InStep` says where `poll()` is while nothing has disturbed the link: at a frame,
with only tolerated messages on the stream, the message whose topic is held at the
head of it; and, between calls, at a first frame or at any frame behind those that
settled what becomes of a message, which the next call reads as a topic and drops, with
what `Tolerated` says of the frame behind it. `AtPayload`
holds on a disturbed link too: whoever reads a payload has just read a MADS header in
front of it, which is why noise is never handed over as a payload.

`TagCoversTheWire` compares two passes that are never in the same state. `Made`
gives both the same closed form, `Run(n)`: byte i of the message with byte
`Half + i` of the key stream; that every turn of the loops continues it, across the
cached half and every block boundary, is the invariant of the generator
(`(index - 1) * Block + at = Half + pos` once the cached half is used up) and the
arithmetic of the module. `PadsAreUsedOnce` and `OpenedIsSealed` follow from it.

`AnswersAreTheText` speaks of the end of a call only. `AnswersInv` says for every
moment of it what the `n` cells fed so far have told: `Told(t, n, line)` is the scanner
whose section flags are those of the last header among the lines that ended, whose
ports and rate are the last valid ones of `[agents]`, and whose entries are the first
`MaxEntries` of `[own]`; `line` is what the present line holds, `Partial(t, n)`. That
the next cell takes `Told(t, n, ...)` to `Told(t, n + 1, ...)` is the proof; the parts
of it are that a line break adds one position to `Breaks`, after all others, so the
last of the valid values is the new one or the old one (`LastMore`), and the entries
picked so far are followed by at most one (`PickedMore`, `FirstMore`). The case
that needs care is a comment one cell longer than the buffer: it ends the line early,
the cell is lost, and what is held is empty until the line break, where the scanner
takes an empty line and the reference a comment, and neither changes anything
(`Overlong`). A line longer still is outside `Scannable`.

`ArraysAreLists` reads the value that is in the slot, whole or cut. A list begins with
a bracket and has none inside (of `[1[2,3]` the code gives 1 alone, while the items
are 1, 2 and 3); the closing one may be missing. What stands between two separators
has to be read exactly, as long as an `int` holds it, and only behind the last
separator of a list without its end may there be another number, the first digits
of the one that was cut through. That a wrapped sum is the sum itself within the range of an
`int` is proved from the division theorem (`RemainderNegative` for the negative half).

Induction over data. `Number` and `Ints` are recursive functions on sequences of any
length, and the library states induction with an operator as a parameter, which the
installed provers cannot instantiate. `WellOrder` gets it in another form: the
inclusion of finite sets is well founded (`FS_StrictSubsetOrderingWellFounded`, with
`WFMin` about sets, not operators), so a set of naturals has a least element, and from that
follow induction with a set in place of the predicate (`InductionOnNat`,
`InductionByMeasure`) and the existence of the functions that recursive definitions
choose (`RecursionOnNat`, `RecursionByMeasure`). In `Settings_words` they show that `Number` is
defined and natural for every sequence of digits, and that `Ints` gives the first
integer and then those of the rest.

### Model-checked only

`CallsReturn`, `PubRecovers`, `SubRecovers`, `DeliversTheQueue`: liveness under
fairness is out of the prover's reach. Every other property of the passing runs is
also a theorem. The three violated properties have their good cases as
theorems: `JsonReconnectsFirst`, `BlobsAreWhole`, `StaysInStepIfTolerated`.

## 5. Not modelled

* Cipher arithmetic: Salsa20, HSalsa20, Poly1305, X25519 and Monocypher, with
  `box_beforenm()`; out of a model checker's reach and covered by test vectors.
  `secretbox_open()` is used by the handshake only, whose boxes `CurveSession`
  takes as whole.
* Z85: a loop without state over eight groups with one comparison.
* Entropy: registers of the TRNG and one check at start-up; its failure is an
  exit of the handshake in `CurveSession`.
* The bytes of the greeting, of READY and of the CURVE commands: each is sent and
  checked as a whole, and the failures are exits of the handshake.
* The wrap of `millis()`; the socket table of the WiFi module; WiFi firmware.
* The sketches, the hardware diagnostics, the desktop tests and stubs, and the
  wording of diagnostics.
