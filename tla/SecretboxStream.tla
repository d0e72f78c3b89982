-------------------------- MODULE SecretboxStream ---------------------------
(***************************************************************************)
(* One encrypted frame, as curve_send() (src/mads/curve.cpp:347) makes it  *)
(* and curve_recv_header() and the body calls after it read it: the        *)
(* secretbox of crypto/nacl_box.cpp over the generator of                  *)
(* crypto/salsa20.cpp.                                                     *)
(*                                                                         *)
(* A byte of the keystream is its number.  Bytes 0 .. Half - 1 are the key *)
(* of the tag, and the message (one byte of flags, then the data) begins   *)
(* at byte Half.  A sealed byte is the place of the plain byte and the     *)
(* keystream byte it was combined with; the tag is what was authenticated. *)
(***************************************************************************)
EXTENDS Integers, SequencesExt

CONSTANTS
    Half,           \* 32: block 0 is split here
    Scratch,        \* the buffer of absorb()
    Chunk,          \* the writes of the second pass
    OneShotMax,     \* longest data sealed in one piece
    MaxData         \* longest data

ASSUME HalfAssumption == Half \in Nat \ {0}
ASSUME BuffersAssumption == Scratch \in Nat \ {0} /\ Chunk \in Nat \ {0}
ASSUME DataAssumption == OneShotMax \in Nat /\ MaxData \in Nat

Block == 2 * Half

VARIABLES
    stage,          \* of the sender: "idle", "absorb", "encrypt", "sent", "broken"
    total,          \* length of the message
    seal,           \* g_seal: its generator and _pos
    done,           \* bytes of the message that passed in this pass
    todo,           \* bytes left of this call of xor_next()
    buffer,         \* what this call made
    covered,        \* what was fed to the tag
    tag,            \* in the prologue
    wire,           \* what was written after the prologue
    open,           \* _rx: its generator and _pos
    heard,          \* bytes of the wire given to update()
    opened,         \* plain bytes
    verdict         \* of the reader: "none", "reading", "good", "bad", "gave_up"

sender == <<stage, total, seal, done, todo, buffer, covered, tag, wire>>
reader == <<open, heard, opened, verdict>>
vars == <<sender, reader>>

-----------------------------------------------------------------------------
(***************************************************************************)
(* XSalsa20Keystream, and xor_next() of both SecretboxSeal and             *)
(* SecretboxOpen.                                                          *)
(***************************************************************************)

\* Mutant of Block0: the block that was split is used once more, whole.
Block0Again == [index |-> 1, at |-> 0, pos |-> 0]

\* init() or restart(): block 0 is squeezed whole, its second half is cached.
Block0 == [index |-> 1, at |-> Block, pos |-> 0]

\* refill(), where no byte of the block is left.
Refilled(b) ==
    IF b.at = Block THEN [index |-> b.index + 1, at |-> 0, pos |-> b.pos] ELSE b

\* The bytes of one turn of the loops: of the cached half, or of one block.
Avail(b) == IF b.pos < Half THEN Half - b.pos ELSE Block - Refilled(b).at
Take(b, n) == IF n < Avail(b) THEN n ELSE Avail(b)

\* The keystream byte the turn begins at.
First(b) ==
    IF b.pos < Half THEN Half + b.pos
    ELSE (Refilled(b).index - 1) * Block + Refilled(b).at

Advanced(b, n) ==
    IF b.pos < Half
    THEN [index |-> b.index, at |-> b.at, pos |-> b.pos + n]
    ELSE [index |-> Refilled(b).index, at |-> Refilled(b).at + n, pos |-> b.pos + n]

\* n bytes of the message from place from on, combined from keystream byte key on.
Sealed(from, key, n) == [i \in 1..n |-> [byte |-> from + i - 1, pad |-> key + i - 1]]

\* secretbox_seal(): the cached half, then the stream from block 1 on.
OneShot(n) ==
    IF n <= Half THEN Sealed(0, Half, n)
    ELSE Sealed(0, Half, Half) \o Sealed(Half, Block, n - Half)

-----------------------------------------------------------------------------
(***************************************************************************)
(* The sender.                                                             *)
(***************************************************************************)

\* Nothing was sealed, and nothing read, before a message.
Nothing ==
    /\ buffer' = <<>>
    /\ covered' = <<>>
    /\ done' = 0
    /\ todo' = 0
    /\ open' = Block0
    /\ heard' = 0
    /\ opened' = <<>>
    /\ verdict' = "none"

Init ==
    /\ stage = "idle"
    /\ total = 0
    /\ seal = Block0
    /\ done = 0
    /\ todo = 0
    /\ buffer = <<>>
    /\ covered = <<>>
    /\ tag = <<>>
    /\ wire = <<>>
    /\ open = Block0
    /\ heard = 0
    /\ opened = <<>>
    /\ verdict = "none"

\* The frame before is over: read, refused, or given up with its link.
Over ==
    \/ stage = "idle"
    \/ stage \in {"sent", "broken"} /\ verdict \in {"good", "bad", "gave_up"}

\* A frame that fits the scratch buffer is sealed in place and written at once.
SealAtOnce(n) ==
    /\ Over
    /\ n \in 0..MaxData /\ n <= OneShotMax
    /\ stage' = "sent"
    /\ total' = n + 1
    /\ tag' = OneShot(n + 1)
    /\ wire' = OneShot(n + 1)
    /\ Nothing
    /\ UNCHANGED seal

\* init() of the first pass.
Begin(n) ==
    /\ Over
    /\ n \in 0..MaxData /\ n > OneShotMax
    /\ stage' = "absorb"
    /\ total' = n + 1
    /\ seal' = Block0
    /\ tag' = <<>>
    /\ wire' = <<>>
    /\ Nothing

\* Mutant of Portion: the buffer is filled to the end.
PortionFull(cap) == IF done = 0 THEN 1 ELSE cap

\* A call of xor_next(): the flags first, then as much data as the buffer takes.
Portion(cap) ==
    IF done = 0 THEN 1 ELSE IF total - done < cap THEN total - done ELSE cap

Call ==
    /\ stage \in {"absorb", "encrypt"}
    /\ todo = 0 /\ buffer = <<>> /\ done < total
    /\ todo' = Portion(IF stage = "absorb" THEN Scratch ELSE Chunk)
    /\ UNCHANGED <<stage, total, seal, done, buffer, covered, tag, wire, reader>>

\* A turn of its loops.
Turn ==
    /\ todo > 0
    /\ LET n == Take(seal, todo)
       IN  /\ buffer' = buffer \o Sealed(done, First(seal), n)
           /\ seal' = Advanced(seal, n)
           /\ done' = done + n
           /\ todo' = todo - n
    /\ UNCHANGED <<stage, total, covered, tag, wire, reader>>

\* The first pass feeds the tag, and drops what it made.
Absorbed ==
    /\ stage = "absorb"
    /\ todo = 0 /\ buffer # <<>>
    /\ covered' = covered \o buffer
    /\ buffer' = <<>>
    /\ UNCHANGED <<stage, total, seal, done, todo, tag, wire, reader>>

\* Mutant of Restart: the place is reset, the generator goes on.
RestartRunsOn ==
    /\ stage = "absorb"
    /\ done = total /\ buffer = <<>>
    /\ tag' = covered
    /\ seal' = [seal EXCEPT !.pos = 0]
    /\ done' = 0
    /\ stage' = "encrypt"
    /\ UNCHANGED <<total, todo, buffer, covered, wire, reader>>

\* tag(), the prologue is written, restart().
Restart ==
    /\ stage = "absorb"
    /\ done = total /\ buffer = <<>>
    /\ tag' = covered
    /\ seal' = Block0
    /\ done' = 0
    /\ stage' = "encrypt"
    /\ UNCHANGED <<total, todo, buffer, covered, wire, reader>>

\* A piece of the second pass is written; the last one ends the call.
Written ==
    /\ stage = "encrypt"
    /\ todo = 0 /\ buffer # <<>>
    /\ wire' = wire \o buffer
    /\ buffer' = <<>>
    /\ stage' = IF done = total THEN "sent" ELSE "encrypt"
    /\ UNCHANGED <<total, seal, done, todo, covered, tag, reader>>

\* The write of the prologue or of a piece fails.
WriteFails ==
    /\ \/ stage = "absorb" /\ done = total /\ buffer = <<>>
       \/ stage = "encrypt" /\ todo = 0 /\ buffer # <<>>
    /\ stage' = "broken"
    /\ UNCHANGED <<total, seal, done, todo, buffer, covered, tag, wire, reader>>

-----------------------------------------------------------------------------
(***************************************************************************)
(* The reader: what has arrived is a part of the wire.                     *)
(***************************************************************************)

\* curve_recv_header(): the prologue, init(), and the byte of flags.
Header ==
    /\ verdict = "none"
    /\ wire # <<>>
    /\ open' = Block0
    /\ heard' = 1
    /\ opened' = <<>>
    /\ verdict' = "reading"
    /\ UNCHANGED sender

\* update() with the n bytes a read gave.
Update(n) ==
    /\ verdict = "reading"
    /\ open.pos = heard
    /\ n \in 1..Len(wire) - heard
    /\ heard' = heard + n
    /\ UNCHANGED <<open, opened, verdict, sender>>

\* Plain bytes, or nonsense where the keystream bytes differ.
Plain(b, n) ==
    [i \in 1..n |->
        LET c == wire[b.pos + i]
        IN  IF c.pad = First(b) + i - 1 THEN c.byte ELSE -1]

\* A turn of the loops of its xor_next().
OpenTurn ==
    /\ verdict = "reading"
    /\ open.pos < heard
    /\ LET n == Take(open, heard - open.pos)
       IN  /\ opened' = opened \o Plain(open, n)
           /\ open' = Advanced(open, n)
    /\ UNCHANGED <<heard, verdict, sender>>

\* Mutant of Finish: the flags byte is left out of what is authenticated.
FinishWithoutFlags ==
    /\ verdict = "reading"
    /\ open.pos = heard /\ heard = total
    /\ verdict' = IF SubSeq(wire, 2, heard) = tag THEN "good" ELSE "bad"
    /\ UNCHANGED <<open, heard, opened, sender>>

\* finish(): everything update() was given is compared with the tag.
Finish ==
    /\ verdict = "reading"
    /\ open.pos = heard /\ heard = total
    /\ verdict' = IF SubSeq(wire, 1, heard) = tag THEN "good" ELSE "bad"
    /\ UNCHANGED <<open, heard, opened, sender>>

\* A read fails or times out, and the rest of the frame is not read.
GiveUp ==
    /\ verdict \in {"none", "reading"}
    /\ stage \in {"encrypt", "sent", "broken"}
    /\ verdict' = "gave_up"
    /\ UNCHANGED <<open, heard, opened, sender>>

Next ==
    \/ \E n \in 0..MaxData : SealAtOnce(n) \/ Begin(n)
    \/ Call \/ Turn \/ Absorbed \/ Restart \/ Written \/ WriteFails
    \/ Header \/ OpenTurn \/ Finish \/ GiveUp
    \/ \E n \in 1..MaxData : Update(n)

Spec == Init /\ [][Next]_vars

-----------------------------------------------------------------------------

Cells == [byte : Nat, pad : Nat]
Boxes == [index : Nat, at : 0..Block, pos : Nat]

TypeOK ==
    /\ stage \in {"idle", "absorb", "encrypt", "sent", "broken"}
    /\ total \in 0..MaxData + 1
    /\ seal \in Boxes /\ seal.index > 0
    /\ done \in 0..total
    /\ todo \in 0..total - done
    /\ buffer \in Seq(Cells) /\ covered \in Seq(Cells)
    /\ tag \in Seq(Cells) /\ wire \in Seq(Cells)
    /\ open \in Boxes /\ open.index > 0
    /\ heard \in 0..Len(wire)
    /\ opened \in Seq(Nat \cup {-1})
    /\ verdict \in {"none", "reading", "good", "bad", "gave_up"}

\* The second pass makes again what the first one authenticated, though they cut the
\* message at different places: what is on the wire is what its tag covers, so far.
TagCoversTheWire ==
    /\ IsPrefix(wire, tag)
    /\ stage = "sent" => wire = tag /\ Len(wire) = total

\* In a frame no keystream byte hides two bytes, and none of the tag's key hides any.
PadsAreUsedOnce ==
    \A i \in 1..Len(wire) :
        /\ wire[i].pad >= Half
        /\ \A j \in 1..i - 1 : wire[j].pad # wire[i].pad

\* However the bytes arrive, the reader gets the message in its order, and a frame that
\* arrived whole is not refused.
OpenedIsSealed ==
    /\ opened = [i \in 1..Len(opened) |-> i - 1]
    /\ verdict \in {"good", "bad"} => verdict = "good" /\ Len(opened) = total

=============================================================================
