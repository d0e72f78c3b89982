----------------------- MODULE SecretboxStream_proofs -----------------------
(***************************************************************************)
(* Proofs about SecretboxStream, for any block, any buffers and any length *)
(* of a message: which keystream byte hides which byte of it.              *)
(***************************************************************************)
EXTENDS SecretboxStream, SequenceTheorems, TLAPS

\* n bytes of any message, sealed: byte i under keystream byte Half + i.
Piece(from, n) == Sealed(from, Half + from, n)
Run(n) == Piece(0, n)

\* The generator stands where the place in the message says: before block 1 in the
\* cached half, and past it at byte Half + pos.
InStep(b) ==
    /\ b.pos < Half => b.index = 1 /\ b.at = Block
    /\ b.pos >= Half => (b.index - 1) * Block + b.at = Half + b.pos
BoxOK(b) == b \in Boxes /\ b.index > 0 /\ InStep(b)

\* What the current pass made, without the piece in the buffer.
Passed == IF stage = "absorb" THEN covered ELSE wire

Made ==
    /\ covered = Run(Len(covered)) /\ Len(covered) \in Nat
    /\ wire = Run(Len(wire)) /\ Len(wire) \in Nat
    /\ buffer = Piece(Len(Passed), Len(buffer))
    /\ Len(buffer) \in Nat
    /\ tag \in {<<>>, Run(total)}
    /\ wire # <<>> => tag = Run(total)

Sending ==
    /\ stage \in {"idle", "absorb", "encrypt", "sent", "broken"}
    /\ total \in 0..MaxData + 1
    /\ done \in Nat /\ todo \in Nat /\ done + todo <= total
    /\ BoxOK(seal)
    /\ Len(wire) <= total
    /\ stage \in {"idle", "absorb"} => wire = <<>>
    /\ stage \in {"absorb", "encrypt"} =>
          seal.pos = done /\ done = Len(Passed) + Len(buffer) /\ total > 0
    /\ stage \notin {"absorb", "encrypt"} => todo = 0
    /\ stage \in {"encrypt", "sent"} => tag = Run(total)
    /\ stage = "sent" => Len(wire) = total

Reading ==
    /\ verdict \in {"none", "reading", "good", "bad", "gave_up"}
    /\ BoxOK(open)
    /\ heard \in Nat /\ heard <= Len(wire)
    /\ Len(opened) \in Nat
    /\ opened = [i \in 1..Len(opened) |-> i - 1]
    /\ open.pos = Len(opened) /\ open.pos <= heard
    /\ verdict = "reading" => heard > 0
    /\ verdict \in {"good", "bad"} => verdict = "good" /\ Len(opened) = total

IInv == Made /\ Sending /\ Reading

-----------------------------------------------------------------------------
(***************************************************************************)
(* The generator.                                                          *)
(***************************************************************************)

LEMMA Blocks == Half \in Nat /\ Half > 0 /\ Block \in Nat /\ Block = Half + Half /\ Block > Half
  BY HalfAssumption DEF Block

LEMMA Block0OK == BoxOK(Block0) /\ Block0.pos = 0
  BY Blocks DEF BoxOK, Boxes, InStep, Block0

LEMMA NextBlock ==
    ASSUME NEW i \in Nat, i > 0
    PROVE  /\ (i - 1) * Block \in Nat
           /\ i * Block = (i - 1) * Block + Block
           /\ (i + 1 - 1) * Block = i * Block
  <1>1. ASSUME NEW k \in Nat, NEW b \in Nat PROVE k * b \in Nat /\ (k + 1) * b = k * b + b
    OBVIOUS
  <1>2. i - 1 \in Nat /\ (i - 1) + 1 = i /\ i + 1 - 1 = i
    OBVIOUS
  <1>3. QED
    BY <1>1, <1>2, Blocks

\* A turn of the loops takes some bytes, from the keystream byte that belongs to them.
LEMMA TurnInStep ==
    ASSUME NEW b, BoxOK(b), NEW n \in Nat, n > 0
    PROVE  /\ Take(b, n) \in Nat /\ 0 < Take(b, n) /\ Take(b, n) <= n
           /\ First(b) = Half + b.pos
           /\ BoxOK(Advanced(b, Take(b, n)))
           /\ Advanced(b, Take(b, n)).pos = b.pos + Take(b, n)
  <1> DEFINE t == Take(b, n)
             r == Refilled(b)
  <1>1. /\ b.index \in Nat /\ b.index > 0
        /\ b.at \in Nat /\ b.at <= Block
        /\ b.pos \in Nat
    BY Blocks DEF BoxOK, Boxes
  <1>2. CASE b.pos < Half
    <2>1. t \in Nat /\ 0 < t /\ t <= n /\ t <= Half - b.pos
      BY <1>1, <1>2, Blocks DEF Take, Avail
    <2>2. First(b) = Half + b.pos
      BY <1>2 DEF First
    <2> HIDE DEF t
    <2>3. Advanced(b, t) = [index |-> b.index, at |-> b.at, pos |-> b.pos + t]
      BY <1>2 DEF Advanced
    <2>4. b.index = 1 /\ b.at = Block
      BY <1>2 DEF BoxOK, InStep
    <2>5. (1 - 1) * Block + Block = Half + Half
      BY Blocks
    <2>6. BoxOK(Advanced(b, t)) /\ Advanced(b, t).pos = b.pos + t
      BY <1>1, <1>2, <2>1, <2>3, <2>4, <2>5, Blocks DEF BoxOK, Boxes, InStep
    <2>7. QED
      BY <2>1, <2>2, <2>6 DEF t
  <1>3. CASE b.pos >= Half
    <2>1. (b.index - 1) * Block + b.at = Half + b.pos
      BY <1>3 DEF BoxOK, InStep
    <2>2. /\ r.index \in Nat /\ r.index > 0
          /\ r.at \in Nat /\ r.at < Block
          /\ (r.index - 1) * Block + r.at = Half + b.pos
          /\ (r.index - 1) * Block \in Nat
      <3> DEFINE before == (b.index - 1) * Block
      <3>0. /\ before \in Nat
            /\ (b.index + 1 - 1) * Block = before + Block
        BY <1>1, NextBlock
      <3>1. CASE b.at = Block
        <4>1. r.index = b.index + 1 /\ r.at = 0
          BY <3>1 DEF Refilled
        <4> HIDE DEF r
        <4>2. r.index - 1 = b.index + 1 - 1
          BY <1>1, <4>1
        <4>3. (r.index - 1) * Block = before + Block
          BY <3>0, <4>2
        <4>4. before + Block = Half + b.pos
          BY <2>1, <3>1
        <4> HIDE DEF before
        <4>5. /\ before + Block \in Nat
              /\ (r.index - 1) * Block + r.at = Half + b.pos
          BY <3>0, <4>1, <4>3, <4>4, Blocks
        <4>6. QED
          BY <1>1, <4>1, <4>3, <4>5, Blocks
      <3>2. CASE b.at # Block
        <4>1. r = b
          BY <3>2 DEF Refilled
        <4>2. b.at < Block
          BY <1>1, <3>2, Blocks
        <4> HIDE DEF r
        <4>3. QED
          BY <1>1, <2>1, <3>0, <4>1, <4>2
      <3>3. QED
        BY <3>1, <3>2
    <2>3. /\ First(b) = (r.index - 1) * Block + r.at
          /\ Avail(b) = Block - r.at
          /\ Advanced(b, t) = [index |-> r.index, at |-> r.at + t, pos |-> b.pos + t]
      BY <1>1, <1>3, Blocks DEF First, Avail, Advanced
    <2> HIDE DEF r
    <2>4. t \in Nat /\ 0 < t /\ t <= n /\ t <= Block - r.at
      BY <2>2, <2>3, Blocks DEF Take
    <2> HIDE DEF t
    <2>5. /\ r.at + t \in 0..Block
          /\ b.pos + t \in Nat /\ b.pos + t >= Half
          /\ (r.index - 1) * Block + (r.at + t) = Half + (b.pos + t)
      <3>1. ASSUME NEW m \in Nat, NEW a \in Nat, NEW p \in Nat, m + a = Half + p
            PROVE  m + (a + t) = Half + (p + t)
        BY <2>4, <3>1, Blocks
      <3>2. (r.index - 1) * Block + (r.at + t) = Half + (b.pos + t)
        BY <1>1, <2>2, <3>1
      <3>3. QED
        BY <1>1, <1>3, <2>2, <2>4, <3>2, Blocks
    <2>6. BoxOK(Advanced(b, t)) /\ Advanced(b, t).pos = b.pos + t
      BY <1>1, <2>2, <2>3, <2>5, Blocks DEF BoxOK, Boxes, InStep
    <2>7. QED
      BY <2>2, <2>3, <2>4, <2>6 DEF t
  <1>4. QED
    BY <1>1, <1>2, <1>3, Blocks

-----------------------------------------------------------------------------
(***************************************************************************)
(* What is sealed.                                                         *)
(***************************************************************************)

LEMMA PieceLength ==
    ASSUME NEW a \in Nat, NEW n \in Nat
    PROVE  Piece(a, n) \in Seq(Cells) /\ Len(Piece(a, n)) = n
  BY Blocks DEF Piece, Sealed, Cells

\* A piece followed by the next one.
LEMMA PieceExtends ==
    ASSUME NEW a \in Nat, NEW m \in Nat, NEW n \in Nat
    PROVE  Piece(a, m) \o Piece(a + m, n) = Piece(a, m + n)
  <1> DEFINE b == a + m
             p == Piece(a, m)
             q == Piece(b, n)
             all == Piece(a, m + n)
  <1>0. b \in Nat /\ b = a + m
    OBVIOUS
  <1> HIDE DEF b
  <1>1. /\ p \in Seq(Cells) /\ q \in Seq(Cells) /\ all \in Seq(Cells)
        /\ Len(p) = m /\ Len(q) = n /\ Len(all) = m + n
    BY <1>0, PieceLength
  <1>2. /\ \A i \in 1..m : p[i] = [byte |-> a + i - 1, pad |-> Half + a + i - 1]
        /\ \A i \in 1..n : q[i] = [byte |-> b + i - 1, pad |-> Half + b + i - 1]
        /\ \A i \in 1..m + n : all[i] = [byte |-> a + i - 1, pad |-> Half + a + i - 1]
    BY DEF Piece, Sealed
  <1> HIDE DEF p, q, all
  <1>3. /\ p \o q \in Seq(Cells)
        /\ Len(p \o q) = m + n
        /\ \A i \in 1..m + n : (p \o q)[i] = IF i <= m THEN p[i] ELSE q[i - m]
    BY <1>1, ConcatProperties
  <1>4. ASSUME NEW i \in 1..m + n PROVE (p \o q)[i] = all[i]
    <2>1. CASE i <= m
      <3>1. i \in 1..m
        BY <2>1
      <3>2. QED
        BY <1>2, <1>3, <2>1, <3>1
    <2>2. CASE ~(i <= m)
      <3>1. /\ i - m \in 1..n
            /\ b + (i - m) - 1 = a + i - 1
            /\ Half + b + (i - m) - 1 = Half + a + i - 1
        BY <1>0, <2>2, Blocks
      <3>2. (p \o q)[i] = q[i - m]
        BY <1>3, <2>2
      <3>3. QED
        BY <1>2, <3>1, <3>2
    <2>3. QED
      BY <2>1, <2>2
  <1>5. p \o q = all
    BY <1>1, <1>3, <1>4, SeqEqual
  <1>6. QED
    BY <1>5 DEF p, q, all, b

LEMMA NoPiece ==
    /\ \A a : Piece(a, 0) = <<>>
    /\ Run(0) = <<>>
    /\ Len(<<>>) = 0
  BY DEF Run, Piece, Sealed

LEMMA RunLength == ASSUME NEW n \in Nat PROVE Run(n) \in Seq(Cells) /\ Len(Run(n)) = n
  BY PieceLength DEF Run

LEMMA RunCell ==
    ASSUME NEW n \in Nat, NEW i \in 1..n
    PROVE  Run(n)[i] = [byte |-> i - 1, pad |-> Half + i - 1]
  <1>1. 0 + i - 1 = i - 1 /\ Half + 0 + i - 1 = Half + i - 1
    BY Blocks
  <1>2. Run(n)[i] = [byte |-> 0 + i - 1, pad |-> Half + 0 + i - 1]
    BY DEF Run, Piece, Sealed
  <1>3. QED
    BY <1>1, <1>2

LEMMA RunExtends ==
    ASSUME NEW m \in Nat, NEW n \in Nat
    PROVE  Run(m) \o Piece(m, n) = Run(m + n)
  <1> DEFINE z == 0
  <1>1. z \in Nat /\ m = z + m
    OBVIOUS
  <1> HIDE DEF z
  <1>2. Piece(z, m) \o Piece(m, n) = Piece(z, m + n)
    BY <1>1, PieceExtends, ZenonT(40)
  <1>3. QED
    BY <1>2 DEF z, Run

\* One piece in one go, or in two passes: the same bytes.
LEMMA OneShotIsRun == ASSUME NEW n \in Nat PROVE OneShot(n) = Run(n)
  <1>1. Half + 0 = Half /\ Block = Half + Half
    BY Blocks
  <1>2. /\ Sealed(0, Half, n) = Run(n)
        /\ Sealed(0, Half, Half) = Run(Half)
        /\ Sealed(Half, Block, n - Half) = Piece(Half, n - Half)
    BY <1>1, Zenon DEF Run, Piece
  <1>3. CASE n <= Half
    BY <1>2, <1>3 DEF OneShot
  <1>4. CASE ~(n <= Half)
    <2>1. n - Half \in Nat /\ Half + (n - Half) = n
      BY <1>4, Blocks
    <2>2. Run(Half) \o Piece(Half, n - Half) = Run(n)
      BY <2>1, RunExtends, Blocks, Zenon
    <2>3. QED
      BY <1>2, <1>4, <2>2 DEF OneShot
  <1>5. QED
    BY <1>3, <1>4

-----------------------------------------------------------------------------
(***************************************************************************)
(* The steps of the sender.                                                *)
(***************************************************************************)

LEMMA Start == Init => IInv
  <1> SUFFICES ASSUME Init PROVE IInv
    OBVIOUS
  <1> USE DEF Init
  <1>1. Made
    BY NoPiece DEF Made, Passed
  <1>2. Sending
    BY Block0OK, NoPiece, DataAssumption DEF Sending
  <1>3. Reading
    <2>1. <<>> = [i \in 1..0 |-> i - 1]
      OBVIOUS
    <2>2. QED
      BY <2>1, Block0OK, NoPiece DEF Reading
  <1>4. QED
    BY <1>1, <1>2, <1>3 DEF IInv

\* Before a message nothing is read of it.
LEMMA Unread == Nothing => Reading'
  <1> SUFFICES ASSUME Nothing PROVE Reading'
    OBVIOUS
  <1>1. <<>> = [i \in 1..0 |-> i - 1]
    OBVIOUS
  <1>2. QED
    BY <1>1, Block0OK, NoPiece DEF Nothing, Reading

LEMMA BeginStep ==
    ASSUME NEW n \in 0..MaxData, SealAtOnce(n) \/ Begin(n), IInv
    PROVE  IInv'
  <1>1. Reading'
    BY Unread DEF SealAtOnce, Begin
  <1>2. n + 1 \in Nat /\ n + 1 \in 0..MaxData + 1 /\ n + 1 > 0
    BY DataAssumption
  <1>3. CASE SealAtOnce(n)
    <2>1. /\ wire' = Run(n + 1) /\ tag' = Run(n + 1) /\ total' = n + 1
          /\ Len(wire') = n + 1
          /\ stage' = "sent" /\ seal' = seal
          /\ buffer' = <<>> /\ covered' = <<>> /\ done' = 0 /\ todo' = 0
      BY <1>2, <1>3, OneShotIsRun, RunLength DEF SealAtOnce, Nothing
    <2>2. Made'
      BY <1>2, <2>1, NoPiece DEF Made, Passed
    <2>3. Sending'
      BY <1>2, <2>1 DEF Sending, IInv
    <2>4. QED
      BY <1>1, <2>2, <2>3 DEF IInv
  <1>4. CASE Begin(n)
    <2>1. /\ wire' = <<>> /\ tag' = <<>> /\ total' = n + 1
          /\ stage' = "absorb" /\ seal' = Block0
          /\ buffer' = <<>> /\ covered' = <<>> /\ done' = 0 /\ todo' = 0
      BY <1>4 DEF Begin, Nothing
    <2>2. Made'
      BY <2>1, NoPiece DEF Made, Passed
    <2>3. Sending'
      BY <1>2, <2>1, NoPiece, Block0OK DEF Sending, Passed
    <2>4. QED
      BY <1>1, <2>2, <2>3 DEF IInv
  <1>5. QED
    BY <1>3, <1>4

LEMMA CallStep == Call /\ IInv => IInv'
  <1> SUFFICES ASSUME Call, IInv PROVE IInv'
    OBVIOUS
  <1>1. /\ stage \in {"absorb", "encrypt"}
        /\ todo' = Portion(IF stage = "absorb" THEN Scratch ELSE Chunk)
        /\ done < total
        /\ UNCHANGED <<stage, total, seal, done, buffer, covered, tag, wire>>
        /\ UNCHANGED reader
    BY DEF Call
  <1>2. todo' \in Nat /\ done + todo' <= total
    <2>1. total \in Nat /\ done \in Nat
      BY DataAssumption DEF IInv, Sending
    <2>2. QED
      BY <1>1, <2>1, BuffersAssumption DEF Portion
  <1>3. Made'
    BY <1>1 DEF Made, Passed, IInv
  <1>4. Sending'
    BY <1>1, <1>2 DEF Sending, Passed, IInv
  <1>5. Reading'
    BY <1>1 DEF Reading, reader, IInv
  <1>6. QED
    BY <1>3, <1>4, <1>5 DEF IInv

LEMMA TurnStep == Turn /\ IInv => IInv'
  <1> SUFFICES ASSUME Turn, IInv PROVE IInv'
    OBVIOUS
  <1> DEFINE n == Take(seal, todo)
  <1>1. /\ todo > 0
        /\ buffer' = buffer \o Sealed(done, First(seal), n)
        /\ seal' = Advanced(seal, n)
        /\ done' = done + n
        /\ todo' = todo - n
        /\ UNCHANGED <<stage, total, covered, tag, wire>>
        /\ UNCHANGED reader
    BY DEF Turn
  <1>2. /\ total \in Nat /\ done \in Nat /\ todo \in Nat /\ done + todo <= total
        /\ stage \in {"absorb", "encrypt"}
        /\ BoxOK(seal)
        /\ seal.pos = done /\ done = Len(Passed) + Len(buffer)
    BY <1>1, DataAssumption DEF IInv, Sending
  <1>3. /\ n \in Nat /\ 0 < n /\ n <= todo
        /\ First(seal) = Half + seal.pos
        /\ BoxOK(seal') /\ seal'.pos = seal.pos + n
    BY <1>1, <1>2, TurnInStep
  <1> HIDE DEF n
  <1>4. /\ buffer = Piece(Len(Passed), Len(buffer))
        /\ Len(buffer) \in Nat /\ Len(Passed) \in Nat
        /\ Passed' = Passed
    BY <1>1 DEF IInv, Made, Passed
  <1>5. /\ buffer' = Piece(Len(Passed), Len(buffer) + n)
        /\ Len(buffer') = Len(buffer) + n
    <2>1. buffer' = buffer \o Piece(done, n)
      BY <1>1, <1>2, <1>3 DEF Piece
    <2> DEFINE l == Len(Passed)
               m == Len(buffer)
    <2>0. l \in Nat /\ m \in Nat /\ done \in Nat /\ done = l + m
      BY <1>2, <1>4
    <2> HIDE DEF l, m
    <2>2. Piece(l, m) \o Piece(done, n) = Piece(l, m + n)
      BY <1>3, <2>0, PieceExtends, ZenonT(40)
    <2>3. Len(Piece(l, m + n)) = m + n
      BY <1>3, <2>0, PieceLength
    <2>4. QED
      BY <1>4, <2>1, <2>2, <2>3 DEF l, m
  <1>6. Made'
    <2>1. /\ covered' = Run(Len(covered')) /\ Len(covered') \in Nat
          /\ wire' = Run(Len(wire')) /\ Len(wire') \in Nat
          /\ tag' \in {<<>>, Run(total')}
          /\ wire' # <<>> => tag' = Run(total')
      BY <1>1 DEF IInv, Made
    <2>2. buffer' = Piece(Len(Passed'), Len(buffer')) /\ Len(buffer') \in Nat
      BY <1>3, <1>4, <1>5
    <2>3. QED
      BY <2>1, <2>2 DEF Made
  <1>7. Sending'
    <2>1. /\ done' \in Nat /\ todo' \in Nat /\ done' + todo' <= total'
          /\ seal'.pos = done' /\ done' = Len(Passed') + Len(buffer') /\ total' > 0
      BY <1>1, <1>2, <1>3, <1>4, <1>5
    <2>2. QED
      BY <1>1, <1>2, <1>3, <2>1 DEF IInv, Sending
  <1>8. Reading'
    BY <1>1 DEF Reading, reader, IInv
  <1>9. QED
    BY <1>6, <1>7, <1>8 DEF IInv

\* Of the current pass: what passed before, and the piece in the buffer.
LEMMA PieceAppended ==
    ASSUME IInv, stage \in {"absorb", "encrypt"}
    PROVE  /\ Passed \o buffer = Run(done)
           /\ Len(Run(done)) = done
           /\ done \in Nat /\ total \in Nat /\ done <= total
           /\ buffer = <<>> => Passed = Run(done)
  <1> DEFINE l == Len(Passed)
             m == Len(buffer)
  <1>1. /\ l \in Nat /\ m \in Nat /\ done = l + m
        /\ done \in Nat /\ total \in Nat /\ done <= total
        /\ Passed = Run(l) /\ buffer = Piece(l, m)
    BY DataAssumption DEF IInv, Made, Sending, Passed
  <1>2. buffer = <<>> => m = 0
    BY NoPiece
  <1> HIDE DEF l, m
  <1>3. Run(l) \o Piece(l, m) = Run(done)
    BY <1>1, RunExtends
  <1>4. m = 0 => done = l
    BY <1>1
  <1>5. QED
    BY <1>1, <1>2, <1>3, <1>4, RunLength

LEMMA AbsorbedStep == Absorbed /\ IInv => IInv'
  <1> SUFFICES ASSUME Absorbed, IInv PROVE IInv'
    OBVIOUS
  <1>1. /\ stage = "absorb" /\ todo = 0
        /\ covered' = covered \o buffer /\ buffer' = <<>>
        /\ UNCHANGED <<stage, total, seal, done, todo, tag, wire>>
        /\ UNCHANGED reader
    BY DEF Absorbed
  <1>2. /\ covered' = Run(done) /\ Len(covered') = done /\ done \in Nat
        /\ Passed' = covered'
    BY <1>1, PieceAppended DEF Passed
  <1>3. Made'
    BY <1>1, <1>2, NoPiece DEF IInv, Made
  <1>4. Sending'
    BY <1>1, <1>2, NoPiece DEF IInv, Sending
  <1>5. Reading'
    BY <1>1 DEF Reading, reader, IInv
  <1>6. QED
    BY <1>3, <1>4, <1>5 DEF IInv

LEMMA RestartStep == Restart /\ IInv => IInv'
  <1> SUFFICES ASSUME Restart, IInv PROVE IInv'
    OBVIOUS
  <1>1. /\ stage = "absorb" /\ done = total /\ buffer = <<>>
        /\ tag' = covered /\ seal' = Block0 /\ done' = 0 /\ stage' = "encrypt"
        /\ UNCHANGED <<total, todo, buffer, covered, wire>>
        /\ UNCHANGED reader
    BY DEF Restart
  <1>2. tag' = Run(total) /\ todo' = 0 /\ total \in Nat /\ total > 0
    <2>1. todo \in Nat /\ done + todo <= total /\ done \in Nat /\ total > 0
      BY <1>1 DEF IInv, Sending
    <2>2. todo = 0
      BY <1>1, <2>1
    <2>3. QED
      BY <1>1, <2>1, <2>2, PieceAppended DEF Passed
  <1>3. wire = <<>> /\ wire' = <<>> /\ Passed' = <<>>
    BY <1>1 DEF IInv, Sending, Passed
  <1>4. Made'
    BY <1>1, <1>2, <1>3, NoPiece DEF IInv, Made
  <1>5. Sending'
    BY <1>1, <1>2, <1>3, NoPiece, Block0OK DEF IInv, Sending
  <1>6. Reading'
    BY <1>1 DEF Reading, reader, IInv
  <1>7. QED
    BY <1>4, <1>5, <1>6 DEF IInv

LEMMA WrittenStep == Written /\ IInv => IInv'
  <1> SUFFICES ASSUME Written, IInv PROVE IInv'
    OBVIOUS
  <1>1. /\ stage = "encrypt" /\ todo = 0
        /\ wire' = wire \o buffer /\ buffer' = <<>>
        /\ stage' = IF done = total THEN "sent" ELSE "encrypt"
        /\ UNCHANGED <<total, seal, done, todo, covered, tag>>
        /\ UNCHANGED reader
    BY DEF Written
  <1>2. /\ wire' = Run(done) /\ Len(wire') = done /\ done \in Nat /\ done <= total
        /\ Passed' = wire'
    BY <1>1, PieceAppended DEF Passed
  <1>3. Len(wire) \in Nat /\ Len(wire) <= Len(wire')
    <2>1. Len(wire) \in Nat /\ Len(buffer) \in Nat /\ done = Len(wire) + Len(buffer)
      BY <1>1 DEF IInv, Made, Sending, Passed
    <2>2. QED
      BY <1>2, <2>1
  <1>4. Made'
    BY <1>1, <1>2, NoPiece DEF IInv, Made, Sending
  <1>5. Sending'
    BY <1>1, <1>2, NoPiece DEF IInv, Sending
  <1>6. Reading'
    <2>1. heard \in Nat /\ heard <= Len(wire) => heard <= Len(wire')
      BY <1>2, <1>3
    <2>2. QED
      BY <1>1, <2>1 DEF Reading, reader, IInv
  <1>7. QED
    BY <1>4, <1>5, <1>6 DEF IInv

LEMMA WriteFailsStep == WriteFails /\ IInv => IInv'
  <1> SUFFICES ASSUME WriteFails, IInv PROVE IInv'
    OBVIOUS
  <1>1. /\ stage' = "broken"
        /\ UNCHANGED <<total, seal, done, todo, buffer, covered, tag, wire>>
        /\ UNCHANGED reader
    BY DEF WriteFails
  <1>2. /\ todo \in Nat /\ done \in Nat /\ done + todo <= total
        /\ stage = "absorb" => done = total /\ buffer = <<>> /\ wire = <<>>
        /\ stage # "absorb" => stage = "encrypt" /\ todo = 0
    BY DEF WriteFails, IInv, Sending
  <1>3. todo = 0
    BY <1>2, DataAssumption DEF IInv, Sending
  <1>4. buffer = Piece(Len(Passed'), Len(buffer))
    <2>1. CASE stage = "absorb"
      BY <1>2, <2>1, NoPiece
    <2>2. CASE stage # "absorb"
      BY <1>1, <2>2 DEF IInv, Made, Passed
    <2>3. QED
      BY <2>1, <2>2
  <1>5. Made'
    BY <1>1, <1>4 DEF IInv, Made
  <1>6. Sending'
    BY <1>1, <1>3 DEF IInv, Sending
  <1>7. Reading'
    BY <1>1 DEF Reading, reader, IInv
  <1>8. QED
    BY <1>5, <1>6, <1>7 DEF IInv

-----------------------------------------------------------------------------
(***************************************************************************)
(* The steps of the reader.                                                *)
(***************************************************************************)

LEMMA SenderKept == UNCHANGED sender /\ IInv => Made' /\ Sending'
  BY DEF sender, IInv, Made, Sending, Passed

LEMMA HeaderStep == Header /\ IInv => IInv'
  <1> SUFFICES ASSUME Header, IInv PROVE IInv'
    OBVIOUS
  <1>1. /\ wire # <<>> /\ UNCHANGED sender
        /\ open' = Block0 /\ heard' = 1 /\ opened' = <<>> /\ verdict' = "reading"
    BY DEF Header
  <1>2. wire' = wire /\ Len(wire) \in Nat /\ Len(wire) # 0
    BY <1>1, NoPiece DEF sender, IInv, Made
  <1>3. <<>> = [i \in 1..0 |-> i - 1]
    OBVIOUS
  <1>4. Reading'
    BY <1>1, <1>2, <1>3, Block0OK, NoPiece DEF Reading
  <1>5. QED
    BY <1>1, <1>4, SenderKept DEF IInv

LEMMA UpdateStep ==
    ASSUME NEW n, Update(n), IInv
    PROVE  IInv'
  <1>1. /\ n \in 1..Len(wire) - heard /\ heard' = heard + n
        /\ UNCHANGED <<open, opened, verdict>> /\ UNCHANGED sender
        /\ verdict = "reading" /\ open.pos = heard
    BY DEF Update
  <1>2. /\ wire' = wire /\ total' = total
        /\ Len(wire) \in Nat /\ heard \in Nat /\ open.pos = Len(opened)
        /\ Len(opened) \in Nat
    BY <1>1 DEF sender, IInv, Made, Reading
  <1>3. heard' \in Nat /\ heard' <= Len(wire) /\ heard' > 0 /\ open.pos <= heard'
    BY <1>1, <1>2
  <1>4. Reading'
    BY <1>1, <1>2, <1>3 DEF Reading, IInv
  <1>5. QED
    BY <1>1, <1>4, SenderKept DEF IInv

\* What a turn opens is the plain text.
LEMMA PlainText ==
    ASSUME IInv, open.pos < heard, NEW n \in Nat, n <= heard - open.pos,
           First(open) = Half + open.pos
    PROVE  /\ Plain(open, n) \in Seq(Nat) /\ Len(Plain(open, n)) = n
           /\ \A i \in 1..n : Plain(open, n)[i] = open.pos + i - 1
  <1> DEFINE p == open.pos
  <1>1. /\ p \in Nat /\ heard \in Nat /\ heard <= Len(wire) /\ Len(wire) \in Nat
        /\ wire = Run(Len(wire))
    BY DEF IInv, Reading, Made, BoxOK, Boxes
  <1>2. ASSUME NEW i \in 1..n
        PROVE  /\ wire[p + i].pad = First(open) + i - 1
               /\ wire[p + i].byte = p + i - 1
    <2> DEFINE j == p + i
               k == Len(wire)
    <2>1. j \in 1..k /\ k \in Nat /\ wire = Run(k)
      BY <1>1
    <2>2. /\ Half + j - 1 = First(open) + i - 1
          /\ j - 1 = p + i - 1
      BY <1>1, Blocks
    <2> HIDE DEF j, k
    <2>3. wire[j] = [byte |-> j - 1, pad |-> Half + j - 1]
      BY <2>1, RunCell
    <2>4. wire[j].pad = Half + j - 1 /\ wire[j].byte = j - 1
      BY <2>3
    <2>5. QED
      BY <2>2, <2>4 DEF j
  <1>3. ASSUME NEW i \in 1..n PROVE p + i - 1 \in Nat
    BY <1>1
  <1>4. ASSUME NEW i \in 1..n
        PROVE  (IF wire[p + i].pad = First(open) + i - 1 THEN wire[p + i].byte ELSE -1)
               = p + i - 1
    BY <1>2
  <1>5. Plain(open, n) = [i \in 1..n |-> p + i - 1]
    BY <1>4 DEF Plain
  <1> HIDE DEF p
  <1>6. [i \in 1..n |-> p + i - 1] \in Seq(Nat)
    BY <1>1
  <1>7. Len([i \in 1..n |-> p + i - 1]) = n
    OBVIOUS
  <1>8. QED
    BY <1>5, <1>6, <1>7 DEF p

LEMMA OpenTurnStep == OpenTurn /\ IInv => IInv'
  <1> SUFFICES ASSUME OpenTurn, IInv PROVE IInv'
    OBVIOUS
  <1> DEFINE n == Take(open, heard - open.pos)
  <1>1. /\ verdict = "reading" /\ open.pos < heard
        /\ opened' = opened \o Plain(open, n)
        /\ open' = Advanced(open, n)
        /\ UNCHANGED <<heard, verdict>> /\ UNCHANGED sender
    BY DEF OpenTurn
  <1>2. /\ wire' = wire /\ total' = total
        /\ open.pos \in Nat /\ heard \in Nat /\ heard <= Len(wire) /\ heard > 0
        /\ BoxOK(open) /\ Len(opened) = open.pos
        /\ opened = [i \in 1..Len(opened) |-> i - 1]
    BY <1>1 DEF sender, IInv, Reading, BoxOK, Boxes
  <1>3. heard - open.pos \in Nat /\ heard - open.pos > 0
    BY <1>1, <1>2
  <1>4. /\ n \in Nat /\ n <= heard - open.pos
        /\ First(open) = Half + open.pos
        /\ BoxOK(open') /\ open'.pos = open.pos + n
    BY <1>1, <1>2, <1>3, TurnInStep
  <1> HIDE DEF n
  <1> DEFINE l == open.pos
             p == Plain(open, n)
  <1>5. p \in Seq(Nat) /\ Len(p) = n /\ \A i \in 1..n : p[i] = l + i - 1
    BY <1>1, <1>4, PlainText
  <1>6. l \in Nat /\ opened \in Seq(Nat) /\ \A i \in 1..l : opened[i] = i - 1
    BY <1>2
  <1>7. /\ opened' \in Seq(Nat) /\ Len(opened') = l + n
        /\ \A i \in 1..l + n : opened'[i] = IF i <= l THEN opened[i] ELSE p[i - l]
    <2>1. opened' = opened \o p /\ Len(opened) = l
      BY <1>1, <1>2
    <2> HIDE DEF l, p
    <2>2. QED
      BY <1>5, <1>6, <2>1, ConcatProperties, ZenonT(30)
  <1> HIDE DEF p
  <1>8. \A i \in 1..l + n : opened'[i] = i - 1
    <2> HIDE DEF l
    <2> SUFFICES ASSUME NEW i \in 1..l + n PROVE opened'[i] = i - 1
      OBVIOUS
    <2>1. CASE i <= l
      <3>1. i \in 1..l
        BY <1>6, <2>1
      <3>2. QED
        BY <1>6, <1>7, <2>1, <3>1
    <2>2. CASE ~(i <= l)
      <3>1. i - l \in 1..n /\ l + (i - l) - 1 = i - 1
        BY <1>4, <1>6, <2>2
      <3>2. QED
        BY <1>5, <1>7, <2>2, <3>1
    <2>3. QED
      BY <2>1, <2>2
  <1>9. opened' = [i \in 1..Len(opened') |-> i - 1]
    BY <1>7, <1>8
  <1>10. /\ Len(opened') \in Nat /\ open'.pos = Len(opened') /\ open'.pos <= heard
    BY <1>2, <1>4, <1>7
  <1>11. Reading'
    BY <1>1, <1>2, <1>4, <1>9, <1>10 DEF Reading
  <1>12. QED
    BY <1>1, <1>11, SenderKept DEF IInv

LEMMA FinishStep == Finish /\ IInv => IInv'
  <1> SUFFICES ASSUME Finish, IInv PROVE IInv'
    OBVIOUS
  <1>1. /\ verdict = "reading" /\ open.pos = heard /\ heard = total
        /\ verdict' = IF SubSeq(wire, 1, heard) = tag THEN "good" ELSE "bad"
        /\ UNCHANGED <<open, heard, opened>> /\ UNCHANGED sender
    BY DEF Finish
  <1>2. /\ wire' = wire /\ total' = total
        /\ heard \in Nat /\ heard > 0 /\ heard <= Len(wire) /\ Len(wire) <= total
        /\ Len(wire) \in Nat /\ open.pos = Len(opened)
        /\ wire = Run(Len(wire))
        /\ wire # <<>> => tag = Run(total)
    BY <1>1 DEF sender, IInv, Made, Sending, Reading
  <1>3. Len(wire) = heard /\ wire # <<>>
    BY <1>1, <1>2, NoPiece
  <1>4. SubSeq(wire, 1, heard) = wire
    BY <1>2, <1>3, RunLength, SubSeqFull
  <1>5. verdict' = "good"
    BY <1>1, <1>2, <1>3, <1>4
  <1>6. Reading'
    BY <1>1, <1>2, <1>5 DEF IInv, Reading
  <1>7. QED
    BY <1>1, <1>6, SenderKept DEF IInv

LEMMA GiveUpStep == GiveUp /\ IInv => IInv'
  <1> SUFFICES ASSUME GiveUp, IInv PROVE IInv'
    OBVIOUS
  <1>1. Reading'
    BY DEF GiveUp, sender, IInv, Reading
  <1>2. QED
    BY <1>1, SenderKept DEF GiveUp, IInv

-----------------------------------------------------------------------------

LEMMA Inductive == IInv /\ [Next]_vars => IInv'
  <1> SUFFICES ASSUME IInv, [Next]_vars PROVE IInv'
    OBVIOUS
  <1>1. ASSUME NEW n \in 0..MaxData, SealAtOnce(n) \/ Begin(n) PROVE IInv'
    BY <1>1, BeginStep
  <1>2. CASE Call \/ Turn \/ Absorbed \/ Restart \/ Written \/ WriteFails
    BY <1>2, CallStep, TurnStep, AbsorbedStep, RestartStep, WrittenStep, WriteFailsStep
  <1>3. CASE Header \/ OpenTurn \/ Finish \/ GiveUp
    BY <1>3, HeaderStep, OpenTurnStep, FinishStep, GiveUpStep
  <1>4. ASSUME NEW n \in 1..MaxData, Update(n) PROVE IInv'
    BY <1>4, UpdateStep
  <1>5. CASE UNCHANGED vars
    BY <1>5, SenderKept DEF vars, sender, reader, IInv, Reading
  <1>6. QED
    BY <1>1, <1>2, <1>3, <1>4, <1>5 DEF Next

\* The state keeps its shape for every block, buffer and message.
THEOREM FrameTypeCorrect == Spec => []TypeOK
  <1>1. IInv => TypeOK
    <2> SUFFICES ASSUME IInv PROVE TypeOK
      OBVIOUS
    <2>1. /\ total \in 0..MaxData + 1 /\ total \in Nat
          /\ done \in 0..total /\ todo \in 0..total - done
      BY DataAssumption DEF IInv, Sending
    <2>2. /\ stage \in {"idle", "absorb", "encrypt", "sent", "broken"}
          /\ seal \in Boxes /\ seal.index > 0
      BY DEF IInv, Sending, BoxOK
    <2>3. Len(Passed) \in Nat
      BY DEF IInv, Made, Passed
    <2>4. buffer \in Seq(Cells)
      BY <2>3, PieceLength DEF IInv, Made
    <2>5. covered \in Seq(Cells) /\ wire \in Seq(Cells)
      BY RunLength DEF IInv, Made
    <2>6. tag \in Seq(Cells)
      BY <2>1, RunLength, EmptySeq DEF IInv, Made
    <2>7. /\ open \in Boxes /\ open.index > 0
          /\ heard \in 0..Len(wire)
          /\ verdict \in {"none", "reading", "good", "bad", "gave_up"}
      BY <2>5 DEF IInv, Reading, BoxOK
    <2>8. opened \in Seq(Nat \cup {-1})
      BY DEF IInv, Reading
    <2>9. QED
      BY <2>1, <2>2, <2>4, <2>5, <2>6, <2>7, <2>8 DEF TypeOK
  <1>2. QED
    BY <1>1, Start, Inductive, PTL DEF Spec

\* For every block, buffer and message: what the second pass puts on the wire is what
\* the first one authenticated, up to where it is.
THEOREM TagCovers == Spec => []TagCoversTheWire
  <1>1. IInv => TagCoversTheWire
    <2> SUFFICES ASSUME IInv PROVE TagCoversTheWire
      OBVIOUS
    <2>1. /\ wire = Run(Len(wire)) /\ Len(wire) \in Nat /\ Len(wire) <= total
          /\ tag \in {<<>>, Run(total)} /\ (wire # <<>> => tag = Run(total))
          /\ total \in Nat
          /\ stage = "sent" => Len(wire) = total /\ tag = Run(total)
      BY DataAssumption DEF IInv, Made, Sending
    <2>2. ASSUME wire # <<>> PROVE IsPrefix(wire, tag)
      <3>1. tag = Run(total) /\ Len(tag) = total /\ tag \in Seq(Cells) /\ wire \in Seq(Cells)
        BY <2>1, <2>2, RunLength
      <3>2. \A i \in 1..Len(wire) : wire[i] = tag[i]
        <4> DEFINE k == Len(wire)
        <4>1. \A i \in 1..k : Run(k)[i] = [byte |-> i - 1, pad |-> Half + i - 1]
          BY <2>1, RunCell
        <4>2. \A i \in 1..total : Run(total)[i] = [byte |-> i - 1, pad |-> Half + i - 1]
          BY <2>1, RunCell
        <4>3. \A i \in 1..k : i \in 1..total
          BY <2>1
        <4> HIDE DEF k
        <4>4. \A i \in 1..k : Run(k)[i] = Run(total)[i]
          BY <4>1, <4>2, <4>3
        <4>5. QED
          BY <2>1, <3>1, <4>4 DEF k
      <3>3. SubSeq(tag, 1, Len(wire)) = wire
        BY <2>1, <3>1, <3>2
      <3>4. SubSeq(wire, 1, Len(wire)) = wire
        BY <3>1, SubSeqFull
      <3>5. QED
        BY <2>1, <3>1, <3>3, <3>4 DEF IsPrefix
    <2>3. ASSUME wire = <<>> PROVE IsPrefix(wire, tag)
      BY <2>1, <2>3, RunLength, NoPiece DEF IsPrefix
    <2>4. QED
      BY <2>1, <2>2, <2>3 DEF TagCoversTheWire
  <1>2. QED
    BY <1>1, Start, Inductive, PTL DEF Spec

\* In no frame, of any length and cut anywhere, is a keystream byte used twice, or one
\* of those the key of the tag is made of.
THEOREM PadsOnce == Spec => []PadsAreUsedOnce
  <1>1. IInv => PadsAreUsedOnce
    <2> SUFFICES ASSUME IInv PROVE PadsAreUsedOnce
      OBVIOUS
    <2>1. Len(wire) \in Nat /\ wire = Run(Len(wire))
      BY DEF IInv, Made
    <2>2. \A i \in 1..Len(wire) : wire[i].pad = Half + i - 1
      <3> DEFINE k == Len(wire)
      <3>0. \A i \in 1..k : Run(k)[i] = [byte |-> i - 1, pad |-> Half + i - 1]
        BY <2>1, RunCell
      <3>1. ASSUME NEW i \in 1..k PROVE Run(k)[i].pad = Half + i - 1
        <4>1. Run(k)[i] = [byte |-> i - 1, pad |-> Half + i - 1]
          BY <3>0
        <4>2. QED
          BY <4>1
      <3>2. wire = Run(k)
        BY <2>1
      <3> HIDE DEF k
      <3>3. \A i \in 1..k : wire[i].pad = Half + i - 1
        BY <3>1, <3>2
      <3>4. QED
        BY <3>3 DEF k
    <2>3. ASSUME NEW i \in 1..Len(wire), NEW j \in 1..i - 1
          PROVE  wire[i].pad >= Half /\ wire[j].pad # wire[i].pad
      <3>1. j \in 1..Len(wire) /\ Half + j - 1 # Half + i - 1 /\ Half + i - 1 >= Half
        BY <2>1, Blocks
      <3>2. QED
        BY <2>2, <3>1
    <2>4. ASSUME NEW i \in 1..Len(wire) PROVE wire[i].pad >= Half
      <3>1. Half + i - 1 >= Half
        BY Blocks
      <3>2. QED
        BY <2>2, <3>1
    <2>5. QED
      BY <2>3, <2>4 DEF PadsAreUsedOnce
  <1>2. QED
    BY <1>1, Start, Inductive, PTL DEF Spec

\* However a frame was sealed and however it arrives, the reader gets its message, and
\* accepts it when it is whole.
THEOREM OpenedInOrder == Spec => []OpenedIsSealed
  <1>1. IInv => OpenedIsSealed
    BY DEF IInv, Reading, OpenedIsSealed
  <1>2. QED
    BY <1>1, Start, Inductive, PTL DEF Spec

=============================================================================
