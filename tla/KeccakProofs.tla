---------------------------- MODULE KeccakProofs ----------------------------
(***************************************************************************)
(* Proofs about Keccak, for any sizes of chunks and messages of any        *)
(* length: however a message is cut, the blocks of the padded message are  *)
(* absorbed.                                                               *)
(***************************************************************************)
EXTENDS Keccak, TLAPS, SequenceTheorems

\* A block has 136 bytes.
LEMMA BlockSize == BLOCK_SIZE = 136 /\ Slots = 0 .. 135
BY DEF BLOCK_SIZE, Slots

\* A length is whole blocks and a rest, in one way.
LEMMA Division ==
  ASSUME NEW a \in Nat
  PROVE  /\ a \div BLOCK_SIZE \in Nat /\ a % BLOCK_SIZE \in Slots
         /\ a = (a \div BLOCK_SIZE) * BLOCK_SIZE + (a % BLOCK_SIZE)
BY BlockSize

\* Blocks and a rest that make up a length are its quotient and remainder.
LEMMA DivisionUnique ==
  ASSUME NEW q \in Nat, NEW r \in Slots
  PROVE  (q * BLOCK_SIZE + r) \div BLOCK_SIZE = q /\ (q * BLOCK_SIZE + r) % BLOCK_SIZE = r
BY BlockSize

\* A block taken straight from the message is one.
LEMMA StraightBlock ==
  ASSUME NEW p \in Int
  PROVE  Straight(p) \in Block
BY BlockSize DEF Straight, Block

\* The first q blocks are a sequence of q blocks.
LEMMA BlocksSeq ==
  ASSUME NEW q \in Nat
  PROVE  /\ Blocks(q) \in Seq(Block) /\ Len(Blocks(q)) = q
         /\ \A j \in 1 .. q : Blocks(q)[j] = Straight((j - 1) * BLOCK_SIZE)
<1>1. \A j \in 1 .. q : Straight((j - 1) * BLOCK_SIZE) \in Block
  BY BlockSize, StraightBlock
<1>2. QED
  BY <1>1 DEF Blocks

\* Blocks taken from position q * BLOCK_SIZE on continue the first q ones.
LEMMA BlocksContinue ==
  ASSUME NEW q \in Nat, NEW n \in Nat
  PROVE  /\ [j \in 1 .. n |-> Straight(q * BLOCK_SIZE + (j - 1) * BLOCK_SIZE)] \in Seq(Block)
         /\ Blocks(q) \o [j \in 1 .. n |-> Straight(q * BLOCK_SIZE + (j - 1) * BLOCK_SIZE)]
              = Blocks(q + n)
<1> DEFINE more == [j \in 1 .. n |-> Straight(q * BLOCK_SIZE + (j - 1) * BLOCK_SIZE)]
<1>1. \A j \in 1 .. n : Straight(q * BLOCK_SIZE + (j - 1) * BLOCK_SIZE) \in Block
  BY BlockSize, StraightBlock
<1>2. /\ more \in Seq(Block) /\ Len(more) = n
      /\ \A j \in 1 .. n : more[j] = Straight(q * BLOCK_SIZE + (j - 1) * BLOCK_SIZE)
  BY <1>1
<1> HIDE DEF more
<1>3. /\ Blocks(q) \o more \in Seq(Block) /\ Len(Blocks(q) \o more) = q + n
      /\ \A j \in 1 .. q + n : (Blocks(q) \o more)[j] = IF j <= q THEN Blocks(q)[j] ELSE more[j - q]
  <2>1. Blocks(q) \in Seq(Block) /\ Len(Blocks(q)) = q
    BY BlocksSeq
  <2>2. /\ Blocks(q) \o more \in Seq(Block) /\ Len(Blocks(q) \o more) = Len(Blocks(q)) + Len(more)
        /\ \A j \in 1 .. Len(Blocks(q)) + Len(more) :
             (Blocks(q) \o more)[j] = IF j <= Len(Blocks(q)) THEN Blocks(q)[j] ELSE more[j - Len(Blocks(q))]
    BY <1>2, <2>1, ConcatProperties
  <2>3. QED
    BY <1>2, <2>1, <2>2
<1>4. ASSUME NEW j \in 1 .. q + n PROVE (Blocks(q) \o more)[j] = Blocks(q + n)[j]
  <2>0. q + n \in Nat
    OBVIOUS
  <2>1. Blocks(q + n)[j] = Straight((j - 1) * BLOCK_SIZE)
    BY <2>0 DEF Blocks
  <2>2. CASE j <= q
    <3>1. j \in 1 .. q
      BY <2>2
    <3>2. Blocks(q)[j] = Straight((j - 1) * BLOCK_SIZE)
      BY <3>1 DEF Blocks
    <3>3. QED
      BY <1>3, <2>1, <2>2, <3>2
  <2>3. CASE ~(j <= q)
    <3>1. j - q \in 1 .. n /\ q * BLOCK_SIZE + ((j - q) - 1) * BLOCK_SIZE = (j - 1) * BLOCK_SIZE
      BY <2>3, BlockSize
    <3>2. QED
      BY <1>2, <1>3, <2>1, <2>3, <3>1
  <2>4. QED
    BY <2>2, <2>3
<1>5. Blocks(q + n) \in Seq(Block) /\ Len(Blocks(q + n)) = q + n
  BY BlocksSeq
<1>6. Blocks(q) \o more = Blocks(q + n)
  BY <1>3, <1>4, <1>5, SeqEqual
<1>7. QED
  BY <1>2, <1>6 DEF more

\* One more block.
LEMMA BlocksNext ==
  ASSUME NEW q \in Nat
  PROVE  Blocks(q) \o <<Straight(q * BLOCK_SIZE)>> = Blocks(q + 1)
<1>1. [j \in 1 .. 1 |-> Straight(q * BLOCK_SIZE + (j - 1) * BLOCK_SIZE)] = <<Straight(q * BLOCK_SIZE)>>
  BY BlockSize
<1>2. QED
  BY <1>1, BlocksContinue

\* A block that goes from the queue to those absorbed keeps their order.
LEMMA MoveHead ==
  ASSUME NEW a \in Seq(Block), NEW b \in Seq(Block), b # <<>>
  PROVE  /\ Append(a, Head(b)) \in Seq(Block) /\ Tail(b) \in Seq(Block)
         /\ Append(a, Head(b)) \o Tail(b) = a \o b
<1>1. /\ Head(b) \in Block /\ Tail(b) \in Seq(Block) /\ Len(b) \in Nat /\ Len(b) >= 1 /\ Len(Tail(b)) = Len(b) - 1
      /\ Head(b) = b[1] /\ \A j \in 1 .. Len(b) - 1 : Tail(b)[j] = b[j + 1]
  BY HeadTailProperties, EmptySeq, LenProperties
<1>2. /\ Append(a, Head(b)) \in Seq(Block) /\ Len(Append(a, Head(b))) = Len(a) + 1 /\ Len(a) \in Nat
      /\ \A j \in 1 .. Len(a) : Append(a, Head(b))[j] = a[j]
      /\ Append(a, Head(b))[Len(a) + 1] = Head(b)
  BY <1>1, AppendProperties, LenProperties
<1> DEFINE l == Append(a, Head(b)) \o Tail(b)
           m == a \o b
<1>3. /\ l \in Seq(Block) /\ Len(l) = Len(a) + Len(b)
      /\ \A j \in 1 .. Len(a) + Len(b) : l[j] = IF j <= Len(a) + 1 THEN Append(a, Head(b))[j] ELSE Tail(b)[j - (Len(a) + 1)]
  BY <1>1, <1>2, ConcatProperties
<1>4. /\ m \in Seq(Block) /\ Len(m) = Len(a) + Len(b)
      /\ \A j \in 1 .. Len(a) + Len(b) : m[j] = IF j <= Len(a) THEN a[j] ELSE b[j - Len(a)]
  BY ConcatProperties
<1> HIDE DEF l, m
<1>5. ASSUME NEW j \in 1 .. Len(a) + Len(b) PROVE l[j] = m[j]
  <2>1. CASE j <= Len(a)
    BY <1>2, <1>3, <1>4, <2>1
  <2>2. CASE j = Len(a) + 1
    BY <1>1, <1>2, <1>3, <1>4, <2>2
  <2>3. CASE j > Len(a) + 1
    <3>1. j - (Len(a) + 1) \in 1 .. Len(b) - 1 /\ (j - (Len(a) + 1)) + 1 = j - Len(a)
      BY <1>1, <1>2, <2>3
    <3>2. QED
      BY <1>1, <1>2, <1>3, <1>4, <2>3, <3>1
  <2>4. QED
    BY <1>2, <2>1, <2>2, <2>3
<1>6. l = m
  BY <1>3, <1>4, <1>5, SeqEqual
<1>7. QED
  BY <1>1, <1>2, <1>6 DEF l, m

-----------------------------------------------------------------------------
\* The bytes of a chunk put behind those that wait continue them.
LEMMA CopyContinues ==
  ASSUME NEW buffer \in Block, NEW q \in Nat, NEW r \in Nat, NEW n \in Nat, r + n <= BLOCK_SIZE,
         \A k \in Slots : k < r => buffer[k] = q * BLOCK_SIZE + k + 1
  PROVE  /\ Copy(buffer, r, q * BLOCK_SIZE + r, n) \in Block
         /\ \A k \in Slots : k < r + n => Copy(buffer, r, q * BLOCK_SIZE + r, n)[k] = q * BLOCK_SIZE + k + 1
<1> DEFINE c == Copy(buffer, r, q * BLOCK_SIZE + r, n)
<1>1. \A k \in Slots : c[k] = IF k >= r /\ k < r + n THEN (q * BLOCK_SIZE + r) + (k - r) + 1 ELSE buffer[k]
  BY DEF Copy
<1>2. c \in Block
  BY BlockSize DEF Copy, Block
<1>3. ASSUME NEW k \in Slots, k < r + n PROVE c[k] = q * BLOCK_SIZE + k + 1
  <2>1. CASE k < r
    BY <1>1, <2>1, BlockSize
  <2>2. CASE k >= r
    BY <1>1, <1>3, <2>2, BlockSize
  <2>3. QED
    BY <2>1, <2>2, BlockSize
<1>4. QED
  BY <1>2, <1>3

\* A buffer filled up is a block of the message.
LEMMA CopyFills ==
  ASSUME NEW buffer \in Block, NEW q \in Nat, NEW r \in Slots,
         \A k \in Slots : k < r => buffer[k] = q * BLOCK_SIZE + k + 1
  PROVE  Copy(buffer, r, q * BLOCK_SIZE + r, BLOCK_SIZE - r) = Straight(q * BLOCK_SIZE)
<1>1. PICK n \in Nat : n = BLOCK_SIZE - r /\ r + n = BLOCK_SIZE
  BY BlockSize
<1> DEFINE c == Copy(buffer, r, q * BLOCK_SIZE + r, n)
<1>2. r \in Nat /\ r + n <= BLOCK_SIZE
  BY <1>1, BlockSize
<1>3. \A k \in Slots : k < r + n => c[k] = q * BLOCK_SIZE + k + 1
  BY <1>2, CopyContinues
<1>4. \A k \in Slots : c[k] = q * BLOCK_SIZE + k + 1
  BY <1>1, <1>3, BlockSize
<1>5. c = Straight(q * BLOCK_SIZE)
  BY <1>4 DEF Copy, Straight
<1>6. QED
  BY <1>1, <1>5

\* What the invariant says of the bytes fed, in terms of whole blocks.
LEMMA OpenState ==
  ASSUME IndInv, phase = "open"
  PROVE  \E q \in Nat : /\ q = fed \div BLOCK_SIZE /\ fed = q * BLOCK_SIZE + rest
                        /\ absorbed \o queue = Blocks(q)
                        /\ \A k \in Slots : k < rest => message[k] = q * BLOCK_SIZE + k + 1
<1>1. fed \in Nat /\ rest = fed % BLOCK_SIZE
  BY DEF IndInv, TypeOK, Buffered
<1>2. fed \div BLOCK_SIZE \in Nat /\ fed = (fed \div BLOCK_SIZE) * BLOCK_SIZE + rest
  BY <1>1, Division
<1>3. QED
  BY <1>2 DEF IndInv, Buffered

\* A chunk that does not complete the buffered block.
LEMMA FillInd ==
  ASSUME IndInv, NEW size \in Nat, keccak_update(size), Fill(size)
  PROVE  IndInv'
<1>1. /\ phase = "open" /\ phase' = "open" /\ fed' = fed + size /\ rest' = Rest(size)
      /\ absorbed' = absorbed /\ queue' = queue /\ round' = round
      /\ message' = Copy(message, rest, fed, size) /\ size < BLOCK_SIZE - rest
  BY DEF keccak_update, Fill
<1>2. /\ fed \in Nat /\ rest \in Slots /\ message \in Block /\ absorbed \in Seq(Block)
      /\ queue \in Seq(Block) /\ round \in 0 .. Rounds /\ (queue = <<>> => round = 0)
  BY DEF IndInv, TypeOK
<1>3. PICK q \in Nat : /\ q = fed \div BLOCK_SIZE /\ fed = q * BLOCK_SIZE + rest
                       /\ absorbed \o queue = Blocks(q)
                       /\ \A k \in Slots : k < rest => message[k] = q * BLOCK_SIZE + k + 1
  BY <1>1, OpenState
<1>4. /\ rest + size \in Slots /\ rest \in Nat /\ rest + size <= BLOCK_SIZE
      /\ rest' = rest + size /\ fed' = q * BLOCK_SIZE + rest'
  <2>1. /\ rest + size \in Slots /\ rest \in Nat /\ rest + size <= BLOCK_SIZE
        /\ fed' = q * BLOCK_SIZE + (rest + size)
    BY <1>1, <1>2, <1>3, BlockSize
  <2>2. rest' = rest + size
    BY <1>1, <2>1, BlockSize DEF Rest
  <2>3. QED
    BY <2>1, <2>2
<1>5. fed' \div BLOCK_SIZE = q /\ fed' % BLOCK_SIZE = rest' /\ fed' \in Nat /\ rest' \in Slots
  BY <1>1, <1>2, <1>4, DivisionUnique
<1>6. /\ message' \in Block
      /\ \A k \in Slots : k < rest' => message'[k] = q * BLOCK_SIZE + k + 1
  BY <1>1, <1>2, <1>3, <1>4, CopyContinues
<1>7. QED
  BY <1>1, <1>2, <1>3, <1>5, <1>6 DEF IndInv, TypeOK, Buffered

\* The blocks of one call come behind those absorbed before.
LEMMA Regroup ==
  ASSUME NEW a \in Seq(Block), NEW b \in Seq(Block), NEW c \in Seq(Block)
  PROVE  a \o (b \o c) = (a \o b) \o c
BY ConcatAssociative

\* A chunk that completes the buffered block, if one waits, goes on block by
\* block: q is the number of whole blocks when it starts to.
LEMMA ThroughInd ==
  ASSUME IndInv, NEW size \in Nat, keccak_update(size), Through(size)
  PROVE  IndInv'
<1> DEFINE skip   == IF rest = 0 THEN 0 ELSE BLOCK_SIZE - rest
           filled == IF rest = 0 THEN message ELSE Copy(message, rest, fed, skip)
           first  == IF rest = 0 THEN <<>> ELSE <<filled>>
           n      == WholeBlocks(size, skip)
           more   == [j \in 1 .. n |-> Straight(fed + skip + (j - 1) * BLOCK_SIZE)]
<1>1. /\ phase = "open" /\ phase' = "open" /\ fed' = fed + size /\ rest' = Rest(size)
      /\ absorbed' = absorbed /\ queue = <<>> /\ round' = round
  BY DEF keccak_update, Called
<1>2. /\ fed \in Nat /\ rest \in Slots /\ message \in Block /\ absorbed \in Seq(Block)
      /\ round = 0 /\ round \in 0 .. Rounds
  BY <1>1 DEF IndInv, TypeOK
<1>3. PICK p \in Nat : /\ p = fed \div BLOCK_SIZE /\ fed = p * BLOCK_SIZE + rest
                       /\ absorbed \o queue = Blocks(p)
                       /\ \A k \in Slots : k < rest => message[k] = p * BLOCK_SIZE + k + 1
  BY <1>1, OpenState
<1>4. absorbed = Blocks(p)
  BY <1>1, <1>2, <1>3, ConcatEmptySeq
<1>5. size >= skip /\ queue' = first \o more
  BY DEF Through
<1>6. skip \in Nat /\ skip <= BLOCK_SIZE
  BY <1>2, BlockSize
<1>7. /\ filled \in Block /\ first \in Seq(Block)
      /\ \E q \in Nat : fed + skip = q * BLOCK_SIZE /\ absorbed \o first = Blocks(q)
  <2>1. CASE rest = 0
    BY <1>2, <1>3, <1>4, <2>1, ConcatEmptySeq, BlockSize
  <2>2. CASE rest # 0
    <3>1. filled = Straight(p * BLOCK_SIZE)
      BY <1>2, <1>3, <2>2, CopyFills
    <3>2. Straight(p * BLOCK_SIZE) \in Block
      BY StraightBlock, BlockSize
    <3>3. fed + skip = (p + 1) * BLOCK_SIZE /\ p + 1 \in Nat
      BY <1>2, <1>3, <2>2, BlockSize
    <3>4. absorbed \o first = Blocks(p + 1)
      BY <1>4, <2>2, <3>1, BlocksNext
    <3>5. filled \in Block /\ first \in Seq(Block)
      BY <2>2, <3>1, <3>2
    <3>6. QED
      BY <3>3, <3>4, <3>5
  <2>3. QED
    BY <2>1, <2>2
<1>8. PICK q \in Nat : fed + skip = q * BLOCK_SIZE /\ absorbed \o first = Blocks(q)
  BY <1>7
<1>9. PICK a \in BOOLEAN :
        message' = Leftovers(IF a \/ n = 0 THEN filled ELSE Straight(fed + skip + (n - 1) * BLOCK_SIZE),
                             skip, n, size)
  BY DEF Through
<1>10. PICK r \in Slots : size - skip = n * BLOCK_SIZE + r /\ n \in Nat
  <2>1. size - skip \in Nat
    BY <1>5, <1>6
  <2>2. QED
    BY <2>1, Division DEF WholeBlocks
<1> DEFINE held == IF a \/ n = 0 THEN filled ELSE Straight(fed + skip + (n - 1) * BLOCK_SIZE)
<1>11. held \in Block
  <2>1. fed + skip + (n - 1) * BLOCK_SIZE \in Int
    BY <1>2, <1>6, <1>10, BlockSize
  <2>2. QED
    BY <1>7, <2>1, StraightBlock
<1> HIDE DEF skip, filled, first, n, held
<1>12. /\ fed' = (q + n) * BLOCK_SIZE + r /\ q + n \in Nat
       /\ fed + skip + n * BLOCK_SIZE = (q + n) * BLOCK_SIZE + 0
       /\ size - (skip + n * BLOCK_SIZE) = r
  BY <1>1, <1>2, <1>6, <1>8, <1>10, BlockSize
<1>13. fed' \div BLOCK_SIZE = q + n /\ fed' % BLOCK_SIZE = r /\ fed' \in Nat
  BY <1>1, <1>2, <1>12, DivisionUnique
<1>14. rest' = r
  <2>1. (fed + size) % BLOCK_SIZE = ((rest + size) % BLOCK_SIZE)
    BY <1>2, <1>3, BlockSize
  <2>2. QED
    BY <1>1, <1>13, <2>1 DEF Rest
<1>15. /\ message' \in Block
       /\ \A k \in Slots : k < r => message'[k] = (q + n) * BLOCK_SIZE + k + 1
  <2>1. message' = Copy(held, 0, (q + n) * BLOCK_SIZE + 0, r)
    BY <1>9, <1>12 DEF Leftovers, held
  <2>2. r \in Nat /\ 0 + r <= BLOCK_SIZE /\ 0 + r = r /\ \A k \in Slots : ~(k < 0)
    BY BlockSize
  <2>3. QED
    BY <1>11, <1>12, <2>1, <2>2, CopyContinues
<1>16. queue' \in Seq(Block) /\ absorbed' \o queue' = Blocks(q + n)
  <2>1. more = [j \in 1 .. n |-> Straight(q * BLOCK_SIZE + (j - 1) * BLOCK_SIZE)]
    BY <1>8
  <2>2. more \in Seq(Block) /\ Blocks(q) \o more = Blocks(q + n)
    BY <1>10, <2>1, BlocksContinue
  <2> HIDE DEF more
  <2>3. absorbed \o (first \o more) = (absorbed \o first) \o more
    <3>1. absorbed \in Seq(Block) /\ first \in Seq(Block) /\ more \in Seq(Block)
      BY <1>2, <1>7, <2>2
    <3>2. QED
      BY <3>1, Regroup
  <2>4. QED
    BY <1>1, <1>5, <1>7, <1>8, <2>2, <2>3, ConcatProperties
<1>17. QED
  BY <1>1, <1>2, <1>12, <1>13, <1>14, <1>15, <1>16 DEF IndInv, TypeOK, Buffered

\* keccak_final pads the rest of the message to its last block.
LEMMA PaddedIs ==
  ASSUME NEW q \in Nat, NEW r \in Slots, NEW last \in Block,
         \A k \in Slots : last[k] = PaddedByte(q * BLOCK_SIZE + r, q * BLOCK_SIZE + k + 1)
  PROVE  Blocks(q) \o <<last>> = Padded(q * BLOCK_SIZE + r)
<1> DEFINE n == q * BLOCK_SIZE + r
           B == Blocks(q)
           L == <<last>>
<1>1. n \div BLOCK_SIZE = q /\ n \in Nat
  BY DivisionUnique, BlockSize
<1>2. B \in Seq(Block) /\ Len(B) = q /\ L \in Seq(Block) /\ Len(L) = 1 /\ L[1] = last
  BY BlocksSeq
<1>3. Padded(n) = [j \in 1 .. q + 1 |-> [k \in Slots |-> PaddedByte(n, (j - 1) * BLOCK_SIZE + k + 1)]]
  BY <1>1 DEF Padded
<1> HIDE DEF B, L
<1>4. /\ B \o L \in Seq(Block) /\ Len(B \o L) = q + 1
      /\ \A j \in 1 .. q + 1 : (B \o L)[j] = IF j <= q THEN B[j] ELSE L[j - q]
  <2>1. /\ B \o L \in Seq(Block) /\ Len(B \o L) = Len(B) + Len(L)
        /\ \A j \in 1 .. Len(B) + Len(L) : (B \o L)[j] = IF j <= Len(B) THEN B[j] ELSE L[j - Len(B)]
    BY <1>2, ConcatProperties
  <2>2. QED
    BY <1>2, <2>1
<1>5. ASSUME NEW j \in 1 .. q + 1
      PROVE  (B \o L)[j] = [k \in Slots |-> PaddedByte(n, (j - 1) * BLOCK_SIZE + k + 1)]
  <2>1. CASE j <= q
    <3>1. j \in 1 .. q
      BY <2>1
    <3>2. B[j] = [k \in Slots |-> (j - 1) * BLOCK_SIZE + k + 1]
      BY <3>1 DEF B, Blocks, Straight
    <3>3. ASSUME NEW k \in Slots
          PROVE  PaddedByte(n, (j - 1) * BLOCK_SIZE + k + 1) = (j - 1) * BLOCK_SIZE + k + 1
      <4>1. (j - 1) * BLOCK_SIZE + k + 1 <= n
        BY <3>1, BlockSize
      <4>2. QED
        BY <4>1 DEF PaddedByte
    <3>4. QED
      BY <1>4, <2>1, <3>2, <3>3
  <2>2. CASE j = q + 1
    <3>1. (B \o L)[j] = last
      <4>1. ~(j <= q) /\ j - q = 1
        BY <2>2
      <4>2. QED
        BY <1>2, <1>4, <4>1
    <3>2. (j - 1) * BLOCK_SIZE = q * BLOCK_SIZE
      BY <2>2
    <3>3. last = [k \in Slots |-> PaddedByte(n, q * BLOCK_SIZE + k + 1)]
      BY DEF Block
    <3>4. QED
      BY <3>1, <3>2, <3>3
  <2>3. j <= q \/ j = q + 1
    OBVIOUS
  <2>4. QED
    BY <2>1, <2>2, <2>3
<1>6. /\ Padded(n) \in Seq(Block) /\ Len(Padded(n)) = q + 1
      /\ \A j \in 1 .. q + 1 : Padded(n)[j] = (B \o L)[j]
  <2>1. \A j \in 1 .. q + 1 : (B \o L)[j] \in Block
    BY <1>4, ElementOfSeq
  <2> HIDE DEF n
  <2>2. \A j \in 1 .. q + 1 : [k \in Slots |-> PaddedByte(n, (j - 1) * BLOCK_SIZE + k + 1)] \in Block
    BY <1>5, <2>1
  <2> DEFINE P(j) == [k \in Slots |-> PaddedByte(n, (j - 1) * BLOCK_SIZE + k + 1)]
  <2>3. Padded(n) = [j \in 1 .. q + 1 |-> P(j)] /\ \A j \in 1 .. q + 1 : P(j) \in Block /\ P(j) = (B \o L)[j]
    BY <1>3, <1>5, <2>2
  <2> HIDE DEF P
  <2>4. \A j \in 1 .. q + 1 : Padded(n)[j] = (B \o L)[j]
    BY <2>3
  <2>5. q + 1 \in Nat /\ DOMAIN Padded(n) = 1 .. q + 1
    BY <2>3
  <2>6. Padded(n) \in [1 .. q + 1 -> Block]
    BY <2>3
  <2>7. Padded(n) \in Seq(Block) /\ Len(Padded(n)) = q + 1
    BY <2>5, <2>6
  <2>8. QED
    BY <2>4, <2>7
<1>7. B \o L = Padded(n)
  BY <1>4, <1>6, SeqEqual
<1>8. QED
  BY <1>7 DEF B, L

\* keccak_final completes the padded message.
LEMMA FinalInd == IndInv /\ keccak_final => IndInv'
<1> SUFFICES ASSUME IndInv, keccak_final PROVE IndInv'
  OBVIOUS
<1> DEFINE last == Or(Or(Cleared, rest, PadFirst), BLOCK_SIZE - 1, PadLast)
<1>1. /\ phase = "open" /\ phase' = "final" /\ fed' = fed /\ rest' = rest /\ round' = round
      /\ absorbed' = absorbed /\ queue = <<>> /\ message' = last /\ queue' = <<last>>
  BY DEF keccak_final, Called
<1>2. /\ fed \in Nat /\ rest \in Slots /\ message \in Block /\ absorbed \in Seq(Block)
      /\ round \in 0 .. Rounds
  BY DEF IndInv, TypeOK
<1>3. PICK q \in Nat : /\ q = fed \div BLOCK_SIZE /\ fed = q * BLOCK_SIZE + rest
                       /\ absorbed \o queue = Blocks(q)
                       /\ \A k \in Slots : k < rest => message[k] = q * BLOCK_SIZE + k + 1
  BY <1>1, OpenState
<1>4. absorbed = Blocks(q)
  BY <1>1, <1>2, <1>3, ConcatEmptySeq
<1> DEFINE one == Or(Cleared, rest, PadFirst)
<1>5. /\ Cleared \in Block
      /\ \A k \in Slots : Cleared[k] = IF k >= rest THEN Zero ELSE message[k]
  BY <1>2 DEF Cleared, Block, Zero
<1>6. /\ one \in Block
      /\ \A k \in Slots : one[k] = IF k = rest THEN Cleared[k] + PadFirst ELSE Cleared[k]
  BY <1>2, <1>5 DEF Or, Block, PadFirst
<1>7. /\ last \in Block
      /\ \A k \in Slots : last[k] = IF k = BLOCK_SIZE - 1 THEN one[k] + PadLast ELSE one[k]
  <2> HIDE DEF one
  <2>1. BLOCK_SIZE - 1 \in Slots
    BY BlockSize
  <2>2. last = Or(one, BLOCK_SIZE - 1, PadLast)
    BY DEF one
  <2> HIDE DEF last
  <2>3. QED
    BY <1>6, <2>1, <2>2 DEF Or, Block, PadLast
<1> HIDE DEF one, last
<1>8. ASSUME NEW k \in Slots
      PROVE  last[k] = PaddedByte(q * BLOCK_SIZE + rest, q * BLOCK_SIZE + k + 1)
  <2>1. (q * BLOCK_SIZE + rest) \div BLOCK_SIZE = q
    BY <1>2, DivisionUnique
  <2>2. q * BLOCK_SIZE + k + 1 = (q + 1) * BLOCK_SIZE <=> k = BLOCK_SIZE - 1
    BY BlockSize
  <2>3. q * BLOCK_SIZE + k + 1 = (q * BLOCK_SIZE + rest) + 1 <=> k = rest
    BY <1>2, BlockSize
  <2>4. q * BLOCK_SIZE + k + 1 <= q * BLOCK_SIZE + rest <=> k < rest
    BY <1>2, BlockSize
  <2>5. CASE k < rest
    <3>1. k # rest /\ k # BLOCK_SIZE - 1 /\ ~(k >= rest)
      BY <1>2, <2>5, BlockSize
    <3>2. last[k] = q * BLOCK_SIZE + k + 1
      BY <1>3, <1>5, <1>6, <1>7, <2>5, <3>1
    <3>3. QED
      BY <2>4, <2>5, <3>2 DEF PaddedByte
  <2>6. CASE ~(k < rest)
    <3>1. Cleared[k] = 0
      <4>1. k >= rest
        BY <1>2, <2>6, BlockSize
      <4>2. QED
        BY <1>5, <4>1 DEF Zero
    <3>2. PaddedByte(q * BLOCK_SIZE + rest, q * BLOCK_SIZE + k + 1) =
            (IF k = rest THEN PadFirst ELSE 0) + (IF k = BLOCK_SIZE - 1 THEN PadLast ELSE 0)
      BY <2>1, <2>2, <2>3, <2>4, <2>6 DEF PaddedByte
    <3>3. QED
      BY <1>6, <1>7, <3>1, <3>2 DEF PadFirst, PadLast
  <2>7. QED
    BY <2>5, <2>6
<1>9. absorbed' \o queue' = Padded(fed')
  BY <1>1, <1>2, <1>3, <1>4, <1>7, <1>8, PaddedIs
<1>10. queue' \in Seq(Block) /\ queue' # <<>>
  BY <1>1, <1>7
<1>11. QED
  BY <1>1, <1>2, <1>7, <1>9, <1>10 DEF IndInv, TypeOK, Buffered

\* keccak_init leaves nothing of an earlier message or of the memory.
LEMMA KeccakInitInd == IndInv /\ keccak_init => IndInv'
<1> SUFFICES ASSUME IndInv, keccak_init PROVE IndInv'
  OBVIOUS
<1>1. /\ phase' = "open" /\ fed' = 0 /\ rest' = 0 /\ absorbed' = <<>> /\ queue = <<>>
      /\ queue' = queue /\ round' = round /\ message' = [k \in Slots |-> Zero]
  BY DEF keccak_init, Called
<1>2. round = 0 /\ 0 \in Slots /\ message' \in Block /\ 0 \in 0 .. Rounds
  BY <1>1, BlockSize DEF IndInv, Block, Zero, Rounds
<1>3. 0 \div BLOCK_SIZE = 0 /\ 0 % BLOCK_SIZE = 0 /\ \A k \in Slots : ~(k < 0)
  BY BlockSize
<1>4. absorbed' \o queue' = Blocks(0)
  BY <1>1 DEF Blocks
<1>5. QED
  BY <1>1, <1>2, <1>3, <1>4 DEF IndInv, TypeOK, Buffered

\* A block on its way stays between those absorbed and those queued.
LEMMA MixInd == IndInv /\ MixBlock => IndInv'
BY DEF IndInv, TypeOK, Buffered, MixBlock, stream, Rounds

\* A block whose rounds are done goes from the queue to those absorbed.
LEMMA PermuteInd == IndInv /\ Permute => IndInv'
<1> SUFFICES ASSUME IndInv, Permute PROVE IndInv'
  OBVIOUS
<1>1. /\ round > 0 /\ phase' = phase /\ fed' = fed /\ rest' = rest /\ message' = message
      /\ queue \in Seq(Block) /\ absorbed \in Seq(Block) /\ round \in 0 .. Rounds /\ queue # <<>>
  BY DEF IndInv, TypeOK, Permute, stream
<1>2. CASE round < Rounds
  <2>1. round' = round + 1 /\ queue' = queue /\ absorbed' = absorbed
    BY <1>2 DEF Permute
  <2>2. QED
    BY <1>1, <1>2, <2>1 DEF IndInv, TypeOK, Buffered, Rounds
<1>3. CASE ~(round < Rounds)
  <2>1. round' = 0 /\ queue' = Tail(queue) /\ absorbed' = Append(absorbed, Head(queue))
    BY <1>3 DEF Permute
  <2>2. /\ absorbed' \o queue' = absorbed \o queue
        /\ absorbed' \in Seq(Block) /\ queue' \in Seq(Block) /\ round' \in 0 .. Rounds
    BY <1>1, <2>1, MoveHead DEF Rounds
  <2>3. QED
    BY <1>1, <2>1, <2>2 DEF IndInv, TypeOK, Buffered
<1>4. QED
  BY <1>2, <1>3

\* Whatever the memory holds before keccak_init.
LEMMA InitInd == Init => IndInv
<1> SUFFICES ASSUME Init PROVE IndInv
  OBVIOUS
<1>1. rest \in Slots /\ message \in Block
  BY BlockSize DEF Init, Block, Stale
<1>2. QED
  BY <1>1 DEF Init, IndInv, TypeOK, Buffered, Rounds

\* Stuttering keeps the invariant.
LEMMA StutterInd == IndInv /\ UNCHANGED vars => IndInv'
BY DEF IndInv, TypeOK, Buffered, vars

\* Between any two steps of keccak_init, keccak_update and keccak_final the
\* blocks absorbed and queued are those of the message fed so far.
THEOREM Inductive == Spec => []IndInv
<1>1. ASSUME IndInv, NEW size \in Chunks, keccak_update(size) PROVE IndInv'
  <2>1. size \in Nat
    <3>1. \A top : 0 .. top \subseteq Nat
      OBVIOUS
    <3>2. QED
      BY <3>1, ChunksAssumption
  <2>2. QED
    BY <1>1, <2>1, FillInd, ThroughInd DEF keccak_update
<1>2. IndInv /\ [Next]_vars => IndInv'
  BY <1>1, KeccakInitInd, FinalInd, MixInd, PermuteInd, StutterInd DEF Next
<1>3. QED
  BY InitInd, <1>2, PTL DEF Spec

\* However a message is cut into chunks, keccak_update and keccak_final absorb
\* the blocks of the padded message.
THEOREM ChunksAbsorbed == Spec => []ChunksDoNotMatter
<1>1. IndInv => ChunksDoNotMatter
  BY ConcatEmptySeq DEF IndInv, TypeOK, ChunksDoNotMatter, Digested, Called
<1>2. QED
  BY <1>1, Inductive, PTL
=============================================================================
