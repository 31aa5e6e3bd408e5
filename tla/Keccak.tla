-------------------------------- MODULE Keccak --------------------------------
(***************************************************************************)
(* keccak_init, keccak_update and keccak_final of c/ckb_keccak256.h: a     *)
(* message fed in chunks of any size is cut into blocks, the incomplete    *)
(* one waits in ctx->message, the last one is padded, and every block is   *)
(* mixed into ctx->hash by the rounds of KeccakF.                          *)
(*                                                                         *)
(* A byte of the message is its position in the stream, 1, 2, ..., so that *)
(* the blocks show which bytes they hold; its value is Value.  The bytes   *)
(* that are no data are zeros, the two padding bits and their sum.         *)
(***************************************************************************)
EXTENDS KeccakF

CONSTANTS
    Chunks,  \* the sizes of chunks given to keccak_update
    MaxFed,  \* bound: the longest message
    Value    \* the value of every byte of the message

ASSUME ChunksAssumption == Chunks \subseteq 0 .. 256 * 256 - 1

ASSUME BoundsAssumption == MaxFed \in Nat /\ Value \in 0 .. 255

BLOCK_SIZE == (1600 - 256 * 2) \div 8

Zero == 0
PadFirst == -1
PadLast == -128
Stale == -1000    \* what the memory held before keccak_init

Slots == 0 .. BLOCK_SIZE - 1

VARIABLES
    phase,     \* "raw", "open" after keccak_init, "final" after keccak_final
    fed,       \* bytes given to keccak_update so far
    rest,      \* ctx->rest
    message,   \* ctx->message
    hash,      \* ctx->hash
    queue,     \* the blocks the current call has yet to process
    round,     \* of sha3_permutation on the block in hand; 0 before it
    absorbed   \* the blocks processed since keccak_init

stream == <<phase, fed, rest, message>>
vars == <<phase, fed, rest, message, hash, queue, round, absorbed>>

\* Memory on the stack, with anything in it.
Init ==
    /\ phase = "raw"
    /\ fed = 0
    /\ rest \in {0, 1, BLOCK_SIZE - 1}
    /\ message = [k \in Slots |-> Stale]
    /\ hash = [l \in Lanes |-> Bits]
    /\ queue = <<>>
    /\ round = 0
    /\ absorbed = <<>>

Called == queue = <<>>

keccak_init ==
    /\ phase # "open"
    /\ Called
    /\ phase' = "open"
    /\ fed' = 0
    /\ rest' = 0
    /\ message' = [k \in Slots |-> Zero]
    /\ hash' = [l \in Lanes |-> {}]
    /\ absorbed' = <<>>
    /\ UNCHANGED <<queue, round>>

-----------------------------------------------------------------------------
\* n bytes of the stream, from the one behind position p on, put at slot at.
Copy(buffer, at, p, n) ==
    [k \in Slots |-> IF k >= at /\ k < at + n THEN p + (k - at) + 1 ELSE buffer[k]]

\* The block of the stream that starts behind position p.
Straight(p) == [k \in Slots |-> p + k + 1]

\* The first part of keccak_update does not complete the buffered block.
Fill(size) ==
    /\ rest # 0
    /\ size < BLOCK_SIZE - rest
    /\ message' = Copy(message, rest, fed, size)
    /\ UNCHANGED queue

\* The rounds of the loop over whole blocks.
WholeBlocks(size, skip) == (size - skip) \div BLOCK_SIZE

\* The leftovers behind the whole blocks go to the buffer's beginning.
Leftovers(buffer, skip, n, size) ==
    Copy(buffer, 0, fed + skip + n * BLOCK_SIZE, size - (skip + n * BLOCK_SIZE))

\* Otherwise: complete and process the buffered block, process whole blocks
\* straight from the chunk, or by way of the buffer where the chunk is not
\* aligned, and save the leftovers.
Through(size) ==
    LET skip   == IF rest = 0 THEN 0 ELSE BLOCK_SIZE - rest
        filled == IF rest = 0 THEN message ELSE Copy(message, rest, fed, skip)
        first  == IF rest = 0 THEN <<>> ELSE <<filled>>
        n      == WholeBlocks(size, skip)
    IN  /\ size >= skip
        /\ queue' = first \o [j \in 1 .. n |-> Straight(fed + skip + (j - 1) * BLOCK_SIZE)]
        /\ \E aligned \in BOOLEAN :
             LET held == IF aligned \/ n = 0 THEN filled
                         ELSE Straight(fed + skip + (n - 1) * BLOCK_SIZE)
             IN  message' = Leftovers(held, skip, n, size)

Rest(size) == (rest + size) % BLOCK_SIZE

keccak_update(size) ==
    /\ phase = "open"
    /\ Called
    /\ fed + size <= MaxFed
    /\ Fill(size) \/ Through(size)
    /\ fed' = fed + size
    /\ rest' = Rest(size)
    /\ UNCHANGED <<phase, hash, round, absorbed>>

\* Mutant: what an earlier block left in the buffer is not cleared.
ClearedNot == message

Cleared == [k \in Slots |-> IF k >= rest THEN Zero ELSE message[k]]

Or(buffer, k, bit) == [buffer EXCEPT ![k] = @ + bit]

keccak_final ==
    /\ phase = "open"
    /\ Called
    /\ LET last == Or(Or(Cleared, rest, PadFirst), BLOCK_SIZE - 1, PadLast)
       IN  message' = last /\ queue' = <<last>>
    /\ phase' = "final"
    /\ UNCHANGED <<fed, rest, hash, round, absorbed>>

-----------------------------------------------------------------------------
Byte(b) == CASE b = Zero -> 0
             [] b = PadFirst -> 1
             [] b = PadLast -> 128
             [] b = PadFirst + PadLast -> 129
             [] OTHER -> Value

\* Lane l of a block, the lowest byte first.
LaneOf(block, l) == { n \in Bits : (Byte(block[8 * l + (n \div 8)]) \div 2 ^ (n % 8)) % 2 = 1 }

\* Mutant: the last lane of the block is left out.
MixedShort(block) == [l \in Lanes |-> IF l < 16 THEN Xor(hash[l], LaneOf(block, l)) ELSE hash[l]]

Mixed(block) == [l \in Lanes |-> IF l < 17 THEN Xor(hash[l], LaneOf(block, l)) ELSE hash[l]]

\* sha3_process_block: mix the block in,
MixBlock ==
    /\ queue # <<>>
    /\ round = 0
    /\ hash' = Mixed(Head(queue))
    /\ round' = 1
    /\ UNCHANGED <<stream, queue, absorbed>>

\* and permute.
Permute ==
    /\ round > 0
    /\ hash' = sha3_round(hash, round - 1)
    /\ IF round < Rounds
       THEN round' = round + 1 /\ UNCHANGED <<queue, absorbed>>
       ELSE round' = 0 /\ queue' = Tail(queue) /\ absorbed' = Append(absorbed, Head(queue))
    /\ UNCHANGED stream

Next ==
    \/ keccak_init
    \/ \E size \in Chunks : keccak_update(size)
    \/ keccak_final
    \/ MixBlock
    \/ Permute

Spec == Init /\ [][Next]_vars

-----------------------------------------------------------------------------
\* Properties

\* The padded message: its bytes, a first and a last padding bit (in one byte
\* when one byte is free), zeros between.
PaddedByte(n, p) ==
    IF p <= n THEN p
    ELSE (IF p = n + 1 THEN PadFirst ELSE 0)
           + (IF p = ((n \div BLOCK_SIZE) + 1) * BLOCK_SIZE THEN PadLast ELSE 0)

Padded(n) ==
    [j \in 1 .. (n \div BLOCK_SIZE) + 1 |->
        [k \in Slots |-> PaddedByte(n, (j - 1) * BLOCK_SIZE + k + 1)]]

Digested == phase = "final" /\ Called

\* "Can be called repeatedly with chunks of the message to be hashed": however
\* the message was cut, aligned or not, and whatever the memory or an earlier
\* block left in the buffer, keccak_update and keccak_final absorb the blocks
\* of the padded message.
ChunksDoNotMatter == Digested => absorbed = Padded(fed)

\* Each round of sha3_permutation, done in place and from tables, is the round
\* of Keccak-f[1600].
RoundsAreKeccak == [][round > 0 => hash' = KeccakRound(hash, round - 1)]_vars

\* The lanes of the digest, from its bytes.
FromBytes(b) == { n \in Bits : (b[(n \div 8) + 1] \div 2 ^ (n % 8)) % 2 = 1 }

\* Published results: Keccak-256 of the empty message is c5d2460186f7233c
\* 927e7db2dcc703c0 e500b653ca82273b 7bfad8045d85a470; of 200 bytes a3,
\* 3a57666b048777f2 c953dc4456f45a25 88e1cb6f2da76012 2d530ac2ce607d4a.
\* keccak_final copies the first four lanes.
KnownAnswers ==
    Digested =>
      /\ fed = 0 =>
           /\ hash[0] = FromBytes(<<197, 210, 70, 1, 134, 247, 35, 60>>)
           /\ hash[1] = FromBytes(<<146, 126, 125, 178, 220, 199, 3, 192>>)
           /\ hash[2] = FromBytes(<<229, 0, 182, 83, 202, 130, 39, 59>>)
           /\ hash[3] = FromBytes(<<123, 250, 216, 4, 93, 133, 164, 112>>)
      /\ fed = 200 /\ Value = 163 =>
           /\ hash[0] = FromBytes(<<58, 87, 102, 107, 4, 135, 119, 242>>)
           /\ hash[1] = FromBytes(<<201, 83, 220, 68, 86, 244, 90, 37>>)
           /\ hash[2] = FromBytes(<<136, 225, 203, 111, 45, 167, 96, 18>>)
           /\ hash[3] = FromBytes(<<45, 83, 10, 194, 206, 96, 125, 74>>)
-----------------------------------------------------------------------------
\* What holds between the steps

Block == [Slots -> Int]

TypeOK ==
    /\ phase \in {"raw", "open", "final"}
    /\ fed \in Nat
    /\ rest \in Slots
    /\ message \in Block
    /\ queue \in Seq(Block)
    /\ round \in 0 .. Rounds
    /\ absorbed \in Seq(Block)

\* The first q blocks of the message.
Blocks(q) == [j \in 1 .. q |-> Straight((j - 1) * BLOCK_SIZE)]

\* Between the calls the whole blocks are absorbed and the buffer begins with
\* the others of the bytes fed.
Buffered ==
    phase = "open" =>
        /\ rest = fed % BLOCK_SIZE
        /\ absorbed \o queue = Blocks(fed \div BLOCK_SIZE)
        /\ \A k \in Slots : k < rest => message[k] = (fed \div BLOCK_SIZE) * BLOCK_SIZE + k + 1

IndInv ==
    /\ TypeOK
    /\ queue = <<>> => round = 0
    /\ phase = "raw" => queue = <<>>
    /\ Buffered
    /\ phase = "final" => absorbed \o queue = Padded(fed)
===============================================================================
