---------------------------- MODULE SolanaProofs ----------------------------
(***************************************************************************)
(* Proofs about SolanaLayout, for any signatures and any size_t: genuine   *)
(* messages are accepted, accepted ones cover the message to sign, and     *)
(* what is compared lies in the declared message.                          *)
(***************************************************************************)
EXTENDS SolanaLayout, TLAPS

\* A declared length of 96 or more does not wrap round.
LEMMA LengthOf ==
  ASSUME NEW d \in UINT16, ~Wraps(d)
  PROVE  SignedMsgLen(d) = d - BEFORE
<1>1. d - BEFORE \in Nat /\ d - BEFORE < SIZE_T /\ SIZE_T \in Nat
  BY SizeAssumption DEF Wraps, BEFORE, PUBKEY, UINT16
<1>2. \A x, y \in Nat : x < y => x % y = x
  OBVIOUS
<1>3. QED
  BY <1>1, <1>2 DEF SignedMsgLen

\* Every length, wrapped round or not, is a number.
LEMMA LengthNat ==
  ASSUME NEW d \in Nat
  PROVE  SignedMsgLen(d) \in Nat
<1>1. d - BEFORE \in Int /\ SIZE_T \in Nat /\ SIZE_T > 0
  BY SizeAssumption DEF BEFORE, PUBKEY
<1>2. QED
  BY <1>1 DEF SignedMsgLen

\* The declared length takes two bytes.
LEMMA DeclaredNat ==
  ASSUME NEW t, IsSignature(t)
  PROVE  t.declared \in UINT16 /\ t.declared \in Nat
<1>1. UINT16 \subseteq Nat
  BY DEF UINT16
<1>2. QED
  BY <1>1 DEF IsSignature

\* A message as wallets write it has at most twelve keys, and their number
\* takes one byte.
LEMMA WrittenShort ==
  ASSUME NEW n \in 0 .. 16, IsSignature(s), Written(n)
  PROVE  /\ ~Wraps(s.declared) /\ SizesChecked
         /\ s.varint[1] = n /\ s.num_signers <= n
         /\ s.declared - BEFORE > HEADER + 1 + PUBKEY * n + BLOCKHASH
         /\ BlockhashOf(n) = HEADER + 1 + PUBKEY * n
         /\ SignersOf(n) = { HEADER + 1 + PUBKEY * k : k \in 0 .. s.num_signers - 1 }
<1>1. ShortVec(n) = <<n>> /\ Len(ShortVec(n)) = 1
  BY DEF ShortVec
<1>2. s.varint[1] = n
  BY <1>1 DEF Written, Begins
<1>3. /\ s.declared \in UINT16 /\ s.declared \in Nat
      /\ s.declared > BEFORE + HEADER + 1 + PUBKEY * n + BLOCKHASH
  BY <1>1, DeclaredNat DEF Written
<1>4. ~Wraps(s.declared)
  BY <1>3 DEF Wraps, BEFORE, PUBKEY, HEADER, BLOCKHASH
<1>5. SignedMsgLen(s.declared) = s.declared - BEFORE
  BY <1>3, <1>4, LengthOf
<1>6. SizesChecked
  BY <1>3, <1>5 DEF SizesChecked, Written, BEFORE, PUBKEY, HEADER, BLOCKHASH
<1>7. s.declared - BEFORE > HEADER + 1 + PUBKEY * n + BLOCKHASH
  BY <1>3 DEF BEFORE, PUBKEY, HEADER, BLOCKHASH
<1>8. QED
  BY <1>1, <1>2, <1>4, <1>6, <1>7 DEF Written, BlockhashOf, SignersOf

\* Returning an error keeps the invariant when no genuine message is refused.
LEMMA RefuseInd ==
  ASSUME IndInv,
         NEW code \in {ERROR_INVALID_ARG, ERROR_WRONG_STATE, ERROR_VM}, Return(code),
         reach' \in Nat, ReadsInside',
         \A n \in 0 .. 16 : Written(n) => ~Genuine(n)
  PROVE  IndInv'
<1>1. code # 0
  BY DEF ERROR_INVALID_ARG, ERROR_WRONG_STATE, ERROR_VM
<1>2. /\ pc' = "done" /\ ret' = code /\ s' = s /\ i' = i /\ num_keys' = num_keys /\ shift' = shift
  BY DEF Return
<1>3. TypeOK'
  BY <1>2 DEF IndInv, TypeOK
<1>4. AcceptsSigned'
  BY <1>1, <1>2 DEF AcceptsSigned, Written, Genuine, BlockhashOf, SignersOf
<1>5. AcceptedCoversMessage'
  BY <1>1, <1>2 DEF AcceptedCoversMessage
<1>6. VarintSoFar' /\ VarintRead' /\ BlockhashFound' /\ SignersSoFar'
  BY <1>2 DEF VarintSoFar, VarintRead, BlockhashFound, SignersSoFar
<1>7. QED
  BY <1>2, <1>3, <1>4, <1>5, <1>6 DEF IndInv

\* Initially nothing was read.
LEMMA InitInd == Init => IndInv
<1> SUFFICES ASSUME Init PROVE IndInv
  OBVIOUS
<1>1. TypeOK
  BY SignaturesAssumption DEF Init, TypeOK, Byte, UINT16
<1>2. ReadsInside
  <2>1. s.declared \in Nat
    BY <1>1, DeclaredNat DEF TypeOK
  <2>2. QED
    BY <2>1 DEF Init, ReadsInside, Wraps, BEFORE, PUBKEY
<1>3. AcceptsSigned /\ AcceptedCoversMessage
  BY DEF Init, AcceptsSigned, AcceptedCoversMessage, Pending
<1>4. QED
  BY <1>1, <1>2, <1>3 DEF Init, IndInv, VarintSoFar, VarintRead, BlockhashFound, SignersSoFar

\* Going on keeps the invariant's claims about results.
LEMMA GoOn ==
  ASSUME IndInv, pc # "done", s' = s, ret' = ret, pc' # "done"
  PROVE  AcceptsSigned' /\ AcceptedCoversMessage' /\ IsSignature(s')
BY DEF IndInv, TypeOK, AcceptsSigned, AcceptedCoversMessage, Pending

\* The sizes that are refused are those of no written message.
LEMMA SizesInd == IndInv /\ CheckSizes => IndInv'
<1> SUFFICES ASSUME IndInv, CheckSizes PROVE IndInv'
  OBVIOUS
<1>0. pc = "sizes" /\ ret = Pending /\ IsSignature(s) /\ TypeOK
  BY DEF CheckSizes, IndInv, TypeOK
<1>1. CASE ~SizesChecked
  <2>1. Return(ERROR_INVALID_ARG) /\ reach' = reach
    BY <1>1 DEF CheckSizes, SizesChecked
  <2>2. reach' \in Nat /\ ReadsInside'
    BY <2>1 DEF IndInv, TypeOK, ReadsInside, Return
  <2>3. QED
    BY <1>0, <1>1, <2>1, <2>2, RefuseInd, WrittenShort
<1>2. CASE SizesChecked
  <2>1. /\ pc' = "varint" /\ s' = s /\ ret' = ret
        /\ i' = i /\ num_keys' = num_keys /\ shift' = shift /\ reach' = reach
    <3>1. s.declared \in Nat /\ SignedMsgLen(s.declared) \in Nat
      BY <1>0, DeclaredNat, LengthNat
    <3>2. QED
      BY <1>2, <3>1 DEF CheckSizes, SizesChecked, Goto, UNWRAPPED, HEADER, BLOCKHASH
  <2>2. i = 0 /\ num_keys = 0 /\ reach = 0
    BY <1>0 DEF IndInv
  <2>3. TypeOK'
    BY <1>0, <2>1 DEF TypeOK
  <2>4. ReadsInside'
    BY <2>1 DEF IndInv, ReadsInside
  <2>5. VarintSoFar'
    BY <2>1, <2>2 DEF VarintSoFar, Weight
  <2>6. QED
    BY <1>0, <1>2, <2>1, <2>3, <2>4, <2>5, GoOn
    DEF IndInv, SizesChecked, VarintRead, BlockhashFound, SignersSoFar
<1>3. QED
  BY <1>1, <1>2

\* A varint of three bytes does not overflow sixteen bits: the last byte read
\* is at most three.
LEMMA VarintSum ==
  ASSUME NEW k \in 0 .. 2, NEW acc \in Nat, acc < Weight(k), NEW b \in Byte, k < 2 \/ b <= 3
  PROVE  /\ acc + SevenBits(b) * Weight(k) \in UINT16
         /\ k < 2 => acc + SevenBits(b) * Weight(k) < Weight(k + 1)
         /\ k = 0 /\ b < 128 => acc + SevenBits(b) * Weight(k) = b
         /\ b >= 128 => k < 2
<1> DEFINE x == SevenBits(b)
<1>1. x \in 0 .. 127 /\ (b < 128 => x = b) /\ b \in Nat
  BY DEF SevenBits, Byte
<1>w. Weight(0) = 1 /\ Weight(1) = 128 /\ Weight(2) = 128 * 128
  BY DEF Weight
<1>u. \A z \in Nat : z < 256 * 256 => z \in UINT16
  <2>1. \A top \in Nat : \A z \in Nat : z < top => z \in 0 .. top - 1
    OBVIOUS
  <2>2. 256 * 256 \in Nat
    OBVIOUS
  <2>3. QED
    BY <2>1, <2>2 DEF UINT16
<1> HIDE DEF x
<1>2. CASE k = 0
  <2>1. acc = 0 /\ Weight(k) = 1 /\ Weight(k + 1) = 128
    BY <1>2, <1>w
  <2>2. acc + x * 1 = x /\ x \in Nat /\ x < 128 /\ x < 256 * 256
    BY <1>1, <2>1
  <2>3. QED
    BY <1>1, <1>2, <1>u, <2>1, <2>2 DEF x
<1>3. CASE k = 1
  <2>1. acc < 128 /\ Weight(k) = 128 /\ Weight(k + 1) = 128 * 128
    BY <1>3, <1>w
  <2>2. acc + x * 128 \in Nat /\ acc + x * 128 < 128 * 128 /\ acc + x * 128 < 256 * 256
    BY <1>1, <2>1
  <2>3. QED
    BY <1>1, <1>3, <1>u, <2>1, <2>2 DEF x
<1>4. CASE k = 2
  <2>1. b <= 3 /\ x <= 3 /\ acc < 128 * 128 /\ Weight(k) = 128 * 128
    BY <1>1, <1>4, <1>w
  <2>2. acc + x * (128 * 128) \in Nat /\ acc + x * (128 * 128) < 256 * 256
    BY <1>1, <2>1
  <2>3. QED
    BY <1>1, <1>4, <1>u, <2>1, <2>2 DEF x
<1>5. QED
  BY <1>2, <1>3, <1>4

\* A byte of the varint refused is not one of a written message.
LEMMA VarintInd == IndInv /\ ReadVarint => IndInv'
<1> SUFFICES ASSUME IndInv, ReadVarint PROVE IndInv'
  OBVIOUS
<1> DEFINE byte == s.varint[i + 1]
<1>0. pc = "varint" /\ ret = Pending /\ IsSignature(s) /\ TypeOK /\ SizesChecked
  BY DEF ReadVarint, IndInv, TypeOK
<1>1. /\ i \in 0 .. 2 /\ num_keys \in Nat /\ num_keys < Weight(i) /\ reach = 0
      /\ \A k \in 1 .. i : s.varint[k] >= 128
  <2>1. UINT16 \subseteq Nat
    BY DEF UINT16
  <2>2. QED
    BY <1>0, <2>1 DEF IndInv, VarintSoFar, TypeOK
<1>2. byte \in Byte
  BY <1>0, <1>1 DEF IsSignature
<1>3. s.declared \in Nat
  BY <1>0, DeclaredNat
<1>4. CASE i = 2 /\ ~LastByteFits(byte) /\ Return(ERROR_INVALID_ARG) /\ reach' = reach
  <2>1. reach' \in Nat /\ ReadsInside'
    BY <1>1, <1>3, <1>4 DEF ReadsInside, Return, Wraps, BEFORE, PUBKEY
  <2>2. s.varint[1] >= 128
    BY <1>1, <1>4
  <2>3. \A n \in 0 .. 16 : ~Written(n)
    BY <1>0, <2>2, WrittenShort
  <2>4. QED
    BY <1>4, <2>1, <2>3, RefuseInd
<1>5. CASE /\ i < 2 \/ LastByteFits(byte)
           /\ num_keys' = num_keys + SevenBits(byte) * Weight(i)
           /\ IF byte < 128
              THEN i' = 0 /\ shift' = i + 1 /\ Goto("keys")
              ELSE i' = i + 1 /\ UNCHANGED shift /\ Goto("varint")
           /\ UNCHANGED reach
  <2>1. s' = s /\ ret' = ret /\ reach' = 0 /\ pc' \in {"keys", "varint"}
    BY <1>1, <1>5 DEF Goto
  <2>2. /\ num_keys' \in UINT16
        /\ i < 2 => num_keys' < Weight(i + 1)
        /\ i = 0 /\ byte < 128 => num_keys' = byte
        /\ byte >= 128 => i < 2
    <3>1. i < 2 \/ byte <= 3
      BY <1>5 DEF LastByteFits
    <3>2. QED
      BY <1>1, <1>2, <1>5, <3>1, VarintSum
  <2>3. ReadsInside'
    BY <1>3, <2>1 DEF ReadsInside, Wraps, BEFORE, PUBKEY
  <2>4. AcceptsSigned' /\ AcceptedCoversMessage' /\ IsSignature(s')
    BY <1>0, <2>1, GoOn
  <2>5. CASE byte < 128
    <3>1. i' = 0 /\ shift' = i + 1 /\ pc' = "keys"
      BY <1>5, <2>5 DEF Goto
    <3>2. TypeOK'
      BY <1>0, <1>1, <2>1, <2>2, <2>4, <3>1 DEF TypeOK, Byte
    <3>3. VarintRead'
      <4>1. shift' \in 1 .. 3
        BY <1>1, <3>1
      <4>2. ASSUME s.varint[1] < 128 PROVE shift' = 1 /\ num_keys' = s.varint[1]
        <5>1. s.varint[1] \in Nat
          BY <1>0 DEF IsSignature, Byte
        <5>2. i = 0
          BY <1>1, <4>2, <5>1
        <5>3. QED
          BY <2>2, <2>5, <3>1, <5>2
      <4>3. QED
        BY <2>1, <3>1, <4>1, <4>2 DEF VarintRead
    <3>4. QED
      BY <1>0, <2>1, <2>3, <2>4, <3>1, <3>2, <3>3
      DEF IndInv, SizesChecked, VarintSoFar, BlockhashFound, SignersSoFar
  <2>6. CASE ~(byte < 128)
    <3>1. i' = i + 1 /\ shift' = shift /\ pc' = "varint" /\ byte >= 128 /\ i < 2
      BY <1>2, <1>5, <2>2, <2>6 DEF Goto, Byte
    <3>2. TypeOK'
      BY <1>0, <1>1, <2>1, <2>2, <2>4, <3>1 DEF TypeOK, Byte
    <3>3. VarintSoFar'
      <4>1. i' \in 0 .. 2 /\ num_keys' < Weight(i') /\ reach' = 0
        BY <1>1, <2>1, <2>2, <3>1
      <4>2. ASSUME NEW k \in 1 .. i' PROVE s.varint[k] >= 128
        BY <1>1, <3>1
      <4>3. QED
        BY <2>1, <4>1, <4>2 DEF VarintSoFar
    <3>4. QED
      BY <1>0, <2>1, <2>3, <2>4, <3>1, <3>2, <3>3
      DEF IndInv, SizesChecked, VarintRead, BlockhashFound, SignersSoFar
  <2>7. QED
    BY <2>5, <2>6
<1>6. QED
  BY <1>4, <1>5 DEF ReadVarint

\* Inside the declared message memcmp says what stands there.
LEMMA FoundInside ==
  ASSUME NEW at \in Nat, NEW offsets, NEW found \in Found(at, offsets),
         s.declared \in Nat, s.declared <= UNWRAPPED,
         at + PUBKEY <= s.declared - BEFORE
  PROVE  /\ found = "same" => at \in offsets
         /\ found = "other" => at \notin offsets
         /\ found # "fault"
<1>1. 2 + BEFORE + at + PUBKEY <= WRAPPED
  BY DEF BEFORE, PUBKEY, WRAPPED, UNWRAPPED
<1>2. QED
  BY <1>1 DEF Found

\* reach only grows, and as far as what is compared.
LEMMA TouchReach ==
  ASSUME NEW at \in Nat, reach \in Nat, Touch(at)
  PROVE  /\ reach' \in Nat
         /\ \A d \in Int : reach <= d /\ at + PUBKEY <= d => reach' <= d
BY DEF Touch, PUBKEY

\* Offsets are numbers.
LEMMA OffsetsNat ==
  ASSUME TypeOK, NEW k \in Nat
  PROVE  BlockhashAt \in Nat /\ SignerAt(k) \in Nat /\ num_keys \in Nat
<1>1. num_keys \in Nat /\ shift \in Nat
  BY DEF TypeOK, UINT16
<1>2. QED
  BY <1>1 DEF BlockhashAt, SignerAt, HEADER, PUBKEY

\* Keys that fit a message whose length did not wrap round end inside it.
LEMMA KeysInside ==
  ASSUME TypeOK, KeysFit, ~Wraps(s.declared)
  PROVE  BlockhashAt + BLOCKHASH < s.declared - BEFORE
<1>1. SignedMsgLen(s.declared) = s.declared - BEFORE
  BY DeclaredNat, LengthOf DEF TypeOK
<1>2. QED
  BY <1>1, DeclaredNat, OffsetsNat DEF KeysFit, TypeOK, BEFORE, PUBKEY, BLOCKHASH

\* A written message is read as having the keys it has.
LEMMA WrittenRead ==
  ASSUME IndInv, pc \in {"keys", "signers", "verify"}, NEW n \in 0 .. 16, Written(n)
  PROVE  /\ num_keys = n /\ shift = 1 /\ KeysFit /\ ~Wraps(s.declared)
         /\ s.num_signers <= num_keys
         /\ BlockhashOf(n) = BlockhashAt
         /\ SignersOf(n) = { SignerAt(k) : k \in 0 .. s.num_signers - 1 }
<1>0. IsSignature(s)
  BY DEF IndInv, TypeOK
<1>1. /\ ~Wraps(s.declared) /\ s.varint[1] = n /\ s.num_signers <= n
      /\ s.declared - BEFORE > HEADER + 1 + PUBKEY * n + BLOCKHASH
      /\ BlockhashOf(n) = HEADER + 1 + PUBKEY * n
      /\ SignersOf(n) = { HEADER + 1 + PUBKEY * k : k \in 0 .. s.num_signers - 1 }
  BY <1>0, WrittenShort
<1>2. shift = 1 /\ num_keys = n
  BY <1>1 DEF IndInv, VarintRead
<1>3. BlockhashAt = HEADER + 1 + PUBKEY * n /\ \A k : SignerAt(k) = HEADER + 1 + PUBKEY * k
  BY <1>2 DEF BlockhashAt, SignerAt
<1>4. SignedMsgLen(s.declared) = s.declared - BEFORE
  BY <1>0, <1>1, DeclaredNat, LengthOf
<1>5. KeysFit
  BY <1>1, <1>3, <1>4 DEF KeysFit
<1>6. QED
  BY <1>1, <1>2, <1>3, <1>5

\* The blockhash refused is not that of a genuine message.
LEMMA BlockhashInd == IndInv /\ CheckBlockhash => IndInv'
<1> SUFFICES ASSUME IndInv, CheckBlockhash PROVE IndInv'
  OBVIOUS
<1>0. pc = "keys" /\ ret = Pending /\ IsSignature(s) /\ TypeOK /\ SizesChecked /\ reach \in Nat
  BY DEF CheckBlockhash, IndInv, TypeOK
<1>1. s.declared \in Nat /\ s.declared <= UNWRAPPED /\ BlockhashAt \in Nat /\ s.declared - BEFORE \in Int
  BY <1>0, DeclaredNat, OffsetsNat DEF SizesChecked, BEFORE, PUBKEY
<1>2. CASE ~KeysFit
  <2>1. Return(ERROR_INVALID_ARG) /\ reach' = reach
    BY <1>2 DEF CheckBlockhash
  <2>2. reach' \in Nat /\ ReadsInside'
    BY <1>0, <2>1 DEF IndInv, ReadsInside, Return
  <2>3. \A n \in 0 .. 16 : ~Written(n)
    BY <1>0, <1>2, WrittenRead
  <2>4. QED
    BY <2>1, <2>2, <2>3, RefuseInd
<1>3. CASE KeysFit
  <2>1. PICK found \in Found(BlockhashAt, s.blockhashes) :
               \/ found = "fault" /\ Return(ERROR_VM)
               \/ found = "other" /\ Return(ERROR_INVALID_ARG)
               \/ /\ found = "same"
                  /\ Goto("signers")
                  /\ UNCHANGED <<i, num_keys, shift>>
    BY <1>3 DEF CheckBlockhash
  <2>2. Touch(BlockhashAt)
    BY <1>3 DEF CheckBlockhash
  <2>3. ~Wraps(s.declared) => BlockhashAt + PUBKEY <= s.declared - BEFORE
    <3>1. ~Wraps(s.declared) => BlockhashAt + BLOCKHASH < s.declared - BEFORE
      BY <1>0, <1>3, KeysInside
    <3>2. QED
      BY <1>1, <3>1 DEF BLOCKHASH, PUBKEY
  <2>4. ~Wraps(s.declared) => /\ found = "same" => BlockhashAt \in s.blockhashes
                              /\ found = "other" => BlockhashAt \notin s.blockhashes
                              /\ found # "fault"
    BY <1>1, <2>3, FoundInside
  <2>5. s' = s /\ num_keys' = num_keys /\ shift' = shift /\ i' = i
    BY <2>1 DEF Return, Goto
  <2>6. reach' \in Nat /\ ReadsInside'
    <3>1. reach' \in Nat /\ \A d \in Int : reach <= d /\ BlockhashAt + PUBKEY <= d => reach' <= d
      BY <1>0, <1>1, <2>2, TouchReach
    <3>2. QED
      BY <1>1, <2>3, <2>5, <3>1 DEF IndInv, ReadsInside
  <2>7. CASE found # "same"
    <3>1. \A n \in 0 .. 16 : Written(n) => ~Genuine(n)
      BY <1>0, <2>1, <2>4, <2>7, WrittenRead DEF Genuine
    <3>2. QED
      BY <2>1, <2>6, <2>7, <3>1, RefuseInd
  <2>8. CASE found = "same"
    <3>1. pc' = "signers" /\ ret' = ret
      BY <2>1, <2>8 DEF Goto
    <3>2. TypeOK'
      BY <1>0, <2>5, <2>6, <3>1 DEF TypeOK
    <3>3. AcceptsSigned' /\ AcceptedCoversMessage'
      BY <1>0, <2>5, <3>1, GoOn
    <3>4. VarintRead' /\ VarintSoFar'
      BY <1>0, <2>5, <3>1 DEF IndInv, VarintRead, VarintSoFar
    <3>5. BlockhashFound'
      BY <1>3, <2>4, <2>5, <2>8, <3>1 DEF BlockhashFound, KeysFit, BlockhashAt
    <3>6. i = 0
      BY <1>0 DEF IndInv, VarintRead
    <3>7. SignersSoFar'
      BY <2>5, <3>1, <3>6 DEF SignersSoFar
    <3>8. QED
      BY <1>0, <2>5, <2>6, <3>1, <3>2, <3>3, <3>4, <3>5, <3>7 DEF IndInv, SizesChecked
  <2>9. QED
    BY <2>7, <2>8
<1>4. QED
  BY <1>2, <1>3

\* The slots of signers that are among the keys lie in front of the blockhash.
LEMMA SignerInside ==
  ASSUME TypeOK, NEW k \in Nat, k < num_keys
  PROVE  SignerAt(k) + PUBKEY <= BlockhashAt
<1>1. num_keys \in Nat /\ shift \in Nat
  BY DEF TypeOK, UINT16
<1>2. QED
  BY <1>1 DEF BlockhashAt, SignerAt, HEADER, PUBKEY

\* The loop over the signers passes over no signer that is the key.
LEMMA SignerInd == IndInv /\ CheckSigner => IndInv'
<1> SUFFICES ASSUME IndInv, CheckSigner PROVE IndInv'
  OBVIOUS
<1>0. /\ pc = "signers" /\ ret = Pending /\ IsSignature(s) /\ TypeOK /\ SizesChecked
      /\ reach \in Nat /\ KeysFit
  BY DEF CheckSigner, IndInv, TypeOK, BlockhashFound
<1>1. /\ s.declared \in Nat /\ s.declared <= UNWRAPPED /\ s.declared - BEFORE \in Int
      /\ i \in Nat /\ s.num_signers \in Nat /\ s.num_signers <= 255 /\ num_keys \in Nat
      /\ BlockhashAt \in Nat
  BY <1>0, DeclaredNat, OffsetsNat DEF SizesChecked, BEFORE, PUBKEY, TypeOK, IsSignature, Byte
<1>i. SignerAt(i) \in Nat
  BY <1>0, <1>1, OffsetsNat
<1>2. CASE ~SignersLeft(i)
  <2>1. Return(ERROR_INVALID_ARG) /\ reach' = reach
    BY <1>2 DEF CheckSigner
  <2>2. reach' \in Nat /\ ReadsInside'
    BY <1>0, <2>1 DEF IndInv, ReadsInside, Return
  <2>3. ASSUME NEW n \in 0 .. 16, Written(n) PROVE ~Genuine(n)
    <3>1. /\ SignersOf(n) = { SignerAt(k) : k \in 0 .. s.num_signers - 1 }
          /\ ~Wraps(s.declared) /\ s.num_signers <= num_keys
      BY <1>0, <2>3, WrittenRead
    <3>2. \A k \in 0 .. i - 1 : SignerAt(k) \notin s.keys
      BY <1>0, <3>1 DEF IndInv, SignersSoFar
    <3>3. 0 .. s.num_signers - 1 \subseteq 0 .. i - 1
      BY <1>1, <1>2 DEF SignersLeft
    <3>4. QED
      BY <3>1, <3>2, <3>3 DEF Genuine
  <2>4. QED
    BY <2>1, <2>2, <2>3, RefuseInd
<1>3. CASE SignersLeft(i)
  <2>1. PICK found \in Found(SignerAt(i), s.keys) :
               \/ found = "fault" /\ Return(ERROR_VM)
               \/ found = "other" /\ i' = (i + 1) % 256 /\ Goto("signers") /\ UNCHANGED <<num_keys, shift>>
               \/ found = "same" /\ Goto("verify") /\ UNCHANGED <<i, num_keys, shift>>
    BY <1>3 DEF CheckSigner, SignerSlot
  <2>2. Touch(SignerAt(i))
    BY <1>3 DEF CheckSigner, SignerSlot
  <2>3. ~Wraps(s.declared) /\ s.num_signers <= num_keys => SignerAt(i) + PUBKEY <= s.declared - BEFORE
    <3>1. SUFFICES ASSUME ~Wraps(s.declared), s.num_signers <= num_keys
                   PROVE  SignerAt(i) + PUBKEY <= s.declared - BEFORE
      OBVIOUS
    <3>2. i < num_keys
      BY <1>1, <1>3, <3>1 DEF SignersLeft
    <3>3. SignerAt(i) + PUBKEY <= BlockhashAt
      BY <1>0, <1>1, <3>2, SignerInside
    <3>4. BlockhashAt + BLOCKHASH < s.declared - BEFORE
      BY <1>0, <3>1, KeysInside
    <3>5. QED
      BY <1>1, <1>i, <3>3, <3>4 DEF PUBKEY, BLOCKHASH
  <2>4. ~Wraps(s.declared) /\ s.num_signers <= num_keys =>
          /\ found = "same" => SignerAt(i) \in s.keys
          /\ found = "other" => SignerAt(i) \notin s.keys
          /\ found # "fault"
    BY <1>1, <1>i, <2>3, FoundInside
  <2>5. s' = s /\ num_keys' = num_keys /\ shift' = shift
    BY <2>1 DEF Return, Goto
  <2>6. reach' \in Nat /\ ReadsInside'
    <3>1. reach' \in Nat /\ \A d \in Int : reach <= d /\ SignerAt(i) + PUBKEY <= d => reach' <= d
      BY <1>0, <1>i, <2>2, TouchReach
    <3>2. QED
      BY <1>1, <2>3, <2>5, <3>1 DEF IndInv, ReadsInside
  <2>7. CASE found \notin {"same", "other"}
    <3>1. \A n \in 0 .. 16 : ~Written(n)
      BY <1>0, <2>1, <2>4, <2>7, WrittenRead
    <3>2. QED
      BY <2>1, <2>6, <2>7, <3>1, RefuseInd
  <2>8. CASE found = "other"
    <3>1. pc' = "signers" /\ ret' = ret /\ i' = i + 1 /\ i' \in Byte
      <4>1. pc' = "signers" /\ ret' = ret /\ i' = (i + 1) % 256
        BY <2>1, <2>8 DEF Goto
      <4>2. i + 1 < 256
        BY <1>1, <1>3 DEF SignersLeft
      <4>3. QED
        BY <1>1, <4>1, <4>2 DEF Byte
    <3>2. TypeOK'
      BY <1>0, <2>5, <2>6, <3>1 DEF TypeOK
    <3>3. AcceptsSigned' /\ AcceptedCoversMessage'
      BY <1>0, <2>5, <3>1, GoOn
    <3>4. VarintRead' /\ VarintSoFar' /\ BlockhashFound'
      BY <1>0, <2>5, <3>1 DEF IndInv, VarintRead, VarintSoFar, BlockhashFound, KeysFit, BlockhashAt
    <3>5. SignersSoFar'
      <4>1. SUFFICES ASSUME ~Wraps(s.declared), s.num_signers <= num_keys, NEW k \in 0 .. i
                     PROVE  SignerAt(k) \notin s.keys
        BY <1>1, <2>5, <3>1 DEF SignersSoFar, SignerAt
      <4>2. k = i \/ k \in 0 .. i - 1
        BY <1>1
      <4>3. QED
        BY <1>0, <2>4, <2>8, <4>1, <4>2 DEF IndInv, SignersSoFar
    <3>6. QED
      BY <1>0, <2>5, <2>6, <3>1, <3>2, <3>3, <3>4, <3>5 DEF IndInv, SizesChecked
  <2>9. CASE found = "same"
    <3>1. pc' = "verify" /\ ret' = ret /\ i' = i
      BY <2>1, <2>9 DEF Goto
    <3>2. TypeOK'
      BY <1>0, <2>5, <2>6, <3>1 DEF TypeOK
    <3>3. AcceptsSigned' /\ AcceptedCoversMessage'
      BY <1>0, <2>5, <3>1, GoOn
    <3>4. VarintRead' /\ VarintSoFar' /\ BlockhashFound'
      BY <1>0, <2>5, <3>1 DEF IndInv, VarintRead, VarintSoFar, BlockhashFound, KeysFit, BlockhashAt
    <3>5. SignersSoFar'
      BY <1>3, <2>4, <2>5, <2>9, <3>1 DEF SignersSoFar, SignerAt, SignersLeft
    <3>6. QED
      BY <1>0, <2>5, <2>6, <3>1, <3>2, <3>3, <3>4, <3>5 DEF IndInv, SizesChecked
  <2>10. QED
    BY <2>7, <2>8, <2>9
<1>4. QED
  BY <1>2, <1>3

\* A message is accepted with all that makes it genuine established.
LEMMA VerifyInd == IndInv /\ Verify => IndInv'
<1> SUFFICES ASSUME IndInv, Verify PROVE IndInv'
  OBVIOUS
<1>0. pc = "verify" /\ ret = Pending /\ IsSignature(s) /\ TypeOK /\ reach' = reach /\ KeysFit
  BY DEF Verify, IndInv, TypeOK, BlockhashFound
<1>1. CASE Wraps(s.declared) /\ Return(ERROR_VM)
  <2>1. reach' \in Nat /\ ReadsInside'
    BY <1>0, <1>1 DEF IndInv, TypeOK, ReadsInside, Return
  <2>2. \A n \in 0 .. 16 : ~Written(n)
    BY <1>0, <1>1, WrittenRead
  <2>3. QED
    BY <1>1, <2>1, <2>2, RefuseInd
<1>2. CASE ~Wraps(s.declared) /\ ~s.signed /\ Return(ERROR_WRONG_STATE)
  <2>1. reach' \in Nat /\ ReadsInside'
    BY <1>0, <1>2 DEF IndInv, TypeOK, ReadsInside, Return
  <2>2. QED
    BY <1>2, <2>1, RefuseInd DEF Genuine
<1>3. CASE ~Wraps(s.declared) /\ s.signed /\ Return(0)
  <2>1. /\ pc' = "done" /\ ret' = 0 /\ s' = s /\ i' = i /\ num_keys' = num_keys /\ shift' = shift
    BY <1>3 DEF Return
  <2>2. TypeOK'
    BY <1>0, <2>1 DEF TypeOK
  <2>3. ReadsInside'
    BY <1>0, <2>1 DEF IndInv, ReadsInside
  <2>4. ASSUME NEW n \in 0 .. 16, Written(n) PROVE Genuine(n)
    <3>1. /\ BlockhashOf(n) = BlockhashAt /\ s.num_signers <= num_keys
          /\ SignersOf(n) = { SignerAt(k) : k \in 0 .. s.num_signers - 1 }
      BY <1>0, <2>4, WrittenRead
    <3>2. BlockhashAt \in s.blockhashes
      BY <1>0, <1>3 DEF IndInv, BlockhashFound
    <3>3. i < s.num_signers /\ SignerAt(i) \in s.keys
      BY <1>0, <1>3, <3>1 DEF IndInv, SignersSoFar
    <3>4. i \in 0 .. s.num_signers - 1
      BY <1>0, <3>3 DEF TypeOK, IsSignature, Byte
    <3>5. QED
      BY <1>3, <3>1, <3>2, <3>3, <3>4 DEF Genuine
  <2>5. AcceptsSigned'
    BY <2>1, <2>4 DEF AcceptsSigned, Written, Genuine, BlockhashOf, SignersOf
  <2>6. AcceptedCoversMessage'
    <3>1. BlockhashAt \in s.blockhashes
      BY <1>0, <1>3 DEF IndInv, BlockhashFound
    <3>2. BlockhashAt + BLOCKHASH < s.declared - BEFORE
      BY <1>0, <1>3, KeysInside
    <3>3. BlockhashAt >= HEADER /\ BlockhashAt \in Nat
      <4>1. num_keys \in Nat /\ shift \in Nat
        BY <1>0 DEF TypeOK, UINT16
      <4>2. QED
        BY <4>1 DEF BlockhashAt, HEADER, PUBKEY
    <3>4. s.declared > BEFORE + HEADER + BLOCKHASH
      BY <1>0, <3>2, <3>3, DeclaredNat DEF HEADER, BLOCKHASH, BEFORE, PUBKEY
    <3>5. QED
      BY <1>3, <2>1, <3>1, <3>2, <3>3, <3>4 DEF AcceptedCoversMessage
  <2>7. QED
    BY <2>1, <2>2, <2>3, <2>5, <2>6
    DEF IndInv, VarintSoFar, VarintRead, BlockhashFound, SignersSoFar
<1>4. QED
  BY <1>1, <1>2, <1>3 DEF Verify

\* Stuttering keeps the invariant.
LEMMA StutterInd == IndInv /\ UNCHANGED vars => IndInv'
BY DEF vars, IndInv, TypeOK, SizesChecked, VarintSoFar, VarintRead, BlockhashFound, SignersSoFar,
       KeysFit, BlockhashAt, SignerAt, AcceptsSigned, Written, Genuine, BlockhashOf, SignersOf,
       AcceptedCoversMessage, ReadsInside

\* The invariant holds in every state of validate_signature_solana: the number
\* of keys fits sixteen bits, the sizes were checked before anything is looked
\* at, and each step knows what the earlier ones established.
THEOREM Inductive == Spec => []IndInv
<1>1. IndInv /\ [Next]_vars => IndInv'
  BY SizesInd, VarintInd, BlockhashInd, SignerInd, VerifyInd, StutterInd DEF Next, Step, Done
<1>2. QED
  BY InitInd, <1>1, PTL DEF Spec

\* A message as wallets write it is accepted exactly when it is genuine.
THEOREM SignedAccepted == Spec => []AcceptsSigned
<1>1. IndInv => AcceptsSigned
  BY DEF IndInv
<1>2. QED
  BY <1>1, Inductive, PTL

\* What is accepted was signed and holds the message to sign, whole.
THEOREM AcceptedCovers == Spec => []AcceptedCoversMessage
<1>1. IndInv => AcceptedCoversMessage
  BY DEF IndInv
<1>2. QED
  BY <1>1, Inductive, PTL

\* Nothing outside the declared message is compared, unless its length wrapped
\* round or there are more signers than keys.
THEOREM ComparesInside == Spec => []ReadsInside
<1>1. IndInv => ReadsInside
  BY DEF IndInv
<1>2. QED
  BY <1>1, Inductive, PTL
=============================================================================
