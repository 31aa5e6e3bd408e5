---------------------------- MODULE SolanaLayout ----------------------------
(***************************************************************************)
(* validate_signature_solana, validate_solana_signed_message and           *)
(* read_varint_u16 of c/auth.c: where in the 512 bytes of a Solana         *)
(* signature the code looks for the number of keys, the blockhash and the  *)
(* signers.                                                                *)
(*                                                                         *)
(* Offsets count from signed_msg, the 98th byte of the signature.  Of the  *)
(* bytes, only those that decide are modelled: the declared length, the    *)
(* first byte of the message, the three behind its header, and where the   *)
(* message to sign and the public key occur.                               *)
(***************************************************************************)
EXTENDS Common, Sequences

CONSTANTS
    Signatures,  \* the signatures looked at
    SIZE_T       \* how many values a size_t has

HEADER    == 3
BLOCKHASH == 32
PUBKEY    == 32
WRAPPED   == 512
UNWRAPPED == 510
BEFORE    == 64 + PUBKEY  \* signature and public key in front of the message

UINT16 == 0 .. 256 * 256 - 1

\* No offset below wraps round: 65535 keys take less than four megabytes.
ASSUME SizeAssumption == SIZE_T \in Nat /\ SIZE_T > 64 * 256 * 256

\* declared is the length in the first two bytes; blockhashes and keys are the
\* offsets at which the message to sign and the public key stand, signed says
\* that the key's signature of the declared message is right.
IsSignature(t) ==
    /\ t.size \in Nat
    /\ t.declared \in UINT16
    /\ t.num_signers \in Byte
    /\ t.varint \in [1 .. 3 -> Byte]
    /\ t.blockhashes \subseteq Nat
    /\ t.keys \subseteq Nat
    /\ t.signed \in BOOLEAN

ASSUME SignaturesAssumption == \A t \in Signatures : IsSignature(t)

VARIABLES
    s,
    pc,
    i,         \* the bytes of the varint read, then the signers looked at
    num_keys,  \* acc of read_varint_u16
    shift,     \* pub_key_ptr: bytes the varint takes
    reach,     \* the end of the furthest bytes compared
    ret

vars == <<s, pc, i, num_keys, shift, reach, ret>>

Pending == 1

Init ==
    /\ s \in Signatures
    /\ pc = "sizes"
    /\ i = 0 /\ num_keys = 0 /\ shift = 0 /\ reach = 0
    /\ ret = Pending

Return(code) ==
    /\ pc' = "done"
    /\ ret' = code
    /\ UNCHANGED <<s, i, num_keys, shift>>

Goto(step) == pc' = step /\ UNCHANGED <<s, ret>>

\* A read outside the VM's memory ends the process.
ERROR_VM == -1000

\* signed_msg_len, an unsigned difference.
SignedMsgLen(declared) == (declared - BEFORE) % SIZE_T

Wraps(declared) == declared < BEFORE

\* validate_signature_solana up to the layout, and the layout's first check.
CheckSizes ==
    /\ pc = "sizes"
    /\ \/ /\ \/ s.size # WRAPPED
             \/ s.declared > UNWRAPPED
             \/ SignedMsgLen(s.declared) <= HEADER + BLOCKHASH
          /\ Return(ERROR_INVALID_ARG)
          /\ UNCHANGED reach
       \/ /\ s.size = WRAPPED
          /\ s.declared <= UNWRAPPED
          /\ SignedMsgLen(s.declared) > HEADER + BLOCKHASH
          /\ Goto("varint")
          /\ UNCHANGED <<i, num_keys, shift, reach>>

SevenBits(byte) == byte % 128

\* What byte k of the varint is shifted by.
Weight(k) == <<1, 128, 128 * 128>>[k + 1]

\* maximum_value of the last byte: sixteen bits less twice seven.
LastByteFits(byte) == byte <= 3

\* One round of read_varint_u16; the message is long enough for three.  The
\* third byte has room for two bits.
ReadVarint ==
    /\ pc = "varint"
    /\ LET byte == s.varint[i + 1]
       IN  \/ /\ i = 2 /\ ~LastByteFits(byte)
              /\ Return(ERROR_INVALID_ARG)
              /\ UNCHANGED reach
           \/ /\ i < 2 \/ LastByteFits(byte)
              /\ num_keys' = num_keys + SevenBits(byte) * Weight(i)
              /\ IF byte < 128
                 THEN i' = 0 /\ shift' = i + 1 /\ Goto("keys")
                 ELSE i' = i + 1 /\ UNCHANGED shift /\ Goto("varint")
              /\ UNCHANGED reach

\* Where the blockhash is looked for.
BlockhashAt == HEADER + shift + PUBKEY * num_keys

SignerAt(k) == HEADER + shift + PUBKEY * k

\* What memcmp may find at offset at, when the bytes looked for stand at the
\* offsets given: outside the signature anything, or no memory at all.
Found(at, offsets) ==
    IF 2 + BEFORE + at + PUBKEY <= WRAPPED
    THEN {IF at \in offsets THEN "same" ELSE "other"}
    ELSE {"same", "other", "fault"}

Touch(at) == reach' = IF at + PUBKEY > reach THEN at + PUBKEY ELSE reach

\* Mutant: the blockhash may overlap the end of the message.
KeysFitShort == SignedMsgLen(s.declared) > BlockhashAt

KeysFit == SignedMsgLen(s.declared) > BlockhashAt + BLOCKHASH

\* The keys and the blockhash fit the message, and the blockhash is right.
CheckBlockhash ==
    /\ pc = "keys"
    /\ \/ ~KeysFit /\ Return(ERROR_INVALID_ARG) /\ UNCHANGED reach
       \/ /\ KeysFit
          /\ Touch(BlockhashAt)
          /\ \E found \in Found(BlockhashAt, s.blockhashes) :
               \/ found = "fault" /\ Return(ERROR_VM)
               \/ found = "other" /\ Return(ERROR_INVALID_ARG)
               \/ /\ found = "same"
                  /\ Goto("signers")
                  /\ UNCHANGED <<i, num_keys, shift>>

\* Mutant: the first slot is passed over.
FirstSignerSkipped(k) == SignerAt(k + 1)

SignerSlot(k) == SignerAt(k)

\* Mutant: the bound is included, which no uint8_t passes when it is 255.
SignersLeftToo(k) == k <= s.num_signers

SignersLeft(k) == k < s.num_signers

\* One round of the loop over the signers; i is a uint8_t.
CheckSigner ==
    /\ pc = "signers"
    /\ \/ ~SignersLeft(i) /\ Return(ERROR_INVALID_ARG) /\ UNCHANGED reach
       \/ /\ SignersLeft(i)
          /\ Touch(SignerSlot(i))
          /\ \E found \in Found(SignerSlot(i), s.keys) :
               \/ found = "fault" /\ Return(ERROR_VM)
               \/ found = "other" /\ i' = (i + 1) % 256 /\ Goto("signers") /\ UNCHANGED <<num_keys, shift>>
               \/ found = "same" /\ Goto("verify") /\ UNCHANGED <<i, num_keys, shift>>

\* Mutant: the result of the verification is not looked at.
VerifyUnchecked ==
    /\ pc = "verify"
    /\ \/ Wraps(s.declared) /\ Return(ERROR_VM)
       \/ ~Wraps(s.declared) /\ Return(0)
    /\ UNCHANGED reach

\* ed25519_verify over signed_msg_len bytes; a length that wrapped round takes
\* it out of the memory.
Verify ==
    /\ pc = "verify"
    /\ \/ Wraps(s.declared) /\ Return(ERROR_VM)
       \/ ~Wraps(s.declared) /\ ~s.signed /\ Return(ERROR_WRONG_STATE)
       \/ ~Wraps(s.declared) /\ s.signed /\ Return(0)
    /\ UNCHANGED reach

Step == CheckSizes \/ ReadVarint \/ CheckBlockhash \/ CheckSigner \/ Verify

Done == pc = "done" /\ UNCHANGED vars

Next == Step \/ Done

Spec == Init /\ [][Next]_vars /\ WF_vars(Step)

-----------------------------------------------------------------------------
\* Properties

\* How Solana writes a number of keys (short_vec): seven bits a byte, the
\* lowest first, the high bit set on all but the last.
ShortVec(n) ==
    IF n < 128 THEN <<n>>
    ELSE IF n < 128 * 128 THEN <<128 + (n % 128), n \div 128>>
    ELSE <<128 + (n % 128), 128 + ((n \div 128) % 128), n \div (128 * 128)>>

Begins(bytes, prefix) == \A k \in 1 .. Len(prefix) : bytes[k] = prefix[k]

\* A legacy message with n keys, as wallets write it: header, keys, blockhash,
\* instructions; the signers are the first keys.
Written(n) ==
    /\ s.size = WRAPPED
    /\ s.declared <= UNWRAPPED
    /\ Begins(s.varint, ShortVec(n))
    /\ s.num_signers <= n
    /\ s.declared > BEFORE + HEADER + Len(ShortVec(n)) + PUBKEY * n + BLOCKHASH

BlockhashOf(n) == HEADER + Len(ShortVec(n)) + PUBKEY * n
SignersOf(n) == { HEADER + Len(ShortVec(n)) + PUBKEY * k : k \in 0 .. s.num_signers - 1 }

Genuine(n) ==
    /\ BlockhashOf(n) \in s.blockhashes
    /\ SignersOf(n) \cap s.keys # {}
    /\ s.signed

\* A message is accepted exactly when its blockhash is the message to sign, one
\* of its signers is the key, and the key signed it; the number n of keys is
\* what the bytes say, never what was assumed.  510 bytes hold at most eleven.
AcceptsSigned ==
    \A n \in 0 .. 16 :
        Written(n) /\ pc = "done" => (ret = 0 <=> Genuine(n))

\* Whoever wrote it: an accepted signature has a valid signature over a message
\* that holds the message to sign, whole, behind the header, and no declared
\* length below the 96 bytes in front of the message gets through.
AcceptedCoversMessage ==
    ret = 0 =>
        /\ s.signed
        /\ s.declared > BEFORE + HEADER + BLOCKHASH
        /\ \E at \in s.blockhashes :
             at >= HEADER /\ at + BLOCKHASH < s.declared - BEFORE

\* Nothing outside the declared message is compared, unless the declared length
\* wrapped round or the message lists fewer keys than signers: the loop over
\* the signers has no bound but num_signers.
ReadsInside ==
    reach <= s.declared - BEFORE \/ Wraps(s.declared) \/ s.num_signers > num_keys

-----------------------------------------------------------------------------
\* What holds between the steps

TypeOK ==
    /\ IsSignature(s)
    /\ pc \in {"sizes", "varint", "keys", "signers", "verify", "done"}
    /\ i \in Byte
    /\ num_keys \in UINT16
    /\ shift \in 0 .. 3
    /\ reach \in Nat
    /\ ret \in {Pending, 0, ERROR_INVALID_ARG, ERROR_WRONG_STATE, ERROR_VM}

SizesChecked ==
    /\ s.size = WRAPPED
    /\ s.declared <= UNWRAPPED
    /\ SignedMsgLen(s.declared) > HEADER + BLOCKHASH

\* While the varint is read, each byte read said that another one follows.
VarintSoFar ==
    pc = "varint" =>
        /\ i \in 0 .. 2
        /\ num_keys < Weight(i)
        /\ \A k \in 1 .. i : s.varint[k] >= 128
        /\ reach = 0

\* A number below 128 was read from one byte.
VarintRead ==
    pc \in {"keys", "signers", "verify"} =>
        /\ shift \in 1 .. 3
        /\ pc = "keys" => i = 0
        /\ s.varint[1] < 128 => shift = 1 /\ num_keys = s.varint[1]

\* Past the blockhash the keys fit the message, and the blockhash is right
\* unless it was looked for outside the signature.
BlockhashFound ==
    pc \in {"signers", "verify"} =>
        /\ KeysFit
        /\ ~Wraps(s.declared) => BlockhashAt \in s.blockhashes

\* The signers looked at are not the key; the one the loop stopped at is it,
\* as far as they stand in the message.
SignersSoFar ==
    ~Wraps(s.declared) /\ s.num_signers <= num_keys =>
        /\ pc = "signers" => \A k \in 0 .. i - 1 : SignerAt(k) \notin s.keys
        /\ pc = "verify" => i < s.num_signers /\ SignerAt(i) \in s.keys

IndInv ==
    /\ TypeOK
    /\ pc = "sizes" => i = 0 /\ num_keys = 0 /\ reach = 0
    /\ pc \in {"varint", "keys", "signers", "verify"} => SizesChecked
    /\ pc # "done" => ret = Pending
    /\ VarintSoFar
    /\ VarintRead
    /\ BlockhashFound
    /\ SignersSoFar
    /\ AcceptsSigned
    /\ AcceptedCoversMessage
    /\ ReadsInside

\* Each call comes to a result.
AlwaysEnds == <>(pc = "done")
=============================================================================
