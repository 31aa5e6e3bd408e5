---------------------------- MODULE MultisigData ----------------------------
(***************************************************************************)
(* The arguments of verify_multisig (c/auth.c) as data, shared by the      *)
(* function (Multisig) and by what it promises (MultisigAuthority).        *)
(*                                                                         *)
(* Bytes are abstracted to what the function tells apart: a public key     *)
(* hash is the key it is the hash of, the 20-byte script hash is the       *)
(* script it commits to, and a 65-byte signature is who signed which       *)
(* message (Recovered).                                                    *)
(***************************************************************************)
EXTENDS Common

CONSTANTS
    Key,        \* keys that appear in a script or sign
    Stranger,   \* the unrelated key recovered from a signature of another message
    Message,    \* the 32-byte messages
    Locks       \* the calls: arguments of verify_multisig and the cell deps

FLAGS_SIZE     == 4
SIGNATURE_SIZE == 65

(***************************************************************************)
(* A signature: whether its recovery id is one of 0..3 (for another one    *)
(* libsecp256k1 calls the illegal callback, which ends the process),       *)
(* whether its 64 bytes parse, whether a curve point exists for them, and  *)
(* else who made it over which message.                                    *)
(***************************************************************************)
Form      == {"signed", "unparsable", "unrecoverable", "bad_recid"}
Signature == [form : Form, by : Key, over : Message]

\* secp256k1_ecdsa_recover: a signature over another message recovers some
\* key, but one nobody listed.
Recovered(sig, message) == IF sig.over = message THEN sig.by ELSE Stranger

\* The flags and key hashes of lock_bytes: what the script hash commits to.
Script(lock) ==
    [ reserved_field  |-> lock.reserved_field,
      require_first_n |-> lock.require_first_n,
      threshold       |-> lock.threshold,
      pubkeys_cnt     |-> lock.pubkeys_cnt,
      pubkeys         |-> lock.pubkeys ]

\* The four flag bytes are read before the length is known to cover them, so
\* a lock may pair any flags with any length.
IsLock(lock) ==
    /\ lock.reserved_field  \in Byte
    /\ lock.require_first_n \in Byte
    /\ lock.threshold       \in Byte
    /\ lock.pubkeys_cnt     \in Byte
    /\ lock.pubkeys \in [1 .. lock.pubkeys_cnt -> Key]
    /\ lock.sigs    \in [1 .. lock.threshold -> Signature]
    /\ lock.len     \in Nat
    /\ lock.message \in Message
    /\ lock.secp_data \in BOOLEAN   \* a cell dep holds the secp256k1 tables

\* The length the flags ask for: the script, then one signature per threshold.
RequiredLockLen(r) ==
    FLAGS_SIZE + BLAKE160_SIZE * r.pubkeys_cnt + SIGNATURE_SIZE * r.threshold

ASSUME StrangerAssumption == Stranger \notin Key
ASSUME LocksAssumption == \A lock \in Locks : IsLock(lock)

-----------------------------------------------------------------------------
\* The locks whose flags and length are in order.
WellFormed(r) ==
    /\ r.reserved_field = 0
    /\ r.threshold \in 1 .. r.pubkeys_cnt
    /\ r.require_first_n <= r.threshold
    /\ r.len = RequiredLockLen(r)

\* slot gives each of the first n signatures a listed position of its own,
\* held by the key that made the signature over this message.
Assigns(r, slot, n) ==
    /\ slot \in [1 .. n -> 1 .. r.pubkeys_cnt]
    /\ \A j \in 1 .. n :
          /\ r.sigs[j].form = "signed"
          /\ Recovered(r.sigs[j], r.message) = r.pubkeys[slot[j]]
    /\ \A j, k \in 1 .. n : slot[j] = slot[k] => j = k

\* The first n signatures fill each of the first k positions.
Covers(slot, n, k) == \A p \in 1 .. k : \E j \in 1 .. n : slot[j] = p

\* The locks verify_multisig is there to accept.
Authorised(r) ==
    /\ WellFormed(r)
    /\ r.hash = Script(r)
    /\ r.secp_data
    /\ \E slot \in [1 .. r.threshold -> 1 .. r.pubkeys_cnt] :
          /\ Assigns(r, slot, r.threshold)
          /\ Covers(slot, r.threshold, r.require_first_n)
=============================================================================
