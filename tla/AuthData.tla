------------------------------ MODULE AuthData ------------------------------
(***************************************************************************)
(* The arguments of ckb_auth_validate (c/auth.c) as data, what wallets     *)
(* make of a message, and the calls the library is there to accept.        *)
(*                                                                         *)
(* Hashes are terms: a digest is the record of what was hashed and how, a  *)
(* public key hash the record of the hash function and the serialised key. *)
(* Equal terms are equal bytes; different terms are taken not to collide.  *)
(* A signature is the record of the scheme its bytes belong to, of who     *)
(* made it and over which digest.                                          *)
(***************************************************************************)
EXTENDS MultisigData, Sequences

CONSTANTS
    Requests,   \* the calls
    SIZE_MAX    \* the bound of the search for the secp256k1 data cell

ASSUME SizeMaxAssumption == SIZE_MAX \in Nat \ {0}

AuthAlgorithmIdCkb         == 0
AuthAlgorithmIdEthereum    == 1
AuthAlgorithmIdEos         == 2
AuthAlgorithmIdTron        == 3
AuthAlgorithmIdBitcoin     == 4
AuthAlgorithmIdDogecoin    == 5
AuthAlgorithmIdCkbMultisig == 6
AuthAlgorithmIdSchnorr     == 7
AuthAlgorithmIdLitecoin    == 10
AuthAlgorithmIdCardano     == 11
AuthAlgorithmIdMonero      == 12
AuthAlgorithmIdSolana      == 13
AuthAlgorithmIdOwnerLock   == 252

\* The ids whose signatures are r, s and a recovery id, and those that put a
\* header byte first.
RecidFamily  == { AuthAlgorithmIdCkb, AuthAlgorithmIdEthereum,
                  AuthAlgorithmIdEos, AuthAlgorithmIdTron }
HeaderFamily == { AuthAlgorithmIdBitcoin, AuthAlgorithmIdDogecoin,
                  AuthAlgorithmIdLitecoin }

SECP256K1_SIGNATURE_SIZE        == 65
SCHNORR_SIGNATURE_SIZE          == 96
MONERO_DATA_SIZE                == 129
SOLANA_WRAPPED_SIGNATURE_SIZE   == 512
SOLANA_UNWRAPPED_SIGNATURE_SIZE == 510

-----------------------------------------------------------------------------
\* What is hashed before signing: the hash function, the magic text put in
\* front, and the message, raw or as hexadecimal text.
Digest(hash, magic, text, m) ==
    [ hash |-> hash, magic |-> magic, text |-> text, of |-> m ]

\* The Monero digest also covers the mode and both public keys.
MoneroDigest(address, m) ==
    [ hash |-> "keccak256", magic |-> "MoneroMessageSignature",
      text |-> address, of |-> m ]

\* A Cardano wallet signs the transaction body that holds the message, a
\* Solana wallet the transaction message that has it as its blockhash.
CardanoDigest(m)       == Digest("blake2b", "cardano", "body", m)
SolanaDigest(slots, m) == Digest("none", "solana", slots, m)

\* The 20-byte hash of a key, given how the key was serialised.
KeyHash(hash, form, key) == [ hash |-> hash, form |-> form, key |-> key ]

-----------------------------------------------------------------------------
\* A cell dep as the search for the secp256k1 data sees it: the result of
\* loading its data hash, whether that is the hash looked for, and the result
\* of loading the data.
Dep == [ field : {"ok", "missing", "error"},
         match : BOOLEAN,
         data  : {"ok", "short", "error"} ]

SecpData(dep) == dep.field = "ok" /\ dep.match
Skipped(dep)  == dep.field = "missing" \/ (dep.field = "ok" /\ ~dep.match)

\* The first dep that is not passed over holds all of the data.
Loadable(deps) ==
    \E j \in 1 .. Len(deps) :
        /\ j <= SIZE_MAX
        /\ \A k \in 1 .. j - 1 : Skipped(deps[k])
        /\ SecpData(deps[j])
        /\ deps[j].data = "ok"

\* The multisig call a request makes.
LockOf(r) ==
    [ reserved_field  |-> r.signature.reserved_field,
      require_first_n |-> r.signature.require_first_n,
      threshold       |-> r.signature.threshold,
      pubkeys_cnt     |-> r.signature.pubkeys_cnt,
      pubkeys         |-> r.signature.pubkeys,
      sigs            |-> r.signature.sigs,
      len             |-> r.signature_size,
      message         |-> r.message,
      hash            |-> r.pubkey_hash.key,
      secp_data       |-> Loadable(r.deps) ]

\* The fields of a signature of each scheme, besides the scheme.
IsSignature(s) ==
    CASE s.scheme \in {"recid", "header"} ->
            /\ s.byte \in Byte         \* the recovery id or header byte
            /\ s.parity \in 0 .. 3     \* the recovery id that belongs to r, s
            /\ s.parses \in BOOLEAN
      [] s.scheme = "schnorr"  -> s.on_curve \in BOOLEAN
      [] s.scheme = "monero"   -> s.mode \in Byte
      [] s.scheme = "cardano"  -> s.parsed \in BOOLEAN
      [] s.scheme = "solana"   -> s.len \in Nat /\ s.laid_out \in BOOLEAN
      [] s.scheme = "multisig" -> TRUE
      [] OTHER -> FALSE

Fields == { "alg", "signature", "signature_size", "null", "message",
            "message_size", "pubkey_hash", "pubkey_hash_size", "deps", "inputs" }

IsRequest(r) ==
    /\ DOMAIN r = Fields
    /\ r.alg \in Byte
    /\ IsSignature(r.signature)
    /\ r.signature.scheme = "multisig" => IsLock(LockOf(r))
    /\ r.signature_size \in Nat
    /\ r.null \in {"none", "signature", "message"}   \* the NULL argument
    /\ r.message_size \in Nat
    /\ r.pubkey_hash_size \in Nat
    /\ r.deps \in Seq(Dep)
    /\ Len(r.inputs) \in Nat
    /\ \A j \in 1 .. Len(r.inputs) : r.inputs[j].hash.form = "lock"

ASSUME RequestsAssumption == \A r \in Requests : IsRequest(r)

-----------------------------------------------------------------------------
\* What the wallet of each block chain signs for message m.
WalletDigest(alg, m) ==
    CASE alg \in {AuthAlgorithmIdCkb, AuthAlgorithmIdSchnorr} ->
            Digest("none", "none", "raw", m)
      [] alg = AuthAlgorithmIdEthereum ->
            Digest("keccak256", "Ethereum Signed Message", "raw", m)
      [] alg = AuthAlgorithmIdTron ->
            Digest("keccak256", "TRON Signed Message", "raw", m)
      [] alg = AuthAlgorithmIdEos -> Digest("sha256", "none", "raw", m)
      [] alg = AuthAlgorithmIdBitcoin ->
            Digest("sha256d", "Bitcoin Signed Message", "hex", m)
      [] alg = AuthAlgorithmIdDogecoin ->
            Digest("sha256d", "Dogecoin Signed Message", "hex", m)
      [] alg = AuthAlgorithmIdLitecoin ->
            Digest("sha256d", "Litecoin Signed Message", "hex", m)

\* The address a wallet publishes for a secp256k1 key; only the Bitcoin
\* family has two of them, for the compressed and the uncompressed key.
WalletHash(alg, key, compress) ==
    CASE alg = AuthAlgorithmIdCkb -> KeyHash("blake160", "compressed", key)
      [] alg \in RecidFamily \ {AuthAlgorithmIdCkb} ->
            KeyHash("keccak160", "uncompressed", key)
      [] alg \in HeaderFamily ->
            KeyHash("hash160", IF compress THEN "compressed" ELSE "uncompressed", key)

\* The header byte a wallet writes.
WalletMark(recid, compress) == recid + (IF compress THEN 31 ELSE 27)

-----------------------------------------------------------------------------
\* The wallet of alg made the signature for r.message with the key that
\* r.pubkey_hash stands for.  Headers that differ by a multiple of 8 mean the
\* same to the library, and the byte counts modulo 256.
GenuineRecid(alg, r) ==
    LET s == r.signature
    IN  /\ s.scheme = "recid"
        /\ r.signature_size = SECP256K1_SIGNATURE_SIZE
        /\ s.parses
        /\ s.byte = s.parity
        /\ s.over = WalletDigest(alg, r.message)
        /\ r.pubkey_hash = WalletHash(alg, s.by, TRUE)

GenuineHeader(alg, r) ==
    LET s == r.signature
    IN  /\ s.scheme = "header"
        /\ r.signature_size = SECP256K1_SIGNATURE_SIZE
        /\ s.parses
        /\ s.over = WalletDigest(alg, r.message)
        /\ \E compress \in BOOLEAN :
              /\ s.byte % 8 = WalletMark(s.parity, compress) % 8
              /\ r.pubkey_hash = WalletHash(alg, s.by, compress)

GenuineSchnorr(r) ==
    LET s == r.signature
    IN  /\ s.scheme = "schnorr"
        /\ r.signature_size = SCHNORR_SIGNATURE_SIZE
        /\ s.on_curve
        /\ s.by = s.pk
        /\ s.over = WalletDigest(AuthAlgorithmIdSchnorr, r.message)
        /\ r.pubkey_hash = KeyHash("blake160", "xonly", s.pk)

\* Only the spend key signs (mode 0).
GenuineMonero(r) ==
    LET s == r.signature
        address == [mode |-> 0, spend |-> s.by, view |-> s.view]
    IN  /\ s.scheme = "monero"
        /\ r.signature_size = MONERO_DATA_SIZE
        /\ s.mode = 0
        /\ s.spend = s.by
        /\ s.over = MoneroDigest(address, r.message)
        /\ r.pubkey_hash = KeyHash("blake160", "monero", address)

GenuineCardano(r) ==
    LET s == r.signature
    IN  /\ s.scheme = "cardano"
        /\ s.parsed
        /\ s.by = s.pk
        /\ s.over = CardanoDigest(r.message)
        /\ s.ckb_sign_msg = r.message
        /\ r.pubkey_hash = KeyHash("blake160", "ed25519", s.pk)

GenuineSolana(r) ==
    LET s == r.signature
    IN  /\ s.scheme = "solana"
        /\ r.signature_size = SOLANA_WRAPPED_SIGNATURE_SIZE
        /\ s.len <= SOLANA_UNWRAPPED_SIGNATURE_SIZE
        /\ s.laid_out
        /\ s.by = s.pk
        /\ \E j \in 1 .. Len(s.slots) : s.slots[j] = s.pk
        /\ s.over = SolanaDigest(s.slots, r.message)
        /\ s.blockhash = r.message
        /\ r.pubkey_hash = KeyHash("blake160", "ed25519", s.pk)

\* An input of the transaction is locked by the script r.pubkey_hash names, and
\* none before it is broken.
GenuineOwner(r) ==
    \E j \in 1 .. Len(r.inputs) :
        /\ r.inputs[j].status = "ok"
        /\ r.inputs[j].hash = r.pubkey_hash
        /\ \A k \in 1 .. j - 1 : r.inputs[k].status = "ok"

\* The calls ckb_auth_validate is there to accept under id alg.  The length of the
\* message is only asked for by verify, which multisig and the owner lock do not
\* go through (auth.c:992-994, :1011-1013).
GenuineAs(alg, r) ==
    /\ r.null = "none"
    /\ r.pubkey_hash_size = BLAKE160_SIZE
    /\ r.message_size > 0
    /\ alg \notin {AuthAlgorithmIdCkbMultisig, AuthAlgorithmIdOwnerLock} =>
          r.message_size = BLAKE2B_BLOCK_SIZE
    /\ alg \in RecidFamily \cup HeaderFamily \cup {AuthAlgorithmIdSchnorr} =>
          Loadable(r.deps)
    /\ \/ alg \in RecidFamily /\ GenuineRecid(alg, r)
       \/ alg \in HeaderFamily /\ GenuineHeader(alg, r)
       \/ alg = AuthAlgorithmIdSchnorr /\ GenuineSchnorr(r)
       \/ alg = AuthAlgorithmIdMonero /\ GenuineMonero(r)
       \/ alg = AuthAlgorithmIdCardano /\ GenuineCardano(r)
       \/ alg = AuthAlgorithmIdSolana /\ GenuineSolana(r)
       \/ alg = AuthAlgorithmIdOwnerLock /\ GenuineOwner(r)
       \/ /\ alg = AuthAlgorithmIdCkbMultisig
          /\ r.signature.scheme = "multisig"
          /\ r.pubkey_hash.form = "script"
          /\ Authorised(LockOf(r))

Genuine(r) == GenuineAs(r.alg, r)
=============================================================================
