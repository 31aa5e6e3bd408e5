-------------------------------- MODULE Auth --------------------------------
(***************************************************************************)
(* ckb_auth_validate of c/auth.c: the checks of its arguments, the         *)
(* dispatch on the algorithm id, verify with its message conversions and   *)
(* signature validations, the search for the secp256k1 data among the      *)
(* cell deps, and the owner lock's search among the inputs.                *)
(*                                                                         *)
(* A caller may present one signature again under another id (CallAgain).  *)
(* verify_multisig is used by what it promises: Multisig shows that it     *)
(* accepts exactly the Authorised locks.                                   *)
(***************************************************************************)
EXTENDS AuthData

CONSTANT MaxCalls   \* calls made with one signature

ASSUME MaxCallsAssumption == MaxCalls \in Nat \ {0}

VARIABLES
    call,      \* the arguments and the transaction
    calls,     \* how many calls were made
    pc,        \* the next step of the call
    index,     \* the cell dep or input looked at next, from 0
    ret,       \* the result, 0 until then
    accepted   \* the ids under which a call returned 0

vars == <<call, calls, pc, index, ret, accepted>>

Steps == {"args", "dispatch", "deps", "recover", "verify", "multisig",
          "inputs", "done", "exited"}

Init ==
    /\ call \in Requests
    /\ calls = 1
    /\ pc = "args"
    /\ index = 0
    /\ ret = 0
    /\ accepted = {}

Goto(step) ==
    /\ pc' = step
    /\ UNCHANGED <<call, calls, index, ret, accepted>>

Return(code) ==
    /\ pc' = "done"
    /\ ret' = code
    /\ accepted' = IF code = 0 THEN accepted \cup {call.alg} ELSE accepted
    /\ UNCHANGED <<call, calls, index>>

\* The illegal callback of libsecp256k1 ends the process, caller included.
Exit ==
    /\ pc' = "exited"
    /\ ret' = ERROR_ILLEGAL_CALLBACK
    /\ UNCHANGED <<call, calls, index, accepted>>

\* The last step of verify: the memcmp with the hash of the key found.
Compare(hash) ==
    \/ call.pubkey_hash = hash /\ Return(0)
    \/ call.pubkey_hash # hash /\ Return(ERROR_MISMATCHED)

-----------------------------------------------------------------------------
\* convert_copy, convert_eth_message, convert_eos_message, ...: the message a
\* validate_signature function gets.
convert(alg, m) ==
    CASE alg = AuthAlgorithmIdEthereum ->
            Digest("keccak256", "Ethereum Signed Message", "raw", m)
      [] alg = AuthAlgorithmIdEos -> Digest("sha256", "none", "raw", m)
      [] alg = AuthAlgorithmIdTron ->
            Digest("keccak256", "TRON Signed Message", "raw", m)
      [] alg = AuthAlgorithmIdBitcoin ->
            Digest("sha256d", "Bitcoin Signed Message", "hex", m)
      [] alg = AuthAlgorithmIdDogecoin ->
            Digest("sha256d", "Dogecoin Signed Message", "hex", m)
      [] alg = AuthAlgorithmIdLitecoin ->
            Digest("sha256d", "Litecoin Signed Message", "hex", m)
      [] OTHER -> Digest("none", "none", "raw", m)

CheckArgs ==
    /\ pc = "args"
    /\ LET good == /\ call.null = "none"
                   /\ call.message_size > 0
                   /\ call.pubkey_hash_size = BLAKE160_SIZE
       IN  \/ ~good /\ Return(ERROR_INVALID_ARG)
           \/ good /\ Goto("dispatch")

\* verify: the conversions want 32 bytes of message, the secp256k1 functions a
\* signature of their size, before anything is loaded.
StartVerify(signature_size, step) ==
    LET good == /\ call.message_size = BLAKE2B_BLOCK_SIZE
                /\ call.signature_size = signature_size
    IN  \/ ~good /\ Return(ERROR_INVALID_ARG)
        \/ good /\ Goto(step)

Dispatch ==
    /\ pc = "dispatch"
    /\ \/ /\ call.alg \in RecidFamily \cup HeaderFamily
          /\ StartVerify(SECP256K1_SIGNATURE_SIZE, "deps")
       \/ /\ call.alg = AuthAlgorithmIdSchnorr
          /\ StartVerify(SCHNORR_SIGNATURE_SIZE, "deps")
       \/ /\ call.alg = AuthAlgorithmIdMonero
          /\ StartVerify(MONERO_DATA_SIZE, "verify")
       \/ /\ call.alg = AuthAlgorithmIdSolana
          /\ StartVerify(SOLANA_WRAPPED_SIGNATURE_SIZE, "verify")
       \/ /\ call.alg = AuthAlgorithmIdCardano
          /\ StartVerify(call.signature_size, "verify")
       \/ call.alg = AuthAlgorithmIdCkbMultisig /\ Goto("multisig")
       \/ call.alg = AuthAlgorithmIdOwnerLock /\ Goto("inputs")
       \/ /\ call.alg \notin RecidFamily \cup HeaderFamily
          /\ call.alg \notin
                { AuthAlgorithmIdSchnorr, AuthAlgorithmIdMonero,
                  AuthAlgorithmIdSolana, AuthAlgorithmIdCardano,
                  AuthAlgorithmIdCkbMultisig, AuthAlgorithmIdOwnerLock }
          /\ Return(ERROR_NOT_IMPLEMENTED)

\* Mutant: a dep without data ends the search.
SearchDepsStrict ==
    /\ pc = "deps"
    /\ \/ index = SIZE_MAX /\ Return(ERROR_LOADING_DATA)
       \/ /\ index < SIZE_MAX
          /\ index < Len(call.deps)
          /\ LET dep == call.deps[index + 1]
             IN  \/ /\ dep.field = "ok" /\ ~dep.match
                    /\ index' = index + 1
                    /\ UNCHANGED <<call, calls, pc, ret, accepted>>
                 \/ SecpData(dep) /\ dep.data = "ok" /\ Goto("recover")
                 \/ SecpData(dep) /\ dep.data # "ok" /\ Return(ERROR_LOADING_DATA)
                 \/ dep.field # "ok" /\ Return(ERROR_LOADING_DATA)
       \/ index < SIZE_MAX /\ index >= Len(call.deps) /\ Return(ERROR_LOADING_DATA)

\* Mutant: a missing field does not advance the index.
SearchDepsStuck ==
    /\ pc = "deps"
    /\ \/ index = SIZE_MAX /\ Return(ERROR_LOADING_DATA)
       \/ /\ index < SIZE_MAX
          /\ index < Len(call.deps)
          /\ LET dep == call.deps[index + 1]
             IN  \/ /\ Skipped(dep)
                    /\ index' = IF dep.field = "missing" THEN index ELSE index + 1
                    /\ UNCHANGED <<call, calls, pc, ret, accepted>>
                 \/ SecpData(dep) /\ dep.data = "ok" /\ Goto("recover")
                 \/ SecpData(dep) /\ dep.data # "ok" /\ Return(ERROR_LOADING_DATA)
                 \/ dep.field = "error" /\ Return(ERROR_LOADING_DATA)
       \/ index < SIZE_MAX /\ index >= Len(call.deps) /\ Return(ERROR_LOADING_DATA)

\* Mutant: how much of the data was loaded is not looked at.
SearchDepsShort ==
    /\ pc = "deps"
    /\ \/ index = SIZE_MAX /\ Return(ERROR_LOADING_DATA)
       \/ /\ index < SIZE_MAX
          /\ index < Len(call.deps)
          /\ LET dep == call.deps[index + 1]
             IN  \/ /\ Skipped(dep)
                    /\ index' = index + 1
                    /\ UNCHANGED <<call, calls, pc, ret, accepted>>
                 \/ SecpData(dep) /\ dep.data # "error" /\ Goto("recover")
                 \/ SecpData(dep) /\ dep.data = "error" /\ Return(ERROR_LOADING_DATA)
                 \/ dep.field = "error" /\ Return(ERROR_LOADING_DATA)
       \/ index < SIZE_MAX /\ index >= Len(call.deps) /\ Return(ERROR_LOADING_DATA)

\* One round of ckb_secp256k1_custom_verify_only_initialize.
SearchDeps ==
    /\ pc = "deps"
    /\ \/ index = SIZE_MAX /\ Return(ERROR_LOADING_DATA)
       \/ /\ index < SIZE_MAX
          /\ index < Len(call.deps)
          /\ LET dep == call.deps[index + 1]
             IN  \/ /\ Skipped(dep)
                    /\ index' = index + 1
                    /\ UNCHANGED <<call, calls, pc, ret, accepted>>
                 \/ SecpData(dep) /\ dep.data = "ok" /\ Goto("recover")
                 \/ SecpData(dep) /\ dep.data # "ok" /\ Return(ERROR_LOADING_DATA)
                 \/ dep.field = "error" /\ Return(ERROR_LOADING_DATA)
       \/ index < SIZE_MAX /\ index >= Len(call.deps) /\ Return(ERROR_LOADING_DATA)

-----------------------------------------------------------------------------
\* Mutant: the magic in front of the message is not part of what is signed.
RecoversAnyMagic(s, scheme, recid, digest) ==
    /\ s.scheme = scheme
    /\ recid = s.parity
    /\ s.over.of = digest.of

\* Recovery finds the signer when the bytes, the recovery id and the digest
\* are those of the signature; else it fails or finds some stranger's key,
\* whose hash nobody gave.
Recovers(s, scheme, recid, digest) ==
    /\ s.scheme = scheme
    /\ recid = s.parity
    /\ s.over = digest

\* validate_signature_ckb and validate_signature_eth.  The bytes of another
\* scheme hold any recovery id and may or may not parse.
VerifyRecid ==
    /\ pc = "recover"
    /\ call.alg \in RecidFamily
    /\ LET s == call.signature
           own == s.scheme = "recid"
           digest == convert(call.alg, call.message)
           output(key) == IF call.alg = AuthAlgorithmIdCkb
                          THEN KeyHash("blake160", "compressed", key)
                          ELSE KeyHash("keccak160", "uncompressed", key)
       IN  \/ (own => s.byte \notin 0 .. 3) /\ Exit
           \/ /\ own => s.byte \in 0 .. 3
              /\ \/ ~(own /\ s.parses /\ Recovers(s, "recid", s.byte, digest))
                    /\ Return(ERROR_WRONG_STATE)
                 \/ /\ own => s.parses
                    /\ ~(own /\ Recovers(s, "recid", s.byte, digest))
                    /\ Return(ERROR_MISMATCHED)
                 \/ /\ own /\ s.parses
                    /\ Recovers(s, "recid", s.byte, digest)
                    /\ Compare(output(s.by))

\* validate_signature_btc: recovery id and compression come from the header.
VerifyHeader ==
    /\ pc = "recover"
    /\ call.alg \in HeaderFamily
    /\ LET s == call.signature
           own == s.scheme = "header"
           digest == convert(call.alg, call.message)
           recid == (s.byte - 27) % 4
           comp == ((s.byte - 27) \div 4) % 2 = 1
       IN  \/ ~(own /\ s.parses /\ Recovers(s, "header", recid, digest))
              /\ Return(ERROR_WRONG_STATE)
           \/ /\ own => s.parses
              /\ ~(own /\ Recovers(s, "header", recid, digest))
              /\ Return(ERROR_MISMATCHED)
           \/ /\ own /\ s.parses
              /\ Recovers(s, "header", recid, digest)
              /\ Compare(KeyHash("hash160",
                            IF comp THEN "compressed" ELSE "uncompressed", s.by))

VerifySchnorr ==
    /\ pc = "recover"
    /\ call.alg = AuthAlgorithmIdSchnorr
    /\ LET s == call.signature
           valid == /\ s.scheme = "schnorr"
                    /\ s.on_curve
                    /\ s.by = s.pk
                    /\ s.over = convert(call.alg, call.message)
       IN  \/ ~valid /\ Return(ERROR_SCHNORR)
           \/ valid /\ Compare(KeyHash("blake160", "xonly", s.pk))

\* validate_signature_monero: the digest and the hash compared cover the mode
\* and both keys the signature bytes carry.
VerifyMonero ==
    /\ pc = "verify"
    /\ call.alg = AuthAlgorithmIdMonero
    /\ LET s == call.signature
           own == s.scheme = "monero"
           address == [mode |-> s.mode, spend |-> s.spend, view |-> s.view]
           valid == /\ s.by = s.spend
                    /\ s.over = MoneroDigest(address, call.message)
       IN  \/ (own => s.mode # 0) /\ Return(ERROR_INVALID_ARG)
           \/ (own => s.mode = 0 /\ ~valid) /\ Return(ERROR_SPAWN_INVALID_SIG)
           \/ own /\ s.mode = 0 /\ valid /\ Compare(KeyHash("blake160", "monero", address))

\* Mutant: the message in the signed body is not compared.
VerifyCardanoAnyMessage ==
    /\ pc = "verify"
    /\ call.alg = AuthAlgorithmIdCardano
    /\ LET s == call.signature
           own == s.scheme = "cardano"
           valid == s.by = s.pk /\ s.over = CardanoDigest(s.ckb_sign_msg)
       IN  \/ ~(own /\ s.parsed) /\ Return(ERROR_INVALID_ARG)
           \/ own /\ s.parsed /\ ~valid /\ Return(ERROR_WRONG_STATE)
           \/ own /\ s.parsed /\ valid /\ Compare(KeyHash("blake160", "ed25519", s.pk))

\* validate_signature_cardano: the signed body must hold this message.
VerifyCardano ==
    /\ pc = "verify"
    /\ call.alg = AuthAlgorithmIdCardano
    /\ LET s == call.signature
           own == s.scheme = "cardano"
           fits == s.parsed /\ s.ckb_sign_msg = call.message
           valid == s.by = s.pk /\ s.over = CardanoDigest(s.ckb_sign_msg)
       IN  \/ ~(own /\ fits) /\ Return(ERROR_INVALID_ARG)
           \/ own /\ fits /\ ~valid /\ Return(ERROR_WRONG_STATE)
           \/ own /\ fits /\ valid /\ Compare(KeyHash("blake160", "ed25519", s.pk))

\* validate_signature_solana with validate_solana_signed_message: the message
\* has this blockhash and one of its signer slots holds the key.
VerifySolana ==
    /\ pc = "verify"
    /\ call.alg = AuthAlgorithmIdSolana
    /\ LET s == call.signature
           own == s.scheme = "solana"
           fits == /\ s.len <= SOLANA_UNWRAPPED_SIGNATURE_SIZE
                   /\ s.laid_out
                   /\ s.blockhash = call.message
                   /\ \E j \in 1 .. Len(s.slots) : s.slots[j] = s.pk
           valid == s.by = s.pk /\ s.over = SolanaDigest(s.slots, s.blockhash)
       IN  \/ ~(own /\ fits) /\ Return(ERROR_INVALID_ARG)
           \/ own /\ fits /\ ~valid /\ Return(ERROR_WRONG_STATE)
           \/ own /\ fits /\ valid /\ Compare(KeyHash("blake160", "ed25519", s.pk))

\* verify_multisig, by its contract.
VerifyMultisig ==
    /\ pc = "multisig"
    /\ LET good == /\ call.signature.scheme = "multisig"
                   /\ call.pubkey_hash.form = "script"
                   /\ Authorised(LockOf(call))
       IN  \/ good /\ Return(0)
           \/ ~good /\ Exit
           \/ ~good /\ \E code \in Errors \ {ERROR_ILLEGAL_CALLBACK} : Return(code)

\* One round of is_lock_script_hash_present: any error ends the search.
SearchInputs ==
    /\ pc = "inputs"
    /\ \/ index >= Len(call.inputs) /\ Return(ERROR_MISMATCHED)
       \/ /\ index < Len(call.inputs)
          /\ LET input == call.inputs[index + 1]
                 same == input.hash = call.pubkey_hash
             IN  \/ input.status # "ok" /\ Return(ERROR_MISMATCHED)
                 \/ input.status = "ok" /\ same /\ Return(0)
                 \/ /\ input.status = "ok" /\ ~same
                    /\ index' = index + 1
                    /\ UNCHANGED <<call, calls, pc, ret, accepted>>

\* The caller presents the signature again, under some id.
CallAgain ==
    /\ pc = "done"
    /\ ret = 0
    /\ calls < MaxCalls
    /\ \E alg \in { r.alg : r \in Requests } : call' = [call EXCEPT !.alg = alg]
    /\ calls' = calls + 1
    /\ pc' = "args"
    /\ index' = 0
    /\ UNCHANGED <<ret, accepted>>

Returned == pc \in {"done", "exited"} /\ UNCHANGED vars

Step ==
    \/ CheckArgs
    \/ Dispatch
    \/ SearchDeps
    \/ VerifyRecid
    \/ VerifyHeader
    \/ VerifySchnorr
    \/ VerifyMonero
    \/ VerifyCardano
    \/ VerifySolana
    \/ VerifyMultisig
    \/ SearchInputs

Next == Step \/ CallAgain \/ Returned

Spec == Init /\ [][Next]_vars /\ WF_vars(Step)

-----------------------------------------------------------------------------
TypeOK ==
    /\ IsRequest(call)
    /\ calls \in 1 .. MaxCalls
    /\ pc \in Steps
    /\ index \in Nat
    /\ ret \in ValidateErrors \cup {0}
    /\ accepted \subseteq Byte

\* ckb_auth_validate returns 0 only when the wallet of this id signed this
\* message with the key whose hash was given (or, for the owner lock, when an
\* input is locked by that hash): no conversion, layout, search or comparison
\* lets anything else through.
AcceptsOnlyGenuine == pc = "done" /\ ret = 0 => Genuine(call)

\* ckb_auth_validate ends otherwise only for calls that are not genuine: what
\* a wallet signs is never refused, whichever cell deps precede the data and
\* whichever inputs precede the owner's, as long as none of those is broken: the
\* searches stop there (Loadable, GenuineOwner).
AcceptsEveryGenuine ==
    \/ pc = "done" /\ ret # 0
    \/ pc = "exited"
    => ~Genuine(call)

\* One signature with one public key hash is accepted under one id at most:
\* signing for one block chain never authorises another.
OneDomain == \A a, b \in accepted : a = b

-----------------------------------------------------------------------------
SecpFamily == RecidFamily \cup HeaderFamily \cup {AuthAlgorithmIdSchnorr}

\* The checks behind the next step.
Passed ==
    /\ pc \notin {"args", "done", "exited"} =>
          /\ call.null = "none"
          /\ call.message_size > 0
          /\ call.pubkey_hash_size = BLAKE160_SIZE
    /\ pc \in {"deps", "recover", "verify"} => call.message_size = BLAKE2B_BLOCK_SIZE
    /\ pc \in {"deps", "recover"} =>
          /\ call.alg \in SecpFamily
          /\ call.signature_size = IF call.alg = AuthAlgorithmIdSchnorr
                                   THEN SCHNORR_SIGNATURE_SIZE
                                   ELSE SECP256K1_SIGNATURE_SIZE
    /\ pc = "verify" =>
          \/ call.alg = AuthAlgorithmIdCardano
          \/ /\ call.alg = AuthAlgorithmIdMonero
             /\ call.signature_size = MONERO_DATA_SIZE
          \/ /\ call.alg = AuthAlgorithmIdSolana
             /\ call.signature_size = SOLANA_WRAPPED_SIGNATURE_SIZE
    /\ pc = "multisig" => call.alg = AuthAlgorithmIdCkbMultisig
    /\ pc = "inputs" => call.alg = AuthAlgorithmIdOwnerLock

\* What the searches have gone past.
Searched ==
    /\ pc \in {"args", "dispatch"} => index = 0
    /\ pc = "deps" =>
          /\ index <= SIZE_MAX
          /\ index <= Len(call.deps)
          /\ \A k \in 1 .. index : Skipped(call.deps[k])
    /\ pc = "recover" => Loadable(call.deps)
    /\ pc = "inputs" =>
          /\ index <= Len(call.inputs)
          /\ \A k \in 1 .. index :
                /\ call.inputs[k].status = "ok"
                /\ call.inputs[k].hash # call.pubkey_hash

\* The inductive invariant: each step knows what the checks and searches
\* before it established, every id accepted so far is a genuine one, and a
\* result is as Genuine says.
IndInv ==
    /\ TypeOK
    /\ Passed
    /\ Searched
    /\ \A a \in accepted : GenuineAs(a, call)
    /\ AcceptsOnlyGenuine
    /\ AcceptsEveryGenuine

-----------------------------------------------------------------------------
\* Every call comes to an end: both searches are bounded.
AlwaysEnds == pc = "args" ~> pc \in {"done", "exited"}

\* What docs/auth.md says of Bitcoin and its family ("pubkey: 65-byte
\* uncompressed pubkey"): the hash compared is that of the uncompressed key.
BitcoinKeyUncompressed ==
    pc = "done" /\ ret = 0 /\ call.alg \in HeaderFamily
        => call.pubkey_hash.form = "uncompressed"
=============================================================================
