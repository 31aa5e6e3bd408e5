----------------------------- MODULE AuthProofs -----------------------------
(***************************************************************************)
(* ckb_auth_validate decides every call as Genuine says, and accepts one   *)
(* signature under one id at most.                                         *)
(***************************************************************************)
EXTENDS Auth, TLAPS

\* Calling again under another id changes nothing else of the request.
LEMMA OtherId ==
    ASSUME NEW r, IsRequest(r), NEW b \in Byte
    PROVE  LET q == [r EXCEPT !.alg = b]
           IN  /\ q.alg = b
               /\ DOMAIN q = Fields
               /\ q.signature = r.signature
               /\ q.signature_size = r.signature_size
               /\ q.null = r.null
               /\ q.message = r.message
               /\ q.message_size = r.message_size
               /\ q.pubkey_hash = r.pubkey_hash
               /\ q.pubkey_hash_size = r.pubkey_hash_size
               /\ q.deps = r.deps
               /\ q.inputs = r.inputs
BY DEF IsRequest, Fields

\* What makes a request genuine under an id does not depend on its own id.
LEMMA SameGenuine ==
    ASSUME NEW r, NEW q, NEW a,
           q.signature = r.signature,
           q.signature_size = r.signature_size,
           q.null = r.null,
           q.message = r.message,
           q.message_size = r.message_size,
           q.pubkey_hash = r.pubkey_hash,
           q.pubkey_hash_size = r.pubkey_hash_size,
           q.deps = r.deps,
           q.inputs = r.inputs
    PROVE  /\ GenuineAs(a, q) <=> GenuineAs(a, r)
           /\ LockOf(q) = LockOf(r)
<1>1. LockOf(q) = LockOf(r)
  BY Zenon DEF LockOf
<1>2. /\ GenuineRecid(a, q) <=> GenuineRecid(a, r)
      /\ GenuineHeader(a, q) <=> GenuineHeader(a, r)
      /\ GenuineSchnorr(q) <=> GenuineSchnorr(r)
  BY Zenon DEF GenuineRecid, GenuineHeader, GenuineSchnorr
<1>3. /\ GenuineMonero(q) <=> GenuineMonero(r)
      /\ GenuineCardano(q) <=> GenuineCardano(r)
      /\ GenuineSolana(q) <=> GenuineSolana(r)
      /\ GenuineOwner(q) <=> GenuineOwner(r)
  BY Zenon DEF GenuineMonero, GenuineCardano, GenuineSolana, GenuineOwner
<1> QED BY <1>1, <1>2, <1>3 DEF GenuineAs

\* Presenting a call of ckb_auth_validate again under another id changes neither
\* its type nor the ids it is genuine for.
LEMMA SameRequest ==
    ASSUME NEW r, IsRequest(r), NEW b \in Byte
    PROVE  LET q == [r EXCEPT !.alg = b]
           IN  IsRequest(q) /\ \A a : GenuineAs(a, q) <=> GenuineAs(a, r)
<1> DEFINE q == [r EXCEPT !.alg = b]
<1>1. /\ q.alg = b
      /\ DOMAIN q = Fields
      /\ q.signature = r.signature
      /\ q.signature_size = r.signature_size
      /\ q.null = r.null
      /\ q.message = r.message
      /\ q.message_size = r.message_size
      /\ q.pubkey_hash = r.pubkey_hash
      /\ q.pubkey_hash_size = r.pubkey_hash_size
      /\ q.deps = r.deps
      /\ q.inputs = r.inputs
  BY OtherId
<1> HIDE DEF q
<1>2. \A a : (GenuineAs(a, q) <=> GenuineAs(a, r)) /\ LockOf(q) = LockOf(r)
  BY <1>1, SameGenuine
<1>3. IsRequest(q)
  BY <1>1, <1>2, Zenon DEF IsRequest
<1> QED BY <1>2, <1>3 DEF q

-----------------------------------------------------------------------------
\* No signature is genuine under two ids: the schemes, the digests and the
\* public key hashes of any two ids differ.
LEMMA GenuineOnce ==
    ASSUME NEW r, IsRequest(r), NEW a, NEW b, GenuineAs(a, r), GenuineAs(b, r)
    PROVE  a = b
<1> USE DEF AuthAlgorithmIdCkb, AuthAlgorithmIdEthereum, AuthAlgorithmIdEos,
            AuthAlgorithmIdTron, AuthAlgorithmIdBitcoin, AuthAlgorithmIdDogecoin,
            AuthAlgorithmIdCkbMultisig, AuthAlgorithmIdSchnorr,
            AuthAlgorithmIdLitecoin, AuthAlgorithmIdCardano,
            AuthAlgorithmIdMonero, AuthAlgorithmIdSolana,
            AuthAlgorithmIdOwnerLock
<1>1. ASSUME NEW c, GenuineAs(c, r)
      PROVE  \/ c \in RecidFamily /\ GenuineRecid(c, r)
             \/ c \in HeaderFamily /\ GenuineHeader(c, r)
             \/ c = AuthAlgorithmIdSchnorr /\ GenuineSchnorr(r)
             \/ c = AuthAlgorithmIdMonero /\ GenuineMonero(r)
             \/ c = AuthAlgorithmIdCardano /\ GenuineCardano(r)
             \/ c = AuthAlgorithmIdSolana /\ GenuineSolana(r)
             \/ c = AuthAlgorithmIdOwnerLock /\ GenuineOwner(r)
             \/ /\ c = AuthAlgorithmIdCkbMultisig
                /\ r.signature.scheme = "multisig"
                /\ r.pubkey_hash.form = "script"
  BY <1>1 DEF GenuineAs
<1>2. GenuineOwner(r) => r.pubkey_hash.form = "lock"
  BY DEF IsRequest, GenuineOwner
<1>3. ASSUME NEW c \in RecidFamily, GenuineRecid(c, r)
      PROVE  /\ r.signature.scheme = "recid"
             /\ r.pubkey_hash.form \in {"compressed", "uncompressed"}
             /\ r.signature.over = WalletDigest(c, r.message)
             /\ r.pubkey_hash.hash = "blake160" <=> c = AuthAlgorithmIdCkb
  BY <1>3 DEF GenuineRecid, RecidFamily, HeaderFamily, WalletHash, KeyHash
<1>4. ASSUME NEW c \in HeaderFamily, GenuineHeader(c, r)
      PROVE  /\ r.signature.scheme = "header"
             /\ r.pubkey_hash.form \in {"compressed", "uncompressed"}
             /\ r.signature.over = WalletDigest(c, r.message)
  BY <1>4 DEF GenuineHeader, RecidFamily, HeaderFamily, WalletHash, KeyHash
<1>5. ASSUME NEW c \in RecidFamily \ {AuthAlgorithmIdCkb}, NEW d \in RecidFamily \ {AuthAlgorithmIdCkb},
             WalletDigest(c, r.message) = WalletDigest(d, r.message)
      PROVE  c = d
  BY <1>5 DEF RecidFamily, WalletDigest, Digest
<1>6. ASSUME NEW c \in HeaderFamily, NEW d \in HeaderFamily,
             WalletDigest(c, r.message) = WalletDigest(d, r.message)
      PROVE  c = d
  <2> DEFINE Btc(magic) == Digest("sha256d", magic, "hex", r.message)
  <2>1. /\ WalletDigest(4, r.message) = Btc("Bitcoin Signed Message")
        /\ WalletDigest(5, r.message) = Btc("Dogecoin Signed Message")
        /\ WalletDigest(10, r.message) = Btc("Litecoin Signed Message")
    BY DEF WalletDigest
  <2>2. \A magic : Btc(magic).magic = magic
    BY DEF Digest
  <2> HIDE DEF Btc
  <2>3. c \in {4, 5, 10} /\ d \in {4, 5, 10}
    BY DEF HeaderFamily
  <2>4. /\ WalletDigest(4, r.message).magic = "Bitcoin Signed Message"
        /\ WalletDigest(5, r.message).magic = "Dogecoin Signed Message"
        /\ WalletDigest(10, r.message).magic = "Litecoin Signed Message"
    BY <2>1, <2>2
  <2>5. WalletDigest(c, r.message).magic = WalletDigest(d, r.message).magic
    BY <1>6
  <2>6. CASE c = 4
    <3>1. CASE d = 5 BY <2>4, <2>5, <2>6, <3>1
    <3>2. CASE d = 10 BY <2>4, <2>5, <2>6, <3>2
    <3> QED BY <2>3, <2>6, <3>1, <3>2
  <2>7. CASE c = 5
    <3>1. CASE d = 4 BY <2>4, <2>5, <2>7, <3>1
    <3>2. CASE d = 10 BY <2>4, <2>5, <2>7, <3>2
    <3> QED BY <2>3, <2>7, <3>1, <3>2
  <2>8. CASE c = 10
    <3>1. CASE d = 4 BY <2>4, <2>5, <2>8, <3>1
    <3>2. CASE d = 5 BY <2>4, <2>5, <2>8, <3>2
    <3> QED BY <2>3, <2>8, <3>1, <3>2
  <2> QED BY <2>3, <2>6, <2>7, <2>8
<1>7. /\ GenuineSchnorr(r) => r.signature.scheme = "schnorr" /\ r.pubkey_hash.form = "xonly"
      /\ GenuineMonero(r) => r.signature.scheme = "monero" /\ r.pubkey_hash.form = "monero"
      /\ GenuineCardano(r) => r.signature.scheme = "cardano" /\ r.pubkey_hash.form = "ed25519"
      /\ GenuineSolana(r) => r.signature.scheme = "solana" /\ r.pubkey_hash.form = "ed25519"
  BY DEF GenuineSchnorr, GenuineMonero, GenuineCardano, GenuineSolana, KeyHash
<1>8. CASE a \in RecidFamily /\ GenuineRecid(a, r)
  <2>1. /\ r.signature.scheme = "recid"
        /\ r.pubkey_hash.form \in {"compressed", "uncompressed"}
    BY <1>3, <1>8
  <2>2. b \in RecidFamily /\ GenuineRecid(b, r)
    BY <1>1, <1>2, <1>4, <1>7, <2>1
  <2>3. /\ WalletDigest(a, r.message) = WalletDigest(b, r.message)
        /\ a = AuthAlgorithmIdCkb <=> b = AuthAlgorithmIdCkb
    BY <1>3, <1>8, <2>2
  <2> QED BY <1>5, <1>8, <2>2, <2>3
<1>9. CASE a \in HeaderFamily /\ GenuineHeader(a, r)
  BY <1>1, <1>2, <1>3, <1>4, <1>6, <1>7, <1>9
<1> QED BY <1>1, <1>2, <1>3, <1>4, <1>7, <1>8, <1>9

-----------------------------------------------------------------------------
\* The first step of a call knows nothing yet.
LEMMA InitInductive == Init => IndInv
<1> SUFFICES ASSUME Init PROVE IndInv
  OBVIOUS
<1>1. IsRequest(call)
  BY RequestsAssumption DEF Init
<1>2. TypeOK
  BY <1>1, MaxCallsAssumption DEF Init, TypeOK, Steps
<1>3. /\ Passed /\ Searched /\ AcceptsOnlyGenuine /\ AcceptsEveryGenuine
      /\ accepted = {}
  BY DEF Init, Passed, Searched, AcceptsOnlyGenuine, AcceptsEveryGenuine
<1> QED BY <1>2, <1>3 DEF IndInv

\* Returning 0 for a genuine call, or an error for another, is right.
LEMMA ReturnInductive ==
    ASSUME IndInv, NEW code \in ValidateErrors \cup {0}, Return(code),
           code = 0 <=> Genuine(call)
    PROVE  IndInv'
<1>1. /\ call' = call /\ calls' = calls /\ index' = index
      /\ pc' = "done" /\ ret' = code
      /\ accepted' = IF code = 0 THEN accepted \cup {call.alg} ELSE accepted
  BY DEF Return
<1>2. TypeOK'
  <2>1. call.alg \in Byte
    BY DEF IndInv, TypeOK, IsRequest
  <2> QED BY <1>1, <2>1 DEF IndInv, TypeOK, Steps
<1>3. Passed' /\ Searched'
  BY <1>1 DEF Passed, Searched
<1>4. \A a \in accepted' : GenuineAs(a, call')
  BY <1>1 DEF IndInv, Genuine
<1>5. AcceptsOnlyGenuine' /\ AcceptsEveryGenuine'
  BY <1>1 DEF AcceptsOnlyGenuine, AcceptsEveryGenuine
<1> QED BY <1>2, <1>3, <1>4, <1>5 DEF IndInv

\* The process ends in the illegal callback only on a call that is not genuine.
LEMMA ExitInductive ==
    ASSUME IndInv, Exit, ~Genuine(call)
    PROVE  IndInv'
<1>1. /\ call' = call /\ calls' = calls /\ index' = index
      /\ pc' = "exited" /\ ret' = ERROR_ILLEGAL_CALLBACK
      /\ accepted' = accepted
  BY DEF Exit
<1>2. ERROR_ILLEGAL_CALLBACK \in ValidateErrors
  BY DEF ValidateErrors, Errors
<1>3. TypeOK'
  BY <1>1, <1>2 DEF IndInv, TypeOK, Steps
<1>4. Passed' /\ Searched' /\ AcceptsOnlyGenuine' /\ AcceptsEveryGenuine'
  BY <1>1 DEF Passed, Searched, AcceptsOnlyGenuine, AcceptsEveryGenuine
<1> QED BY <1>1, <1>3, <1>4 DEF IndInv

\* The codes ckb_auth_validate returns of its own are errors.
LEMMA ErrorCodes ==
    /\ {ERROR_NOT_IMPLEMENTED, ERROR_MISMATCHED, ERROR_INVALID_ARG,
        ERROR_WRONG_STATE, ERROR_SPAWN_INVALID_SIG, ERROR_SCHNORR,
        ERROR_LOADING_DATA} \subseteq ValidateErrors
    /\ Errors \subseteq ValidateErrors
    /\ 0 \notin ValidateErrors
BY DEF ValidateErrors, Errors, ERROR_NOT_IMPLEMENTED, ERROR_MISMATCHED,
       ERROR_INVALID_ARG, ERROR_WRONG_STATE, ERROR_SPAWN_INVALID_SIG,
       ERROR_SCHNORR, ERROR_LOADING_DATA, ERROR_INVALID_RESERVE_FIELD,
       ERROR_INVALID_PUBKEYS_CNT, ERROR_INVALID_THRESHOLD,
       ERROR_INVALID_REQUIRE_FIRST_N, ERROR_MULTSIG_SCRIPT_HASH,
       ERROR_VERIFICATION, ERROR_WITNESS_SIZE, ERROR_SECP_PARSE_SIGNATURE,
       ERROR_SECP_RECOVER_PUBKEY, ERROR_ILLEGAL_CALLBACK

\* An error returned for a call that is not genuine is right.
LEMMA ErrorInductive ==
    ASSUME IndInv, NEW code \in ValidateErrors, Return(code), ~Genuine(call)
    PROVE  IndInv'
BY ErrorCodes, ReturnInductive

\* The comparison at the end of verify is right when the hash is the given one
\* exactly for genuine calls.
LEMMA CompareInductive ==
    ASSUME IndInv, NEW hash, Compare(hash),
           call.pubkey_hash = hash <=> Genuine(call)
    PROVE  IndInv'
<1>1. CASE call.pubkey_hash = hash /\ Return(0)
  BY <1>1, ReturnInductive
<1>2. CASE call.pubkey_hash # hash /\ Return(ERROR_MISMATCHED)
  BY <1>2, ErrorCodes, ErrorInductive
<1> QED BY <1>1, <1>2 DEF Compare

\* Going on to a step needs what that step relies on.
LEMMA GotoInductive ==
    ASSUME IndInv, NEW step \in Steps \ {"done", "exited"}, Goto(step),
           Passed', Searched'
    PROVE  IndInv'
<1>1. /\ call' = call /\ calls' = calls /\ index' = index
      /\ pc' = step /\ ret' = ret /\ accepted' = accepted
  BY DEF Goto
<1>2. TypeOK'
  BY <1>1 DEF IndInv, TypeOK
<1>3. AcceptsOnlyGenuine' /\ AcceptsEveryGenuine'
  BY <1>1 DEF AcceptsOnlyGenuine, AcceptsEveryGenuine
<1> QED BY <1>1, <1>2, <1>3 DEF IndInv

-----------------------------------------------------------------------------
\* The searches do not lose a genuine call: SearchDeps.
LEMMA SearchDepsInductive ==
    ASSUME IndInv, SearchDeps
    PROVE  IndInv'
<1> DEFINE dep == call.deps[index + 1]
<1>1. /\ pc = "deps"
      /\ index \in Nat /\ index <= SIZE_MAX /\ index <= Len(call.deps)
      /\ Len(call.deps) \in Nat
      /\ call.alg \in SecpFamily
      /\ \A k \in 1 .. index : Skipped(call.deps[k])
  BY DEF IndInv, TypeOK, IsRequest, Passed, Searched, SearchDeps
<1>2. Genuine(call) => Loadable(call.deps)
  BY <1>1 DEF Genuine, GenuineAs, SecpFamily
<1>3. ERROR_LOADING_DATA \in ValidateErrors
  BY ErrorCodes
<1>4. ASSUME NEW d, Skipped(d) PROVE ~SecpData(d)
  BY <1>4 DEF Skipped, SecpData
<1>5. CASE index = SIZE_MAX /\ Return(ERROR_LOADING_DATA)
  <2>1. ~Loadable(call.deps)
    BY <1>1, <1>4, <1>5, SizeMaxAssumption DEF Loadable
  <2> QED BY <1>2, <1>3, <1>5, <2>1, ErrorInductive
<1>6. CASE index < SIZE_MAX /\ index >= Len(call.deps) /\ Return(ERROR_LOADING_DATA)
  <2>1. ~Loadable(call.deps)
    BY <1>1, <1>4, <1>6 DEF Loadable
  <2> QED BY <1>2, <1>3, <1>6, <2>1, ErrorInductive
<1>7. CASE /\ index < SIZE_MAX /\ index < Len(call.deps)
           /\ Skipped(dep)
           /\ index' = index + 1
           /\ UNCHANGED <<call, calls, pc, ret, accepted>>
  <2>1. TypeOK' /\ Passed' /\ AcceptsOnlyGenuine' /\ AcceptsEveryGenuine'
    BY <1>1, <1>7 DEF IndInv, TypeOK, Passed, AcceptsOnlyGenuine, AcceptsEveryGenuine
  <2>2. \A k \in 1 .. index + 1 : Skipped(call.deps[k])
    BY <1>1, <1>7
  <2>3. Searched'
    BY <1>1, <1>7, <2>2, SizeMaxAssumption DEF Searched
  <2> QED BY <1>7, <2>1, <2>3 DEF IndInv
<1>8. CASE /\ index < SIZE_MAX /\ index < Len(call.deps)
           /\ SecpData(dep) /\ dep.data = "ok" /\ Goto("recover")
  <2>1. Loadable(call.deps)
    <3> DEFINE j == index + 1
    <3>1. /\ j \in 1 .. Len(call.deps) /\ j <= SIZE_MAX
          /\ \A k \in 1 .. j - 1 : Skipped(call.deps[k])
          /\ SecpData(call.deps[j]) /\ call.deps[j].data = "ok"
      BY <1>1, <1>8, SizeMaxAssumption
    <3> HIDE DEF j
    <3> QED BY <3>1 DEF Loadable
  <2>2. Passed' /\ Searched'
    BY <1>1, <1>8, <2>1 DEF IndInv, Passed, Searched, Goto
  <2> QED BY <1>8, <2>2, GotoInductive DEF Steps
<1>9. CASE /\ index < SIZE_MAX /\ index < Len(call.deps)
           /\ \/ SecpData(dep) /\ dep.data # "ok"
              \/ dep.field = "error"
           /\ Return(ERROR_LOADING_DATA)
  <2>1. ~Skipped(dep) /\ ~(SecpData(dep) /\ dep.data = "ok")
    BY <1>9 DEF Skipped, SecpData
  <2>2. ~Loadable(call.deps)
    <3> SUFFICES ASSUME NEW j \in 1 .. Len(call.deps),
                        \A k \in 1 .. j - 1 : Skipped(call.deps[k]),
                        SecpData(call.deps[j]), call.deps[j].data = "ok"
                 PROVE  FALSE
      BY DEF Loadable
    <3>1. j # index + 1
      BY <2>1
    <3>2. j > index
      BY <1>1, <1>4
    <3>3. index + 1 \in 1 .. j - 1
      BY <1>1, <3>1, <3>2
    <3> QED BY <2>1, <3>3
  <2> QED BY <1>2, <1>3, <1>9, <2>2, ErrorInductive
<1> QED BY <1>5, <1>6, <1>7, <1>8, <1>9, Zenon DEF SearchDeps

\* The searches do not lose a genuine call: SearchInputs.
LEMMA SearchInputsInductive ==
    ASSUME IndInv, SearchInputs
    PROVE  IndInv'
<1> DEFINE input == call.inputs[index + 1]
<1>1. /\ pc = "inputs"
      /\ index \in Nat /\ index <= Len(call.inputs) /\ Len(call.inputs) \in Nat
      /\ call.alg = AuthAlgorithmIdOwnerLock
      /\ call.null = "none" /\ call.message_size > 0
      /\ call.pubkey_hash_size = BLAKE160_SIZE
      /\ \A k \in 1 .. index : /\ call.inputs[k].status = "ok"
                               /\ call.inputs[k].hash # call.pubkey_hash
  BY DEF IndInv, TypeOK, IsRequest, Passed, Searched, SearchInputs
<1>2. Genuine(call) <=> GenuineOwner(call)
  BY <1>1 DEF Genuine, GenuineAs, RecidFamily, HeaderFamily,
       AuthAlgorithmIdCkb, AuthAlgorithmIdEthereum, AuthAlgorithmIdEos,
       AuthAlgorithmIdTron, AuthAlgorithmIdBitcoin, AuthAlgorithmIdDogecoin,
       AuthAlgorithmIdCkbMultisig, AuthAlgorithmIdSchnorr,
       AuthAlgorithmIdLitecoin, AuthAlgorithmIdCardano,
       AuthAlgorithmIdMonero, AuthAlgorithmIdSolana, AuthAlgorithmIdOwnerLock
<1>3. ERROR_MISMATCHED \in ValidateErrors
  BY ErrorCodes
<1>4. CASE index >= Len(call.inputs) /\ Return(ERROR_MISMATCHED)
  <2>1. ~GenuineOwner(call)
    BY <1>1, <1>4 DEF GenuineOwner
  <2> QED BY <1>2, <1>3, <1>4, <2>1, ErrorInductive
<1>5. CASE index < Len(call.inputs) /\ input.status # "ok" /\ Return(ERROR_MISMATCHED)
  <2>1. ~GenuineOwner(call)
    <3> SUFFICES ASSUME NEW j \in 1 .. Len(call.inputs),
                        call.inputs[j].status = "ok",
                        call.inputs[j].hash = call.pubkey_hash,
                        \A k \in 1 .. j - 1 : call.inputs[k].status = "ok"
                 PROVE  FALSE
      BY DEF GenuineOwner
    <3>1. j > index /\ j # index + 1
      BY <1>1, <1>5
    <3>2. index + 1 \in 1 .. j - 1
      BY <1>1, <3>1
    <3> QED BY <1>5, <3>2
  <2> QED BY <1>2, <1>3, <1>5, <2>1, ErrorInductive
<1>6. CASE /\ index < Len(call.inputs) /\ input.status = "ok"
           /\ input.hash = call.pubkey_hash /\ Return(0)
  <2>1. GenuineOwner(call)
    <3> DEFINE j == index + 1
    <3>1. /\ j \in 1 .. Len(call.inputs)
          /\ call.inputs[j].status = "ok" /\ call.inputs[j].hash = call.pubkey_hash
          /\ \A k \in 1 .. j - 1 : call.inputs[k].status = "ok"
      BY <1>1, <1>6
    <3> HIDE DEF j
    <3> QED BY <3>1 DEF GenuineOwner
  <2> QED BY <1>2, <1>6, <2>1, ReturnInductive
<1>7. CASE /\ index < Len(call.inputs) /\ input.status = "ok"
           /\ input.hash # call.pubkey_hash
           /\ index' = index + 1
           /\ UNCHANGED <<call, calls, pc, ret, accepted>>
  <2>1. TypeOK' /\ Passed' /\ AcceptsOnlyGenuine' /\ AcceptsEveryGenuine'
    BY <1>1, <1>7 DEF IndInv, TypeOK, Passed, AcceptsOnlyGenuine, AcceptsEveryGenuine
  <2>2. \A k \in 1 .. index + 1 : /\ call.inputs[k].status = "ok"
                                 /\ call.inputs[k].hash # call.pubkey_hash
    BY <1>1, <1>7
  <2>3. Searched'
    BY <1>1, <1>7, <2>2 DEF Searched
  <2> QED BY <1>7, <2>1, <2>3 DEF IndInv
<1> QED BY <1>4, <1>5, <1>6, <1>7, Zenon DEF SearchInputs

-----------------------------------------------------------------------------
\* The families of ids are disjoint: which part of Genuine decides.
LEMMA GenuineByKind ==
    ASSUME NEW r, r.null = "none", r.message_size > 0,
           r.pubkey_hash_size = BLAKE160_SIZE,
           r.alg \notin {AuthAlgorithmIdCkbMultisig, AuthAlgorithmIdOwnerLock} =>
              r.message_size = BLAKE2B_BLOCK_SIZE,
           r.alg \in SecpFamily => Loadable(r.deps)
    PROVE  /\ r.alg \in RecidFamily => (Genuine(r) <=> GenuineRecid(r.alg, r))
           /\ r.alg \in HeaderFamily => (Genuine(r) <=> GenuineHeader(r.alg, r))
           /\ r.alg = AuthAlgorithmIdSchnorr => (Genuine(r) <=> GenuineSchnorr(r))
           /\ r.alg = AuthAlgorithmIdMonero => (Genuine(r) <=> GenuineMonero(r))
           /\ r.alg = AuthAlgorithmIdCardano => (Genuine(r) <=> GenuineCardano(r))
           /\ r.alg = AuthAlgorithmIdSolana => (Genuine(r) <=> GenuineSolana(r))
           /\ r.alg = AuthAlgorithmIdCkbMultisig =>
                 (Genuine(r) <=> /\ r.signature.scheme = "multisig"
                                 /\ r.pubkey_hash.form = "script"
                                 /\ Authorised(LockOf(r)))
BY DEF Genuine, GenuineAs, SecpFamily, RecidFamily, HeaderFamily,
       AuthAlgorithmIdCkb, AuthAlgorithmIdEthereum, AuthAlgorithmIdEos,
       AuthAlgorithmIdTron, AuthAlgorithmIdBitcoin, AuthAlgorithmIdDogecoin,
       AuthAlgorithmIdCkbMultisig, AuthAlgorithmIdSchnorr,
       AuthAlgorithmIdLitecoin, AuthAlgorithmIdCardano,
       AuthAlgorithmIdMonero, AuthAlgorithmIdSolana, AuthAlgorithmIdOwnerLock

\* The library converts a message as the wallets do.
LEMMA ConvertsLikeWallets ==
    ASSUME NEW alg \in SecpFamily, NEW m
    PROVE  convert(alg, m) = WalletDigest(alg, m)
<1> USE DEF AuthAlgorithmIdCkb, AuthAlgorithmIdEthereum, AuthAlgorithmIdEos,
            AuthAlgorithmIdTron, AuthAlgorithmIdBitcoin, AuthAlgorithmIdDogecoin,
            AuthAlgorithmIdSchnorr, AuthAlgorithmIdLitecoin
<1>1. alg \in {0, 1, 2, 3, 4, 5, 7, 10}
  BY DEF SecpFamily, RecidFamily, HeaderFamily
<1>2. CASE alg = 0 BY <1>2 DEF convert, WalletDigest
<1>3. CASE alg = 1 BY <1>3 DEF convert, WalletDigest
<1>4. CASE alg = 2 BY <1>4 DEF convert, WalletDigest
<1>5. CASE alg = 3 BY <1>5 DEF convert, WalletDigest
<1>6. CASE alg = 4 BY <1>6 DEF convert, WalletDigest
<1>7. CASE alg = 5 BY <1>7 DEF convert, WalletDigest
<1>8. CASE alg = 7 BY <1>8 DEF convert, WalletDigest
<1>9. CASE alg = 10 BY <1>9 DEF convert, WalletDigest
<1> QED BY <1>1, <1>2, <1>3, <1>4, <1>5, <1>6, <1>7, <1>8, <1>9

\* validate_signature_ckb and validate_signature_eth decide rightly.
LEMMA VerifyRecidInductive ==
    ASSUME IndInv, VerifyRecid
    PROVE  IndInv'
<1> DEFINE s == call.signature
           own == s.scheme = "recid"
           digest == convert(call.alg, call.message)
           output(key) == IF call.alg = AuthAlgorithmIdCkb
                          THEN KeyHash("blake160", "compressed", key)
                          ELSE KeyHash("keccak160", "uncompressed", key)
<1>1. /\ call.alg \in RecidFamily
      /\ call.signature_size = SECP256K1_SIGNATURE_SIZE
      /\ Genuine(call) <=> GenuineRecid(call.alg, call)
      /\ own => s.parity \in 0 .. 3
  <2>1. pc = "recover" /\ call.alg \in RecidFamily
    BY DEF VerifyRecid
  <2>2. call.alg \in RecidFamily => call.alg # AuthAlgorithmIdSchnorr
    BY DEF RecidFamily, AuthAlgorithmIdCkb, AuthAlgorithmIdEthereum, AuthAlgorithmIdEos,
       AuthAlgorithmIdTron, AuthAlgorithmIdSchnorr
  <2>3. own => s.parity \in 0 .. 3
    BY DEF IndInv, TypeOK, IsRequest, IsSignature
  <2>4. Genuine(call) <=> GenuineRecid(call.alg, call)
    BY <2>1, GenuineByKind DEF IndInv, Passed, Searched
  <2> QED BY <2>1, <2>2, <2>3, <2>4 DEF IndInv, Passed
<1>2. digest = WalletDigest(call.alg, call.message)
  BY <1>1, ConvertsLikeWallets DEF SecpFamily
<1>3. output(s.by) = WalletHash(call.alg, s.by, TRUE)
  <2>1. CASE call.alg = AuthAlgorithmIdCkb
    <3>1. call.alg \notin HeaderFamily
      BY <2>1 DEF HeaderFamily, AuthAlgorithmIdCkb, AuthAlgorithmIdBitcoin,
         AuthAlgorithmIdDogecoin, AuthAlgorithmIdLitecoin
    <3> QED BY <2>1, <3>1 DEF WalletHash
  <2>2. CASE call.alg \in RecidFamily \ {AuthAlgorithmIdCkb}
    <3>1. call.alg \notin HeaderFamily
      BY <2>2 DEF HeaderFamily, RecidFamily, AuthAlgorithmIdCkb,
         AuthAlgorithmIdEthereum, AuthAlgorithmIdEos, AuthAlgorithmIdTron,
         AuthAlgorithmIdBitcoin, AuthAlgorithmIdDogecoin, AuthAlgorithmIdLitecoin
    <3> QED BY <2>2, <3>1 DEF WalletHash
  <2> QED BY <1>1, <2>1, <2>2
<1>4. Genuine(call) <=> /\ own /\ s.parses
                        /\ Recovers(s, "recid", s.byte, digest)
                        /\ call.pubkey_hash = output(s.by)
  BY <1>1, <1>2, <1>3 DEF GenuineRecid, Recovers
<1>5. CASE (own => s.byte \notin 0 .. 3) /\ Exit
  BY <1>1, <1>4, <1>5, ExitInductive DEF Recovers
<1>6. CASE /\ ~(own /\ s.parses /\ Recovers(s, "recid", s.byte, digest))
           /\ Return(ERROR_WRONG_STATE)
  BY <1>4, <1>6, ErrorCodes, ErrorInductive
<1>7. CASE /\ ~(own /\ Recovers(s, "recid", s.byte, digest))
           /\ Return(ERROR_MISMATCHED)
  BY <1>4, <1>7, ErrorCodes, ErrorInductive
<1>8. CASE /\ own /\ s.parses /\ Recovers(s, "recid", s.byte, digest)
           /\ Compare(output(s.by))
  BY <1>4, <1>8, CompareInductive
<1> HIDE DEF output
<1> QED BY <1>5, <1>6, <1>7, <1>8, Zenon DEF VerifyRecid, output

\* The header byte: its low three bits past 27 are the recovery id and the
\* compression, as wallets write them.
LEMMA HeaderByte ==
    ASSUME NEW b \in Byte, NEW p \in 0 .. 3
    PROVE  /\ b % 8 = WalletMark(p, TRUE) % 8
                <=> (b - 27) % 4 = p /\ ((b - 27) \div 4) % 2 = 1
           /\ b % 8 = WalletMark(p, FALSE) % 8
                <=> (b - 27) % 4 = p /\ ((b - 27) \div 4) % 2 # 1
BY SMTT(60) DEF Byte, WalletMark

\* validate_signature_btc decides rightly.
LEMMA VerifyHeaderInductive ==
    ASSUME IndInv, VerifyHeader
    PROVE  IndInv'
<1> DEFINE s == call.signature
           own == s.scheme = "header"
           digest == convert(call.alg, call.message)
           recid == (s.byte - 27) % 4
           comp == ((s.byte - 27) \div 4) % 2 = 1
           output == KeyHash("hash160", IF comp THEN "compressed" ELSE "uncompressed", s.by)
<1>1. /\ call.alg \in HeaderFamily
      /\ call.alg \notin RecidFamily
      /\ call.signature_size = SECP256K1_SIGNATURE_SIZE
      /\ Genuine(call) <=> GenuineHeader(call.alg, call)
      /\ own => s.parity \in 0 .. 3 /\ s.byte \in Byte
  <2>1. pc = "recover" /\ call.alg \in HeaderFamily
    BY DEF VerifyHeader
  <2>2. call.alg # AuthAlgorithmIdSchnorr /\ call.alg \notin RecidFamily
    BY <2>1 DEF RecidFamily, HeaderFamily, AuthAlgorithmIdCkb,
       AuthAlgorithmIdEthereum, AuthAlgorithmIdEos, AuthAlgorithmIdTron,
       AuthAlgorithmIdBitcoin, AuthAlgorithmIdDogecoin,
       AuthAlgorithmIdLitecoin, AuthAlgorithmIdSchnorr
  <2>3. own => s.parity \in 0 .. 3 /\ s.byte \in Byte
    BY DEF IndInv, TypeOK, IsRequest, IsSignature
  <2>4. Genuine(call) <=> GenuineHeader(call.alg, call)
    BY <2>1, GenuineByKind DEF IndInv, Passed, Searched
  <2> QED BY <2>1, <2>2, <2>3, <2>4 DEF IndInv, Passed
<1>2. digest = WalletDigest(call.alg, call.message)
  BY <1>1, ConvertsLikeWallets DEF SecpFamily
<1>3. \A c \in BOOLEAN : WalletHash(call.alg, s.by, c) =
          KeyHash("hash160", IF c THEN "compressed" ELSE "uncompressed", s.by)
  <2>1. call.alg # AuthAlgorithmIdCkb
    BY <1>1 DEF RecidFamily
  <2> QED BY <1>1, <2>1 DEF WalletHash
<1>4. ASSUME own, NEW c \in BOOLEAN
      PROVE  s.byte % 8 = WalletMark(s.parity, c) % 8 <=> recid = s.parity /\ (comp <=> c)
  <2>1. /\ s.byte % 8 = WalletMark(s.parity, TRUE) % 8 <=> recid = s.parity /\ comp
        /\ s.byte % 8 = WalletMark(s.parity, FALSE) % 8 <=> recid = s.parity /\ ~comp
    BY <1>1, <1>4, HeaderByte, Zenon
  <2> HIDE DEF recid, comp
  <2>2. CASE c = TRUE
    BY <2>1, <2>2, Zenon
  <2>3. CASE c = FALSE
    BY <2>1, <2>3, Zenon
  <2> QED BY <2>2, <2>3
<1>5. Genuine(call) <=> /\ own /\ s.parses
                        /\ Recovers(s, "header", recid, digest)
                        /\ call.pubkey_hash = output
  <2> HIDE DEF recid, comp
  <2>1. ASSUME GenuineHeader(call.alg, call)
        PROVE  /\ own /\ s.parses
               /\ Recovers(s, "header", recid, digest)
               /\ call.pubkey_hash = output
    <3>1. own /\ s.parses /\ s.over = digest
      BY <1>2, <2>1 DEF GenuineHeader
    <3>2. PICK c \in BOOLEAN : /\ s.byte % 8 = WalletMark(s.parity, c) % 8
                               /\ call.pubkey_hash = WalletHash(call.alg, s.by, c)
      BY <2>1 DEF GenuineHeader
    <3>3. recid = s.parity /\ (comp <=> c)
      BY <1>4, <3>1, <3>2
    <3>4. call.pubkey_hash = output
      BY <1>3, <3>2, <3>3
    <3> QED BY <3>1, <3>3, <3>4 DEF Recovers
  <2>2. ASSUME own, s.parses, Recovers(s, "header", recid, digest),
               call.pubkey_hash = output
        PROVE  GenuineHeader(call.alg, call)
    <3>1. PICK c \in BOOLEAN : c <=> comp
      OBVIOUS
    <3>2. s.byte % 8 = WalletMark(s.parity, c) % 8
      BY <1>4, <2>2, <3>1 DEF Recovers
    <3>3. call.pubkey_hash = WalletHash(call.alg, s.by, c)
      BY <1>3, <2>2, <3>1
    <3> QED BY <1>1, <1>2, <2>2, <3>2, <3>3 DEF GenuineHeader, Recovers
  <2> QED BY <1>1, <2>1, <2>2
<1>6. CASE /\ ~(own /\ s.parses /\ Recovers(s, "header", recid, digest))
           /\ Return(ERROR_WRONG_STATE)
  BY <1>5, <1>6, ErrorCodes, ErrorInductive
<1>7. CASE /\ ~(own /\ Recovers(s, "header", recid, digest))
           /\ Return(ERROR_MISMATCHED)
  BY <1>5, <1>7, ErrorCodes, ErrorInductive
<1>8. CASE /\ own /\ s.parses /\ Recovers(s, "header", recid, digest)
           /\ Compare(output)
  BY <1>5, <1>8, CompareInductive
<1> QED BY <1>6, <1>7, <1>8, Zenon DEF VerifyHeader

\* validate_signature_schnorr decides rightly.
LEMMA VerifySchnorrInductive ==
    ASSUME IndInv, VerifySchnorr
    PROVE  IndInv'
<1> DEFINE s == call.signature
           valid == /\ s.scheme = "schnorr"
                    /\ s.on_curve
                    /\ s.by = s.pk
                    /\ s.over = convert(call.alg, call.message)
           output == KeyHash("blake160", "xonly", s.pk)
<1>1. /\ call.alg = AuthAlgorithmIdSchnorr
      /\ call.signature_size = SCHNORR_SIGNATURE_SIZE
      /\ Genuine(call) <=> GenuineSchnorr(call)
  <2>1. pc = "recover" /\ call.alg = AuthAlgorithmIdSchnorr
    BY DEF VerifySchnorr
  <2>2. Genuine(call) <=> GenuineSchnorr(call)
    BY <2>1, GenuineByKind DEF IndInv, Passed, Searched
  <2> QED BY <2>1, <2>2 DEF IndInv, Passed
<1>2. convert(call.alg, call.message) = WalletDigest(call.alg, call.message)
  BY <1>1, ConvertsLikeWallets DEF SecpFamily
<1>3. Genuine(call) <=> valid /\ call.pubkey_hash = output
  BY <1>1, <1>2 DEF GenuineSchnorr
<1>4. CASE ~valid /\ Return(ERROR_SCHNORR)
  BY <1>3, <1>4, ErrorCodes, ErrorInductive
<1>5. CASE valid /\ Compare(output)
  BY <1>3, <1>5, CompareInductive
<1> QED BY <1>4, <1>5, Zenon DEF VerifySchnorr

\* What holds when a validate_signature function without secp256k1 starts.
LEMMA AtVerify ==
    ASSUME IndInv, pc = "verify"
    PROVE  /\ call.alg = AuthAlgorithmIdMonero =>
                 /\ call.signature_size = MONERO_DATA_SIZE
                 /\ Genuine(call) <=> GenuineMonero(call)
           /\ call.alg = AuthAlgorithmIdCardano =>
                 (Genuine(call) <=> GenuineCardano(call))
           /\ call.alg = AuthAlgorithmIdSolana =>
                 /\ call.signature_size = SOLANA_WRAPPED_SIGNATURE_SIZE
                 /\ Genuine(call) <=> GenuineSolana(call)
<1>1. /\ call.null = "none" /\ call.message_size > 0
      /\ call.pubkey_hash_size = BLAKE160_SIZE
      /\ call.message_size = BLAKE2B_BLOCK_SIZE
  BY DEF IndInv, Passed
<1>2. call.alg \notin SecpFamily
  BY DEF IndInv, Passed, SecpFamily, RecidFamily, HeaderFamily,
       AuthAlgorithmIdCkb, AuthAlgorithmIdEthereum, AuthAlgorithmIdEos,
       AuthAlgorithmIdTron, AuthAlgorithmIdBitcoin, AuthAlgorithmIdDogecoin,
       AuthAlgorithmIdCkbMultisig, AuthAlgorithmIdSchnorr,
       AuthAlgorithmIdLitecoin, AuthAlgorithmIdCardano,
       AuthAlgorithmIdMonero, AuthAlgorithmIdSolana, AuthAlgorithmIdOwnerLock
<1>3. /\ call.alg = AuthAlgorithmIdMonero => call.signature_size = MONERO_DATA_SIZE
      /\ call.alg = AuthAlgorithmIdSolana =>
            call.signature_size = SOLANA_WRAPPED_SIGNATURE_SIZE
  BY DEF IndInv, Passed,
       AuthAlgorithmIdCkb, AuthAlgorithmIdEthereum, AuthAlgorithmIdEos,
       AuthAlgorithmIdTron, AuthAlgorithmIdBitcoin, AuthAlgorithmIdDogecoin,
       AuthAlgorithmIdCkbMultisig, AuthAlgorithmIdSchnorr,
       AuthAlgorithmIdLitecoin, AuthAlgorithmIdCardano,
       AuthAlgorithmIdMonero, AuthAlgorithmIdSolana, AuthAlgorithmIdOwnerLock
<1> QED BY <1>1, <1>2, <1>3, GenuineByKind

\* validate_signature_monero decides rightly.
LEMMA VerifyMoneroInductive ==
    ASSUME IndInv, VerifyMonero
    PROVE  IndInv'
<1> DEFINE s == call.signature
           own == s.scheme = "monero"
           address == [mode |-> s.mode, spend |-> s.spend, view |-> s.view]
           valid == /\ s.by = s.spend
                    /\ s.over = MoneroDigest(address, call.message)
           output == KeyHash("blake160", "monero", address)
<1>1. call.alg = AuthAlgorithmIdMonero /\ pc = "verify"
  BY DEF VerifyMonero
<1>2. Genuine(call) <=> own /\ s.mode = 0 /\ valid /\ call.pubkey_hash = output
  BY <1>1, AtVerify, Zenon DEF GenuineMonero
<1>3. CASE (own => s.mode # 0) /\ Return(ERROR_INVALID_ARG)
  BY <1>2, <1>3, ErrorCodes, ErrorInductive
<1>4. CASE (own => s.mode = 0 /\ ~valid) /\ Return(ERROR_SPAWN_INVALID_SIG)
  BY <1>2, <1>4, ErrorCodes, ErrorInductive
<1>5. CASE own /\ s.mode = 0 /\ valid /\ Compare(output)
  BY <1>2, <1>5, CompareInductive
<1> QED BY <1>3, <1>4, <1>5, Zenon DEF VerifyMonero

\* validate_signature_cardano decides rightly.
LEMMA VerifyCardanoInductive ==
    ASSUME IndInv, VerifyCardano
    PROVE  IndInv'
<1> DEFINE s == call.signature
           own == s.scheme = "cardano"
           fits == s.parsed /\ s.ckb_sign_msg = call.message
           valid == s.by = s.pk /\ s.over = CardanoDigest(s.ckb_sign_msg)
           output == KeyHash("blake160", "ed25519", s.pk)
<1>1. call.alg = AuthAlgorithmIdCardano /\ pc = "verify"
  BY DEF VerifyCardano
<1>2. Genuine(call) <=> own /\ fits /\ valid /\ call.pubkey_hash = output
  BY <1>1, AtVerify, Zenon DEF GenuineCardano
<1>3. CASE ~(own /\ fits) /\ Return(ERROR_INVALID_ARG)
  BY <1>2, <1>3, ErrorCodes, ErrorInductive
<1>4. CASE own /\ fits /\ ~valid /\ Return(ERROR_WRONG_STATE)
  BY <1>2, <1>4, ErrorCodes, ErrorInductive
<1>5. CASE own /\ fits /\ valid /\ Compare(output)
  BY <1>2, <1>5, CompareInductive
<1> QED BY <1>3, <1>4, <1>5, Zenon DEF VerifyCardano

\* validate_signature_solana decides rightly.
LEMMA VerifySolanaInductive ==
    ASSUME IndInv, VerifySolana
    PROVE  IndInv'
<1> DEFINE s == call.signature
           own == s.scheme = "solana"
           fits == /\ s.len <= SOLANA_UNWRAPPED_SIGNATURE_SIZE
                   /\ s.laid_out
                   /\ s.blockhash = call.message
                   /\ \E j \in 1 .. Len(s.slots) : s.slots[j] = s.pk
           valid == s.by = s.pk /\ s.over = SolanaDigest(s.slots, s.blockhash)
           output == KeyHash("blake160", "ed25519", s.pk)
<1>1. call.alg = AuthAlgorithmIdSolana /\ pc = "verify"
  BY DEF VerifySolana
<1>2. Genuine(call) <=> own /\ fits /\ valid /\ call.pubkey_hash = output
  BY <1>1, AtVerify, Zenon DEF GenuineSolana
<1>3. CASE ~(own /\ fits) /\ Return(ERROR_INVALID_ARG)
  BY <1>2, <1>3, ErrorCodes, ErrorInductive
<1>4. CASE own /\ fits /\ ~valid /\ Return(ERROR_WRONG_STATE)
  BY <1>2, <1>4, ErrorCodes, ErrorInductive
<1>5. CASE own /\ fits /\ valid /\ Compare(output)
  BY <1>2, <1>5, CompareInductive
<1> QED BY <1>3, <1>4, <1>5, Zenon DEF VerifySolana

\* The call of verify_multisig decides rightly.
LEMMA VerifyMultisigInductive ==
    ASSUME IndInv, VerifyMultisig
    PROVE  IndInv'
<1> DEFINE good == /\ call.signature.scheme = "multisig"
                   /\ call.pubkey_hash.form = "script"
                   /\ Authorised(LockOf(call))
<1>1. Genuine(call) <=> good
  <2>1. /\ call.null = "none" /\ call.message_size > 0
        /\ call.pubkey_hash_size = BLAKE160_SIZE
        /\ call.alg = AuthAlgorithmIdCkbMultisig
    BY DEF IndInv, Passed, VerifyMultisig
  <2>2. call.alg \notin SecpFamily
    BY <2>1 DEF SecpFamily, RecidFamily, HeaderFamily,
       AuthAlgorithmIdCkb, AuthAlgorithmIdEthereum, AuthAlgorithmIdEos,
       AuthAlgorithmIdTron, AuthAlgorithmIdBitcoin, AuthAlgorithmIdDogecoin,
       AuthAlgorithmIdCkbMultisig, AuthAlgorithmIdSchnorr,
       AuthAlgorithmIdLitecoin, AuthAlgorithmIdCardano,
       AuthAlgorithmIdMonero, AuthAlgorithmIdSolana, AuthAlgorithmIdOwnerLock
  <2> QED BY <2>1, <2>2, GenuineByKind
<1>2. CASE good /\ Return(0)
  BY <1>1, <1>2, ReturnInductive
<1>3. CASE ~good /\ Exit
  BY <1>1, <1>3, ExitInductive
<1>4. ASSUME ~good, NEW code \in Errors \ {ERROR_ILLEGAL_CALLBACK}, Return(code)
      PROVE  IndInv'
  BY <1>1, <1>4, ErrorCodes, ErrorInductive
<1> QED BY <1>2, <1>3, <1>4, Zenon DEF VerifyMultisig

-----------------------------------------------------------------------------
\* A genuine call passes the checks of the arguments.
LEMMA CheckArgsInductive ==
    ASSUME IndInv, CheckArgs
    PROVE  IndInv'
<1> DEFINE good == /\ call.null = "none"
                   /\ call.message_size > 0
                   /\ call.pubkey_hash_size = BLAKE160_SIZE
<1>1. CASE ~good /\ Return(ERROR_INVALID_ARG)
  <2>1. ~Genuine(call)
    BY <1>1 DEF Genuine, GenuineAs
  <2> QED BY <1>1, <2>1, ErrorCodes, ErrorInductive
<1>2. CASE good /\ Goto("dispatch")
  <2>1. pc = "args" /\ index = 0
    BY DEF CheckArgs, IndInv, Searched
  <2>2. Passed' /\ Searched'
    BY <1>2, <2>1 DEF Passed, Searched, Goto
  <2> QED BY <1>2, <2>2, GotoInductive DEF Steps
<1> QED BY <1>1, <1>2, Zenon DEF CheckArgs

\* A genuine call has the sizes verify asks for.
LEMMA StartVerifyInductive ==
    ASSUME IndInv, pc = "dispatch", NEW size, NEW step \in {"deps", "verify"},
           StartVerify(size, step),
           call.alg \notin {AuthAlgorithmIdCkbMultisig, AuthAlgorithmIdOwnerLock},
           Genuine(call) => call.signature_size = size,
           step = "deps" =>
              /\ call.alg \in SecpFamily
              /\ size = IF call.alg = AuthAlgorithmIdSchnorr
                        THEN SCHNORR_SIGNATURE_SIZE ELSE SECP256K1_SIGNATURE_SIZE,
           step = "verify" =>
              \/ call.alg = AuthAlgorithmIdCardano
              \/ call.alg = AuthAlgorithmIdMonero /\ size = MONERO_DATA_SIZE
              \/ call.alg = AuthAlgorithmIdSolana /\ size = SOLANA_WRAPPED_SIGNATURE_SIZE
    PROVE  IndInv'
<1> DEFINE good == /\ call.message_size = BLAKE2B_BLOCK_SIZE
                   /\ call.signature_size = size
<1>1. CASE ~good /\ Return(ERROR_INVALID_ARG)
  <2>1. ~Genuine(call)
    BY <1>1 DEF Genuine, GenuineAs
  <2> QED BY <1>1, <2>1, ErrorCodes, ErrorInductive
<1>2. CASE good /\ Goto(step)
  <2>1. /\ call.null = "none" /\ call.message_size > 0
        /\ call.pubkey_hash_size = BLAKE160_SIZE /\ index = 0
        /\ call' = call /\ index' = index /\ pc' = step
    BY <1>2 DEF IndInv, Passed, Searched, Goto
  <2>2. Passed'
    BY <1>2, <2>1 DEF Passed
  <2>3. Len(call.deps) \in Nat /\ SIZE_MAX \in Nat
    BY SizeMaxAssumption DEF IndInv, TypeOK, IsRequest
  <2>4. Searched'
    BY <2>1, <2>3 DEF Searched
  <2> QED BY <1>2, <2>2, <2>4, GotoInductive DEF Steps
<1> QED BY <1>1, <1>2 DEF StartVerify

\* The dispatch sends every call to the step that decides it.
LEMMA DispatchInductive ==
    ASSUME IndInv, Dispatch
    PROVE  IndInv'
<1> USE DEF AuthAlgorithmIdCkb, AuthAlgorithmIdEthereum, AuthAlgorithmIdEos,
       AuthAlgorithmIdTron, AuthAlgorithmIdBitcoin, AuthAlgorithmIdDogecoin,
       AuthAlgorithmIdCkbMultisig, AuthAlgorithmIdSchnorr,
       AuthAlgorithmIdLitecoin, AuthAlgorithmIdCardano,
       AuthAlgorithmIdMonero, AuthAlgorithmIdSolana, AuthAlgorithmIdOwnerLock
<1>1. /\ pc = "dispatch" /\ index = 0
      /\ call.null = "none" /\ call.message_size > 0
      /\ call.pubkey_hash_size = BLAKE160_SIZE
  BY DEF IndInv, Passed, Searched, Dispatch
<1>2. /\ Genuine(call) /\ call.alg \in RecidFamily \cup HeaderFamily =>
            call.signature_size = SECP256K1_SIGNATURE_SIZE
      /\ Genuine(call) /\ call.alg = AuthAlgorithmIdSchnorr =>
            call.signature_size = SCHNORR_SIGNATURE_SIZE
      /\ Genuine(call) /\ call.alg = AuthAlgorithmIdMonero =>
            call.signature_size = MONERO_DATA_SIZE
      /\ Genuine(call) /\ call.alg = AuthAlgorithmIdSolana =>
            call.signature_size = SOLANA_WRAPPED_SIGNATURE_SIZE
  <2>1. /\ GenuineRecid(call.alg, call) => call.signature_size = SECP256K1_SIGNATURE_SIZE
        /\ GenuineHeader(call.alg, call) => call.signature_size = SECP256K1_SIGNATURE_SIZE
        /\ GenuineSchnorr(call) => call.signature_size = SCHNORR_SIGNATURE_SIZE
        /\ GenuineMonero(call) => call.signature_size = MONERO_DATA_SIZE
        /\ GenuineSolana(call) => call.signature_size = SOLANA_WRAPPED_SIGNATURE_SIZE
    BY Zenon DEF GenuineRecid, GenuineHeader, GenuineSchnorr, GenuineMonero, GenuineSolana
  <2> QED BY <2>1 DEF Genuine, GenuineAs, RecidFamily, HeaderFamily
<1>3. CASE /\ call.alg \in RecidFamily \cup HeaderFamily
           /\ StartVerify(SECP256K1_SIGNATURE_SIZE, "deps")
  BY <1>1, <1>2, <1>3, StartVerifyInductive DEF SecpFamily, RecidFamily, HeaderFamily
<1>4. CASE /\ call.alg = AuthAlgorithmIdSchnorr
           /\ StartVerify(SCHNORR_SIGNATURE_SIZE, "deps")
  BY <1>1, <1>2, <1>4, StartVerifyInductive DEF SecpFamily
<1>5. CASE /\ call.alg = AuthAlgorithmIdMonero
           /\ StartVerify(MONERO_DATA_SIZE, "verify")
  BY <1>1, <1>2, <1>5, StartVerifyInductive
<1>6. CASE /\ call.alg = AuthAlgorithmIdSolana
           /\ StartVerify(SOLANA_WRAPPED_SIGNATURE_SIZE, "verify")
  BY <1>1, <1>2, <1>6, StartVerifyInductive
<1>7. CASE /\ call.alg = AuthAlgorithmIdCardano
           /\ StartVerify(call.signature_size, "verify")
  BY <1>1, <1>7, StartVerifyInductive
<1>8. CASE call.alg = AuthAlgorithmIdCkbMultisig /\ Goto("multisig")
  <2>1. Passed' /\ Searched'
    BY <1>1, <1>8 DEF Passed, Searched, Goto
  <2> QED BY <1>8, <2>1, GotoInductive DEF Steps
<1>9. CASE call.alg = AuthAlgorithmIdOwnerLock /\ Goto("inputs")
  <2>1. Len(call.inputs) \in Nat
    BY DEF IndInv, TypeOK, IsRequest
  <2>2. Passed' /\ Searched'
    BY <1>1, <1>9, <2>1 DEF Passed, Searched, Goto
  <2> QED BY <1>9, <2>2, GotoInductive DEF Steps
<1>10. CASE /\ call.alg \notin RecidFamily \cup HeaderFamily
            /\ call.alg \notin
                  { AuthAlgorithmIdSchnorr, AuthAlgorithmIdMonero,
                    AuthAlgorithmIdSolana, AuthAlgorithmIdCardano,
                    AuthAlgorithmIdCkbMultisig, AuthAlgorithmIdOwnerLock }
            /\ Return(ERROR_NOT_IMPLEMENTED)
  <2>1. ~Genuine(call)
    BY <1>10 DEF Genuine, GenuineAs
  <2> QED BY <1>10, <2>1, ErrorCodes, ErrorInductive
<1> QED BY <1>3, <1>4, <1>5, <1>6, <1>7, <1>8, <1>9, <1>10 DEF Dispatch

\* Another call starts afresh, with the ids accepted so far.
LEMMA CallAgainInductive ==
    ASSUME IndInv, CallAgain
    PROVE  IndInv'
<1>1. PICK r \in Requests : call' = [call EXCEPT !.alg = r.alg]
  BY DEF CallAgain
<1>2. r.alg \in Byte /\ IsRequest(call)
  BY RequestsAssumption DEF IsRequest, IndInv, TypeOK
<1>3. IsRequest(call') /\ \A a : GenuineAs(a, call') <=> GenuineAs(a, call)
  BY <1>1, <1>2, SameRequest
<1>4. /\ calls' = calls + 1 /\ calls < MaxCalls /\ pc' = "args" /\ index' = 0
      /\ ret' = ret /\ accepted' = accepted
  BY DEF CallAgain
<1>5. TypeOK'
  BY <1>3, <1>4, MaxCallsAssumption DEF IndInv, TypeOK, Steps
<1>6. Passed' /\ Searched' /\ AcceptsOnlyGenuine' /\ AcceptsEveryGenuine'
  BY <1>4 DEF Passed, Searched, AcceptsOnlyGenuine, AcceptsEveryGenuine
<1>7. \A a \in accepted' : GenuineAs(a, call')
  BY <1>3, <1>4 DEF IndInv
<1> QED BY <1>5, <1>6, <1>7 DEF IndInv

\* A step that changes nothing.
LEMMA StutterInductive ==
    ASSUME IndInv, UNCHANGED vars
    PROVE  IndInv'
<1>1. /\ call' = call /\ calls' = calls /\ pc' = pc /\ index' = index
      /\ ret' = ret /\ accepted' = accepted
  BY DEF vars
<1> QED BY <1>1 DEF IndInv, TypeOK, Passed, Searched, AcceptsOnlyGenuine,
            AcceptsEveryGenuine

-----------------------------------------------------------------------------
\* IndInv is an invariant of ckb_auth_validate.
THEOREM Inductive == Spec => []IndInv
<1>1. IndInv /\ [Next]_vars => IndInv'
  BY CheckArgsInductive, DispatchInductive, SearchDepsInductive,
     VerifyRecidInductive, VerifyHeaderInductive, VerifySchnorrInductive,
     VerifyMoneroInductive, VerifyCardanoInductive, VerifySolanaInductive,
     VerifyMultisigInductive, SearchInputsInductive, CallAgainInductive,
     StutterInductive DEF Next, Step, Returned
<1> QED BY <1>1, InitInductive, PTL DEF Spec

\* ckb_auth_validate accepts only what the wallet of the id signed: for every
\* request, every number of cell deps, inputs and repeated calls.
THEOREM Soundness == Spec => []AcceptsOnlyGenuine
<1>1. IndInv => AcceptsOnlyGenuine
  BY DEF IndInv
<1> QED BY <1>1, Inductive, PTL

\* ckb_auth_validate refuses nothing that the wallet of the id signed.
THEOREM Completeness == Spec => []AcceptsEveryGenuine
<1>1. IndInv => AcceptsEveryGenuine
  BY DEF IndInv
<1> QED BY <1>1, Inductive, PTL

\* A signature accepted under one id is never accepted under another.
THEOREM Separation == Spec => []OneDomain
<1>1. IndInv => OneDomain
  BY GenuineOnce DEF IndInv, TypeOK, OneDomain
<1> QED BY <1>1, Inductive, PTL

\* The variables of ckb_auth_validate keep their types.
THEOREM TypeCorrect == Spec => []TypeOK
<1>1. IndInv => TypeOK
  BY DEF IndInv
<1> QED BY <1>1, Inductive, PTL
=============================================================================
