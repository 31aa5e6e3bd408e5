------------------------------ MODULE Multisig ------------------------------
(***************************************************************************)
(* verify_multisig of c/auth.c: the CKB multisig lock, M of N recoverable  *)
(* secp256k1 signatures of which the first R listed keys must all sign.    *)
(*                                                                         *)
(* One call of the function is one behaviour: Init picks the arguments,    *)
(* each action is one check or one round of the signature loop.            *)
(***************************************************************************)
EXTENDS MultisigData

VARIABLES
    lock,  \* lock_bytes, lock_bytes_len, message, hash
    pc,    \* the next check
    i,     \* signatures verified so far
    used,  \* positions p with used_signatures[p] = 1 (positions from 1)
    ret    \* the returned (or, in the illegal callback, exit) code, 0 until then

vars == <<lock, pc, i, used, ret>>

Steps == {"flags", "length", "script_hash", "secp", "signatures", "required", "done"}

Init ==
    /\ lock \in Locks
    /\ pc = "flags"
    /\ i = 0
    /\ used = {}
    /\ ret = 0

Return(code) ==
    /\ pc' = "done"
    /\ ret' = code
    /\ UNCHANGED <<lock, i, used>>

Goto(step) ==
    /\ pc' = step
    /\ UNCHANGED <<lock, i, used, ret>>

\* The first flag check that fails, 0 when all pass.
FlagError(r) ==
    IF r.reserved_field # 0 THEN ERROR_INVALID_RESERVE_FIELD
    ELSE IF r.pubkeys_cnt = 0 THEN ERROR_INVALID_PUBKEYS_CNT
    ELSE IF r.threshold > r.pubkeys_cnt \/ r.threshold = 0
         THEN ERROR_INVALID_THRESHOLD
    ELSE IF r.require_first_n > r.threshold THEN ERROR_INVALID_REQUIRE_FIRST_N
    ELSE 0

CheckFlags ==
    /\ pc = "flags"
    /\ \/ FlagError(lock) # 0 /\ Return(FlagError(lock))
       \/ FlagError(lock) = 0 /\ Goto("length")

CheckLength ==
    /\ pc = "length"
    /\ \/ lock.len # RequiredLockLen(lock) /\ Return(ERROR_WITNESS_SIZE)
       \/ lock.len = RequiredLockLen(lock) /\ Goto("script_hash")

CheckScriptHash ==
    /\ pc = "script_hash"
    /\ \/ lock.hash # Script(lock) /\ Return(ERROR_MULTSIG_SCRIPT_HASH)
       \/ lock.hash = Script(lock) /\ Goto("secp")

InitializeSecp ==
    /\ pc = "secp"
    /\ \/ ~lock.secp_data /\ Return(ERROR_LOADING_DATA)
       \/ lock.secp_data /\ Goto("signatures")

\* Mutant: a position may be matched again.
UnmatchedReuse(r, taken, key) ==
    { p \in 1 .. r.pubkeys_cnt : r.pubkeys[p] = key }

\* Positions that still may be matched by key: not used, and listing it.
Unmatched(r, taken, key) ==
    { p \in 1 .. r.pubkeys_cnt : p \notin taken /\ r.pubkeys[p] = key }

Least(S) == CHOOSE p \in S : \A q \in S : p <= q

\* Mutant: an unmatched signature is tried again instead of ending the call.
VerifySignatureRetry ==
    /\ pc = "signatures"
    /\ i < lock.threshold
    /\ LET sig == lock.sigs[i + 1]
           free == Unmatched(lock, used, Recovered(sig, lock.message))
       IN  \/ sig.form = "bad_recid" /\ Return(ERROR_ILLEGAL_CALLBACK)
           \/ sig.form = "unparsable" /\ Return(ERROR_SECP_PARSE_SIGNATURE)
           \/ sig.form = "unrecoverable" /\ Return(ERROR_SECP_RECOVER_PUBKEY)
           \/ sig.form = "signed" /\ free = {} /\ UNCHANGED vars
           \/ /\ sig.form = "signed"
              /\ free # {}
              /\ used' = used \cup {Least(free)}
              /\ i' = i + 1
              /\ UNCHANGED <<lock, pc, ret>>

\* One round of the loop: parse, recover, mark the first position it matches.
VerifySignature ==
    /\ pc = "signatures"
    /\ i < lock.threshold
    /\ LET sig == lock.sigs[i + 1]
           free == Unmatched(lock, used, Recovered(sig, lock.message))
       IN  \/ sig.form = "bad_recid" /\ Return(ERROR_ILLEGAL_CALLBACK)
           \/ sig.form = "unparsable" /\ Return(ERROR_SECP_PARSE_SIGNATURE)
           \/ sig.form = "unrecoverable" /\ Return(ERROR_SECP_RECOVER_PUBKEY)
           \/ sig.form = "signed" /\ free = {} /\ Return(ERROR_VERIFICATION)
           \/ /\ sig.form = "signed"
              /\ free # {}
              /\ used' = used \cup {Least(free)}
              /\ i' = i + 1
              /\ UNCHANGED <<lock, pc, ret>>

AllVerified ==
    /\ pc = "signatures"
    /\ i = lock.threshold
    /\ Goto("required")

\* Mutant: the last required position is not looked at.
CheckRequiredShort ==
    /\ pc = "required"
    /\ LET first == 1 .. lock.require_first_n - 1
       IN  \/ ~(first \subseteq used) /\ Return(ERROR_VERIFICATION)
           \/ first \subseteq used /\ Return(0)

\* Mutant: as many positions are required as there are signatures.
CheckRequiredThreshold ==
    /\ pc = "required"
    /\ LET first == 1 .. lock.threshold
       IN  \/ ~(first \subseteq used) /\ Return(ERROR_VERIFICATION)
           \/ first \subseteq used /\ Return(0)

\* The closing loop over the first require_first_n positions, and return 0.
CheckRequired ==
    /\ pc = "required"
    /\ \/ ~(1 .. lock.require_first_n \subseteq used) /\ Return(ERROR_VERIFICATION)
       \/ 1 .. lock.require_first_n \subseteq used /\ Return(0)

\* The caller has the result; nothing happens any more.
Returned == pc = "done" /\ UNCHANGED vars

Step ==
    \/ CheckFlags
    \/ CheckLength
    \/ CheckScriptHash
    \/ InitializeSecp
    \/ VerifySignature
    \/ AllVerified
    \/ CheckRequired

Next == Step \/ Returned

Spec == Init /\ [][Next]_vars /\ WF_vars(Step)

-----------------------------------------------------------------------------
TypeOK ==
    /\ lock \in Locks
    /\ pc \in Steps
    /\ i \in 0 .. lock.threshold
    /\ used \subseteq 1 .. lock.pubkeys_cnt
    /\ ret \in Errors \cup {0}

\* The verdict the caller sees.
verdict ==
    IF pc # "done" THEN "pending" ELSE IF ret = 0 THEN "accept" ELSE "reject"

Authority == INSTANCE MultisigAuthority WITH lock <- lock, verdict <- verdict

\* verify_multisig returns 0 only when the committed script's threshold is met
\* by distinct listed positions that signed this message, the first
\* require_first_n among them: each verified signature takes a position of its
\* own, so none counts for more of them than list its key.
AcceptsOnlyAuthorised == verdict = "accept" => Authorised(lock)

\* verify_multisig returns an error only when no assignment of the signatures
\* to positions would do: matching each signature greedily with the first
\* unused position never spoils a lock that could be accepted.
AcceptsEveryAuthorised == verdict = "reject" => ~Authorised(lock)

\* verify_multisig implements MultisigAuthority: it decides once, as
\* Authorised says, and it does decide (the loop over signatures ends).
DecidesByAuthority == Authority!Spec

-----------------------------------------------------------------------------
\* The positions the first n signatures hold in an assignment.
Held(slot, n) == { slot[j] : j \in 1 .. n }

\* The checks passed so far.
Passed ==
    /\ pc \notin {"flags", "done"} => FlagError(lock) = 0
    /\ pc \in {"script_hash", "secp", "signatures", "required"} =>
          lock.len = RequiredLockLen(lock)
    /\ pc \in {"secp", "signatures", "required"} => lock.hash = Script(lock)
    /\ pc \in {"signatures", "required"} => lock.secp_data
    /\ pc \notin {"signatures", "required", "done"} => i = 0
    /\ pc = "required" => i = lock.threshold

\* used_signatures marks one position per verified signature, each held by
\* the key that signed.
Matched ==
    \E slot \in [1 .. i -> 1 .. lock.pubkeys_cnt] :
        Assigns(lock, slot, i) /\ used = Held(slot, i)

\* A full assignment of the signatures that agrees with the marks made so far.
Completes(slot) ==
    /\ Assigns(lock, slot, lock.threshold)
    /\ Covers(slot, lock.threshold, lock.require_first_n)
    /\ used = Held(slot, i)

\* The marks made so far can be completed whenever the lock is authorised.
Completable ==
    Authorised(lock) =>
        \E slot \in [1 .. lock.threshold -> 1 .. lock.pubkeys_cnt] : Completes(slot)

\* The inductive invariant: at every step of verify_multisig the marks in
\* used_signatures are an assignment of the signatures verified so far, and a
\* completable one if the lock is authorised; a result is as Authorised says.
IndInv ==
    /\ TypeOK
    /\ Passed
    /\ Matched
    /\ pc # "done" => Completable
    /\ AcceptsOnlyAuthorised
    /\ AcceptsEveryAuthorised
=============================================================================
