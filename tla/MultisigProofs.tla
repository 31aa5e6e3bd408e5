--------------------------- MODULE MultisigProofs ---------------------------
(***************************************************************************)
(* Proofs about Multisig, for any keys, messages and requests.             *)
(*                                                                         *)
(* The one idea is the exchange argument behind Completable: when the loop *)
(* marks the first unused position p that lists the signer's key, a full   *)
(* assignment that agreed with the marks before can be changed to use p    *)
(* for this signature and still cover the required first positions.        *)
(***************************************************************************)
EXTENDS Multisig, WellFoundedInduction, TLAPS

\* p is the smallest member of S.
IsLeast(p, S) == p \in S /\ \A q \in S : p <= q

\* Least, the unused position at which the inner loop of verify_multisig
\* breaks, is a member of the set, and no member is smaller.
LEMMA LeastMember ==
    ASSUME NEW S \in SUBSET Nat, S # {}
    PROVE  IsLeast(Least(S), S)
<1>1. PICK p \in S : \A q \in S : <<q, p>> \notin OpToRel(<, Nat)
  BY WFMin, NatLessThanWellFounded, Zenon
<1>2. \A q \in S : ~(q < p)
  BY <1>1, Zenon DEF OpToRel
<1>3. \A q \in S : p <= q
  BY <1>2
<1> QED BY <1>3 DEF Least, IsLeast

\* What IsLock says of the parts the signature loop reads.
LEMMA LockParts ==
    ASSUME NEW r, IsLock(r)
    PROVE  /\ r.threshold \in Nat
           /\ r.pubkeys_cnt \in Nat
           /\ r.require_first_n \in Nat
           /\ r.pubkeys \in [1 .. r.pubkeys_cnt -> Key]
           /\ r.sigs \in [1 .. r.threshold -> Signature]
<1>1. /\ r.threshold \in Byte /\ r.pubkeys_cnt \in Byte /\ r.require_first_n \in Byte
      /\ r.pubkeys \in [1 .. r.pubkeys_cnt -> Key]
      /\ r.sigs \in [1 .. r.threshold -> Signature]
  BY Zenon DEF IsLock
<1>2. \A x \in Byte : x \in Nat
  BY DEF Byte
<1> QED BY <1>1, <1>2, Zenon

\* The inner loop extends an assignment of the first n signatures by the
\* unused position it marks for the next one.
LEMMA ExtendAssignment ==
    ASSUME NEW r, IsLock(r), NEW n \in Nat, n < r.threshold,
           NEW slot, Assigns(r, slot, n),
           r.sigs[n + 1].form = "signed",
           NEW p \in Unmatched(r, Held(slot, n), Recovered(r.sigs[n + 1], r.message))
    PROVE  \E t :
              /\ Assigns(r, t, n + 1)
              /\ Held(t, n + 1) = Held(slot, n) \cup {p}
<1> DEFINE t == [j \in 1 .. n + 1 |-> IF j = n + 1 THEN p ELSE slot[j]]
<1>1. /\ p \in 1 .. r.pubkeys_cnt
      /\ p \notin Held(slot, n)
      /\ r.pubkeys[p] = Recovered(r.sigs[n + 1], r.message)
  BY DEF Unmatched
<1>2. slot \in [1 .. n -> 1 .. r.pubkeys_cnt]
  BY DEF Assigns
<1>3. 1 .. n + 1 = (1 .. n) \cup {n + 1} /\ n + 1 \notin 1 .. n
  OBVIOUS
<1>4. t \in [1 .. n + 1 -> 1 .. r.pubkeys_cnt]
  BY <1>1, <1>2, <1>3
<1>5. t[n + 1] = p /\ \A j \in 1 .. n : t[j] = slot[j]
  BY <1>3
<1>6. \A j \in 1 .. n : slot[j] # p
  BY <1>1 DEF Held
<1>7. Assigns(r, t, n + 1)
  <2>1. \A j \in 1 .. n + 1 :
           /\ r.sigs[j].form = "signed"
           /\ Recovered(r.sigs[j], r.message) = r.pubkeys[t[j]]
    BY <1>1, <1>3, <1>5 DEF Assigns
  <2>2. \A j, k \in 1 .. n + 1 : t[j] = t[k] => j = k
    BY <1>3, <1>5, <1>6 DEF Assigns
  <2> QED BY <1>4, <2>1, <2>2 DEF Assigns
<1>8. Held(t, n + 1) = Held(slot, n) \cup {p}
  BY <1>3, <1>5 DEF Held
<1> QED BY <1>7, <1>8

\* The exchange argument: marking the least unused position of the signer's
\* key keeps a full assignment with the required positions within reach.
LEMMA Exchange ==
    ASSUME NEW r, IsLock(r), NEW n \in Nat, n < r.threshold,
           NEW slot, Assigns(r, slot, r.threshold),
           Covers(slot, r.threshold, r.require_first_n),
           NEW p,
           IsLeast(p, Unmatched(r, Held(slot, n), Recovered(r.sigs[n + 1], r.message)))
    PROVE  \E t :
              /\ Assigns(r, t, r.threshold)
              /\ Covers(t, r.threshold, r.require_first_n)
              /\ Held(t, n + 1) = Held(slot, n) \cup {p}
<1> DEFINE M == r.threshold
           key == Recovered(r.sigs[n + 1], r.message)
           q == slot[n + 1]
<1>1. M \in Nat /\ n + 1 \in 1 .. M
  BY LockParts
<1>2. /\ slot \in [1 .. M -> 1 .. r.pubkeys_cnt]
      /\ \A j \in 1 .. M : /\ r.sigs[j].form = "signed"
                           /\ Recovered(r.sigs[j], r.message) = r.pubkeys[slot[j]]
      /\ \A j, k \in 1 .. M : slot[j] = slot[k] => j = k
  BY DEF Assigns
<1>3. /\ p \in 1 .. r.pubkeys_cnt
      /\ p \notin Held(slot, n)
      /\ r.pubkeys[p] = key
  BY DEF Unmatched, IsLeast
<1>4. q \in 1 .. r.pubkeys_cnt /\ r.pubkeys[q] = key
  BY <1>1, <1>2
<1>5. 1 .. n \subseteq 1 .. M /\ n + 1 \notin 1 .. n
      /\ 1 .. n + 1 = (1 .. n) \cup {n + 1}
  BY <1>1
<1>6. q \notin Held(slot, n)
  BY <1>1, <1>2, <1>5 DEF Held
<1>7. p <= q
  BY <1>4, <1>6 DEF Unmatched, IsLeast
<1>8. \A j \in 1 .. n : slot[j] # p
  BY <1>3 DEF Held
<1>9. CASE \E j \in 1 .. M : slot[j] = p
  <2>1. PICK j \in 1 .. M : slot[j] = p
    BY <1>9
  <2> DEFINE t == [k \in 1 .. M |->
                     IF k = n + 1 THEN p ELSE IF k = j THEN q ELSE slot[k]]
  <2>2. j \notin 1 .. n
    BY <1>8, <2>1
  <2>3. /\ t[n + 1] = p
        /\ j # n + 1 => t[j] = q
        /\ \A k \in 1 .. M : k # n + 1 /\ k # j => t[k] = slot[k]
    BY <1>1, <2>1
  <2>4. t \in [1 .. M -> 1 .. r.pubkeys_cnt]
    BY <1>2, <1>3, <1>4
  <2>5. \A k \in 1 .. M : Recovered(r.sigs[k], r.message) = r.pubkeys[t[k]]
    BY <1>2, <1>3, <1>4, <2>1, <2>3
  <2>6. \A k, l \in 1 .. M : t[k] = t[l] => k = l
    BY <1>1, <1>2, <2>1, <2>3
  <2>7. Assigns(r, t, M)
    BY <1>2, <2>4, <2>5, <2>6 DEF Assigns
  <2>8. Covers(t, M, r.require_first_n)
    <3> SUFFICES ASSUME NEW x \in 1 .. r.require_first_n
                 PROVE  \E k \in 1 .. M : t[k] = x
      BY DEF Covers
    <3>1. PICK k \in 1 .. M : slot[k] = x
      BY DEF Covers
    <3>2. CASE k = n + 1
      BY <1>1, <2>1, <2>3, <3>1, <3>2
    <3>3. CASE k = j
      BY <1>1, <2>1, <2>3, <3>1, <3>3
    <3>4. CASE k # n + 1 /\ k # j
      BY <2>3, <3>1, <3>4
    <3> QED BY <3>2, <3>3, <3>4
  <2>9. Held(t, n + 1) = Held(slot, n) \cup {p}
    BY <1>5, <2>2, <2>3 DEF Held
  <2> QED BY <2>7, <2>8, <2>9
<1>10. CASE ~ \E j \in 1 .. M : slot[j] = p
  <2> DEFINE t == [k \in 1 .. M |-> IF k = n + 1 THEN p ELSE slot[k]]
  <2>1. t[n + 1] = p /\ \A k \in 1 .. M : k # n + 1 => t[k] = slot[k]
    BY <1>1
  <2>2. t \in [1 .. M -> 1 .. r.pubkeys_cnt]
    BY <1>2, <1>3
  <2>3. \A k \in 1 .. M : Recovered(r.sigs[k], r.message) = r.pubkeys[t[k]]
    BY <1>2, <1>3, <2>1
  <2>4. \A k, l \in 1 .. M : t[k] = t[l] => k = l
    BY <1>1, <1>2, <1>10, <2>1
  <2>5. Assigns(r, t, M)
    BY <1>2, <2>2, <2>3, <2>4 DEF Assigns
  <2>6. Covers(t, M, r.require_first_n)
    <3> SUFFICES ASSUME NEW x \in 1 .. r.require_first_n
                 PROVE  \E k \in 1 .. M : t[k] = x
      BY DEF Covers
    <3>1. PICK k \in 1 .. M : slot[k] = x
      BY DEF Covers
    <3>2. CASE k = n + 1
      \* then p <= q <= require_first_n, yet slot does not cover p
      <4>1. p \in 1 .. r.require_first_n
        BY <1>3, <1>4, <1>7, <3>1, <3>2, LockParts
      <4> QED BY <1>10, <4>1 DEF Covers
    <3>3. CASE k # n + 1
      BY <2>1, <3>1, <3>3
    <3> QED BY <3>2, <3>3
  <2>7. Held(t, n + 1) = Held(slot, n) \cup {p}
    BY <1>5, <2>1 DEF Held
  <2> QED BY <2>5, <2>6, <2>7
<1> QED BY <1>9, <1>10

-----------------------------------------------------------------------------
\* The checks on the flags and the length are the well-formedness that
\* Authorised asks for.
LEMMA FlagsWellFormed ==
    ASSUME NEW r, IsLock(r)
    PROVE  WellFormed(r) <=> FlagError(r) = 0 /\ r.len = RequiredLockLen(r)
<1>1. /\ r.threshold \in Nat /\ r.pubkeys_cnt \in Nat /\ r.require_first_n \in Nat
  BY LockParts
<1> QED
  BY <1>1 DEF WellFormed, FlagError, ERROR_INVALID_RESERVE_FIELD,
     ERROR_INVALID_PUBKEYS_CNT, ERROR_INVALID_THRESHOLD,
     ERROR_INVALID_REQUIRE_FIRST_N

\* Every early return of verify_multisig carries a nonzero code.
LEMMA ErrorsNonzero == 0 \notin Errors
BY DEF Errors, ERROR_INVALID_RESERVE_FIELD, ERROR_INVALID_PUBKEYS_CNT,
   ERROR_INVALID_THRESHOLD, ERROR_INVALID_REQUIRE_FIRST_N,
   ERROR_MULTSIG_SCRIPT_HASH, ERROR_VERIFICATION, ERROR_WITNESS_SIZE,
   ERROR_SECP_PARSE_SIGNATURE, ERROR_SECP_RECOVER_PUBKEY, ERROR_LOADING_DATA,
   ERROR_ILLEGAL_CALLBACK

\* A failing flag check of verify_multisig returns one of its error codes.
LEMMA FlagErrorType == \A r : FlagError(r) # 0 => FlagError(r) \in Errors
BY DEF FlagError, Errors

\* The state in which verify_multisig starts satisfies the invariant: nothing
\* is marked, and any assignment completes that.
LEMMA InitInductive == Init => IndInv
<1> SUFFICES ASSUME Init PROVE IndInv
  OBVIOUS
<1>1. lock \in Locks /\ IsLock(lock)
  BY LocksAssumption DEF Init
<1>2. lock.threshold \in Nat /\ lock.pubkeys_cnt \in Nat
  BY <1>1, LockParts
<1>3. TypeOK
  BY <1>1, <1>2 DEF Init, TypeOK, Steps
<1>4. Passed
  BY DEF Init, Passed
<1>5. \A slot : Held(slot, 0) = {}
  BY DEF Held
<1>6. Matched
  <2> DEFINE none == [j \in 1 .. 0 |-> 1]
  <2>1. none \in [1 .. 0 -> 1 .. lock.pubkeys_cnt]
    OBVIOUS
  <2>2. Assigns(lock, none, 0)
    BY <2>1 DEF Assigns
  <2> QED BY <1>5, <2>1, <2>2 DEF Init, Matched
<1>7. Completable
  BY <1>5 DEF Init, Completable, Completes, Authorised
<1>8. AcceptsOnlyAuthorised /\ AcceptsEveryAuthorised
  BY DEF Init, AcceptsOnlyAuthorised, AcceptsEveryAuthorised, verdict
<1> QED BY <1>3, <1>4, <1>6, <1>7, <1>8 DEF IndInv

\* An early return with an error keeps the invariant when the lock is not
\* authorised.
LEMMA ErrorReturnInductive ==
    ASSUME IndInv, NEW code \in Errors, Return(code), ~Authorised(lock)
    PROVE  IndInv'
<1>1. TypeOK'
  BY DEF IndInv, TypeOK, Return, Steps
<1>2. Passed'
  BY DEF IndInv, Passed, Return
<1>3. Matched'
  BY DEF IndInv, Matched, Return
<1>4. pc' = "done"
  BY DEF Return
<1>5. AcceptsOnlyAuthorised' /\ AcceptsEveryAuthorised'
  BY ErrorsNonzero DEF AcceptsOnlyAuthorised, AcceptsEveryAuthorised, verdict, Return
<1> QED BY <1>1, <1>2, <1>3, <1>4, <1>5 DEF IndInv

\* Moving on to the next check keeps the invariant if the checks are recorded.
LEMMA GotoInductive ==
    ASSUME IndInv, pc # "done", NEW step \in Steps \ {"done"}, Goto(step), Passed'
    PROVE  IndInv'
<1>1. TypeOK'
  BY DEF IndInv, TypeOK, Goto
<1>2. Matched'
  BY DEF IndInv, Matched, Goto
<1>3. Completable'
  BY DEF IndInv, Completable, Completes, Goto
<1>4. AcceptsOnlyAuthorised' /\ AcceptsEveryAuthorised'
  BY DEF AcceptsOnlyAuthorised, AcceptsEveryAuthorised, verdict, Goto
<1> QED BY <1>1, <1>2, <1>3, <1>4 DEF IndInv

\* Every step of verify_multisig keeps the invariant.
LEMMA StepInductive == IndInv /\ [Next]_vars => IndInv'
<1> SUFFICES ASSUME IndInv, [Next]_vars PROVE IndInv'
  OBVIOUS
<1>1. lock \in Locks /\ IsLock(lock)
  BY LocksAssumption DEF IndInv, TypeOK
<1>2. /\ lock.threshold \in Nat /\ lock.pubkeys_cnt \in Nat
      /\ lock.require_first_n \in Nat
  BY <1>1, LockParts
<1>3. CASE CheckFlags
  <2>1. CASE FlagError(lock) # 0 /\ Return(FlagError(lock))
    BY <1>1, <2>1, FlagErrorType, FlagsWellFormed, ErrorReturnInductive DEF Authorised
  <2>2. CASE FlagError(lock) = 0 /\ Goto("length")
    <3>1. Passed' /\ pc # "done"
      BY <1>3, <2>2 DEF IndInv, Passed, Goto, CheckFlags
    <3> QED BY <2>2, <3>1, GotoInductive DEF Steps
  <2> QED BY <1>3, <2>1, <2>2 DEF CheckFlags
<1>4. CASE CheckLength
  <2>1. CASE lock.len # RequiredLockLen(lock) /\ Return(ERROR_WITNESS_SIZE)
    BY <1>1, <2>1, FlagsWellFormed, ErrorReturnInductive DEF Authorised, Errors
  <2>2. CASE lock.len = RequiredLockLen(lock) /\ Goto("script_hash")
    <3>1. Passed' /\ pc # "done"
      BY <1>4, <2>2 DEF IndInv, Passed, Goto, CheckLength
    <3> QED BY <2>2, <3>1, GotoInductive DEF Steps
  <2> QED BY <1>4, <2>1, <2>2 DEF CheckLength
<1>5. CASE CheckScriptHash
  <2>1. CASE lock.hash # Script(lock) /\ Return(ERROR_MULTSIG_SCRIPT_HASH)
    BY <2>1, ErrorReturnInductive DEF Authorised, Errors
  <2>2. CASE lock.hash = Script(lock) /\ Goto("secp")
    <3>1. Passed' /\ pc # "done"
      BY <1>5, <2>2 DEF IndInv, Passed, Goto, CheckScriptHash
    <3> QED BY <2>2, <3>1, GotoInductive DEF Steps
  <2> QED BY <1>5, <2>1, <2>2 DEF CheckScriptHash
<1>6. CASE InitializeSecp
  <2>1. CASE ~lock.secp_data /\ Return(ERROR_LOADING_DATA)
    BY <2>1, ErrorReturnInductive DEF Authorised, Errors
  <2>2. CASE lock.secp_data /\ Goto("signatures")
    <3>1. Passed' /\ pc # "done"
      BY <1>6, <2>2 DEF IndInv, Passed, Goto, InitializeSecp
    <3> QED BY <2>2, <3>1, GotoInductive DEF Steps
  <2> QED BY <1>6, <2>1, <2>2 DEF InitializeSecp
<1>7. CASE VerifySignature
  <2> DEFINE sig == lock.sigs[i + 1]
             free == Unmatched(lock, used, Recovered(sig, lock.message))
  <2>1. /\ pc = "signatures" /\ i \in Nat /\ i < lock.threshold
        /\ i + 1 \in 1 .. lock.threshold
        /\ 1 .. i \subseteq 1 .. lock.threshold
        /\ i + 1 \notin 1 .. i
    BY <1>2, <1>7 DEF VerifySignature, IndInv, TypeOK
  <2>2. Authorised(lock) => sig.form = "signed" /\ free # {}
    <3> SUFFICES ASSUME Authorised(lock) PROVE sig.form = "signed" /\ free # {}
      OBVIOUS
    <3>1. PICK slot \in [1 .. lock.threshold -> 1 .. lock.pubkeys_cnt] : Completes(slot)
      BY <2>1 DEF IndInv, Completable
    <3>2. /\ sig.form = "signed"
          /\ Recovered(sig, lock.message) = lock.pubkeys[slot[i + 1]]
      BY <2>1, <3>1 DEF Completes, Assigns
    <3>3. slot[i + 1] \notin used
      BY <2>1, <3>1 DEF Completes, Assigns, Held
    <3> QED BY <2>1, <3>1, <3>2, <3>3 DEF Unmatched
  <2>7. CASE sig.form = "bad_recid" /\ Return(ERROR_ILLEGAL_CALLBACK)
    BY <2>2, <2>7, ErrorReturnInductive DEF Errors
  <2>3. CASE sig.form = "unparsable" /\ Return(ERROR_SECP_PARSE_SIGNATURE)
    BY <2>2, <2>3, ErrorReturnInductive DEF Errors
  <2>4. CASE sig.form = "unrecoverable" /\ Return(ERROR_SECP_RECOVER_PUBKEY)
    BY <2>2, <2>4, ErrorReturnInductive DEF Errors
  <2>5. CASE sig.form = "signed" /\ free = {} /\ Return(ERROR_VERIFICATION)
    BY <2>2, <2>5, ErrorReturnInductive DEF Errors
  <2>6. CASE /\ sig.form = "signed"
             /\ free # {}
             /\ used' = used \cup {Least(free)}
             /\ i' = i + 1
             /\ UNCHANGED <<lock, pc, ret>>
    <3>1. free \subseteq 1 .. lock.pubkeys_cnt /\ free \in SUBSET Nat
      BY <1>2 DEF Unmatched
    <3>2. PICK p : p = Least(free) /\ IsLeast(p, free)
      BY <2>6, <3>1, LeastMember
    <3>3. TypeOK'
      <4>1. i + 1 \in 0 .. lock.threshold
        BY <1>2, <2>1
      <4>2. used \cup {p} \subseteq 1 .. lock.pubkeys_cnt
        BY <3>1, <3>2 DEF IndInv, TypeOK, IsLeast
      <4>3. lock \in Locks /\ pc \in Steps /\ ret \in Errors \cup {0}
        BY DEF IndInv, TypeOK
      <4> QED BY <2>6, <3>2, <4>1, <4>2, <4>3 DEF TypeOK
    <3>4. Passed'
      BY <2>1, <2>6 DEF IndInv, Passed
    <3>5. Matched'
      <4>1. PICK slot : Assigns(lock, slot, i) /\ used = Held(slot, i)
        BY DEF IndInv, Matched
      <4>2. p \in Unmatched(lock, Held(slot, i), Recovered(lock.sigs[i + 1], lock.message))
        BY <3>2, <4>1 DEF IsLeast
      <4>3. lock.sigs[i + 1].form = "signed" /\ i \in Nat /\ i < lock.threshold
        BY <2>1, <2>6
      <4>4. PICK t : Assigns(lock, t, i + 1) /\ Held(t, i + 1) = Held(slot, i) \cup {p}
        BY <1>1, <4>1, <4>2, <4>3, ExtendAssignment
      <4>5. t \in [1 .. i + 1 -> 1 .. lock.pubkeys_cnt]
        BY <4>4 DEF Assigns
      <4> QED BY <2>6, <3>2, <4>1, <4>4, <4>5 DEF Matched
    <3>6. Completable'
      <4> SUFFICES ASSUME Authorised(lock)
                   PROVE  \E t \in [1 .. lock.threshold -> 1 .. lock.pubkeys_cnt] :
                             /\ Assigns(lock, t, lock.threshold)
                             /\ Covers(t, lock.threshold, lock.require_first_n)
                             /\ Held(t, i + 1) = used \cup {p}
        BY <2>6, <3>2 DEF Completable, Completes
      <4>1. PICK slot : Completes(slot)
        BY <2>1 DEF IndInv, Completable
      <4>2. IsLeast(p, Unmatched(lock, Held(slot, i), Recovered(lock.sigs[i + 1], lock.message)))
        BY <3>2, <4>1 DEF Completes
      <4>3. /\ Assigns(lock, slot, lock.threshold)
            /\ Covers(slot, lock.threshold, lock.require_first_n)
            /\ used = Held(slot, i)
        BY <4>1 DEF Completes
      <4>4. i \in Nat /\ i < lock.threshold
        BY <2>1
      <4>5. PICK t : /\ Assigns(lock, t, lock.threshold)
                     /\ Covers(t, lock.threshold, lock.require_first_n)
                     /\ Held(t, i + 1) = Held(slot, i) \cup {p}
        BY <1>1, <4>2, <4>3, <4>4, Exchange, Z3
      <4>6. t \in [1 .. lock.threshold -> 1 .. lock.pubkeys_cnt]
        BY <4>5 DEF Assigns
      <4> QED BY <4>3, <4>5, <4>6
    <3>7. AcceptsOnlyAuthorised' /\ AcceptsEveryAuthorised'
      BY <2>1, <2>6 DEF AcceptsOnlyAuthorised, AcceptsEveryAuthorised, verdict
    <3> QED BY <3>3, <3>4, <3>5, <3>6, <3>7 DEF IndInv
  <2> QED BY <1>7, <2>3, <2>4, <2>5, <2>6, <2>7 DEF VerifySignature
<1>8. CASE AllVerified
  <2>1. Passed' /\ pc # "done"
    BY <1>8 DEF IndInv, Passed, Goto, AllVerified
  <2> QED BY <1>8, <2>1, GotoInductive DEF Steps, AllVerified
<1>9. CASE CheckRequired
  <2>1. pc = "required" /\ i = lock.threshold
    BY <1>9 DEF CheckRequired, IndInv, Passed
  <2>2. CASE ~(1 .. lock.require_first_n \subseteq used) /\ Return(ERROR_VERIFICATION)
    <3>1. ~Authorised(lock)
      <4> SUFFICES ASSUME Authorised(lock) PROVE FALSE
        OBVIOUS
      <4>1. PICK slot \in [1 .. lock.threshold -> 1 .. lock.pubkeys_cnt] : Completes(slot)
        BY <2>1 DEF IndInv, Completable
      <4> QED BY <2>1, <2>2, <4>1 DEF Completes, Covers, Held
    <3> QED BY <2>2, <3>1, ErrorReturnInductive DEF Errors
  <2>3. CASE 1 .. lock.require_first_n \subseteq used /\ Return(0)
    <3>1. Authorised(lock)
      <4>1. WellFormed(lock) /\ lock.hash = Script(lock) /\ lock.secp_data
        BY <1>1, <2>1, FlagsWellFormed DEF IndInv, Passed
      <4>2. PICK slot \in [1 .. i -> 1 .. lock.pubkeys_cnt] :
               Assigns(lock, slot, i) /\ used = Held(slot, i)
        BY DEF IndInv, Matched
      <4>3. Covers(slot, i, lock.require_first_n)
        BY <2>3, <4>2 DEF Covers, Held
      <4> QED BY <2>1, <4>1, <4>2, <4>3 DEF Authorised
    <3>2. TypeOK'
      BY <2>3 DEF IndInv, TypeOK, Return, Steps
    <3>3. Passed'
      BY <2>3 DEF Passed, Return
    <3>4. Matched'
      BY <2>3 DEF IndInv, Matched, Return
    <3>5. AcceptsOnlyAuthorised' /\ AcceptsEveryAuthorised' /\ pc' = "done"
      BY <2>3, <3>1 DEF AcceptsOnlyAuthorised, AcceptsEveryAuthorised, verdict, Return
    <3> QED BY <3>2, <3>3, <3>4, <3>5 DEF IndInv
  <2> QED BY <1>9, <2>2, <2>3 DEF CheckRequired
<1>10. CASE UNCHANGED vars
  BY <1>10 DEF vars, IndInv, TypeOK, Passed, Matched, Completable, Completes,
     AcceptsOnlyAuthorised, AcceptsEveryAuthorised, verdict
<1> QED BY <1>3, <1>4, <1>5, <1>6, <1>7, <1>8, <1>9, <1>10 DEF Next, Step, Returned

\* The inductive invariant holds in every state of every call.
THEOREM Inductive == Spec => []IndInv
BY InitInductive, StepInductive, PTL DEF Spec

\* Every call of verify_multisig stays within the types of its variables.
THEOREM TypeCorrect == Spec => []TypeOK
BY Inductive, PTL DEF IndInv

\* verify_multisig accepts no lock without the signatures of distinct listed
\* positions that its committed script asks for.
THEOREM Soundness == Spec => []AcceptsOnlyAuthorised
BY Inductive, PTL DEF IndInv

\* The greedy matching of verify_multisig rejects no lock that some matching
\* of signatures with positions would authorise.
THEOREM Completeness == Spec => []AcceptsEveryAuthorised
BY Inductive, PTL DEF IndInv

-----------------------------------------------------------------------------
\* What the abstract specification calls authorised is what Multisig does.
LEMMA SameAuthorised == \A r : Authority!Authorised(r) <=> Authorised(r)
BY DEF Authority!Authorised, Authorised, Authority!WellFormed, WellFormed,
   Authority!Assigns, Assigns, Authority!Covers, Covers, Authority!Script, Script,
   Authority!Recovered, Recovered, Authority!RequiredLockLen, RequiredLockLen,
   Authority!FLAGS_SIZE, FLAGS_SIZE, Authority!BLAKE160_SIZE, BLAKE160_SIZE,
   Authority!SIGNATURE_SIZE, SIGNATURE_SIZE

\* A step of verify_multisig decides as the authority does, or leaves the
\* verdict open (or, once decided, alone).
LEMMA StepDecides ==
    IndInv /\ IndInv' /\ [Next]_vars => [Authority!Decide]_<<lock, verdict>>
<1> SUFFICES ASSUME IndInv, IndInv', [Next]_vars
             PROVE  [Authority!Decide]_<<lock, verdict>>
  OBVIOUS
<1>1. lock' = lock
  BY DEF Next, Step, Returned, CheckFlags, CheckLength, CheckScriptHash,
     InitializeSecp, VerifySignature, AllVerified, CheckRequired, Return, Goto, vars
<1>2. CASE pc = "done"
  BY <1>2 DEF Next, Step, Returned, CheckFlags, CheckLength, CheckScriptHash,
     InitializeSecp, VerifySignature, AllVerified, CheckRequired, vars, verdict
<1>3. CASE pc # "done" /\ pc' # "done"
  BY <1>1, <1>3 DEF verdict
<1>4. CASE pc # "done" /\ pc' = "done"
  <2>1. verdict = "pending" /\ verdict' \in {"accept", "reject"}
    BY <1>4 DEF verdict
  <2>2. verdict' = "accept" => Authorised(lock)
    BY <1>1 DEF IndInv, AcceptsOnlyAuthorised
  <2>3. verdict' = "reject" => ~Authorised(lock)
    BY <1>1 DEF IndInv, AcceptsEveryAuthorised
  <2>4. verdict' = IF Authority!Authorised(lock) THEN "accept" ELSE "reject"
    BY <2>1, <2>2, <2>3, SameAuthorised
  <2> QED BY <1>1, <2>1, <2>4 DEF Authority!Decide
<1> QED BY <1>2, <1>3, <1>4

\* verify_multisig implements the safety part of MultisigAuthority: it decides
\* once, and as Authorised says.
THEOREM Implements == Spec => Authority!Safe
<1>1. Init => Authority!Init
  BY DEF Init, Authority!Init, verdict
<1> QED BY <1>1, Inductive, StepDecides, PTL DEF Spec, Authority!Safe
=============================================================================
