----------------------------- MODULE EntryProofs -----------------------------
(***************************************************************************)
(* Proofs about Entry: whatever the limits, the calls and the texts, a     *)
(* client's arguments arrive unchanged and it succeeds only when           *)
(* ckb_auth_validate accepts them.                                         *)
(***************************************************************************)
EXTENDS Entry, TLAPS

\* The digits of _ckb_gethex stand for different values, in either case.
LEMMA DigitsDiffer ==
    ASSUME NEW v \in 0 .. 15, NEW w \in 0 .. 15
    PROVE  /\ Lower[v + 1] = Lower[w + 1] => v = w
           /\ Upper[v + 1] = Upper[w + 1] => v = w
           /\ Lower[v + 1] = Upper[w + 1] => v = w
BY DEF Lower, Upper

\* _ckb_getbin reads back what _ckb_gethex wrote.
LEMMA DigitValue ==
    ASSUME NEW digits \in {Lower, Upper}, NEW v \in 0 .. 15
    PROVE  /\ getbin(digits[v + 1], v)
           /\ Value(digits[v + 1]) = v
<1>1. getbin(digits[v + 1], v)
  BY DEF getbin
<1>2. \A w \in 0 .. 15 : getbin(digits[v + 1], w) => w = v
  BY DigitsDiffer DEF getbin
<1> QED BY <1>1, <1>2 DEF Value

\* A byte is its two halves.
LEMMA Halves ==
    ASSUME NEW b \in Byte
    PROVE  /\ b \div 16 \in 0 .. 15
           /\ b % 16 \in 0 .. 15
           /\ 16 * (b \div 16) + (b % 16) = b
           /\ 1 + (b \div 16) = (b \div 16) + 1
           /\ 1 + (b % 16) = (b % 16) + 1
BY DEF Byte

\* ckb_bin2hex writes two digits for each byte.
LEMMA TextOfBytes ==
    ASSUME NEW digits \in {Lower, Upper}, NEW bin \in Bytes
    PROVE  /\ Len(Text(digits, bin)) = 2 * Len(bin)
           /\ \A k \in 1 .. Len(bin) :
                 /\ Text(digits, bin)[2 * k - 1] = digits[(bin[k] \div 16) + 1]
                 /\ Text(digits, bin)[2 * k] = digits[(bin[k] % 16) + 1]
<1> DEFINE n == Len(bin)
<1>1. n \in Nat
  BY DEF Bytes
<1>2. Len(Text(digits, bin)) = 2 * n
  BY <1>1 DEF Text
<1>3. ASSUME NEW k \in 1 .. n
      PROVE  /\ Text(digits, bin)[2 * k - 1] = digits[(bin[k] \div 16) + 1]
             /\ Text(digits, bin)[2 * k] = digits[(bin[k] % 16) + 1]
  <2>1. /\ 2 * k - 1 \in 1 .. 2 * n
        /\ 2 * k \in 1 .. 2 * n
        /\ ((2 * k - 1) + 1) \div 2 = k
        /\ (2 * k + 1) \div 2 = k
        /\ (2 * k - 1) % 2 = 1
        /\ (2 * k) % 2 = 0
    BY <1>1
  <2>2. bin[k] \in Byte
    BY DEF Bytes
  <2>3. Text(digits, bin)[2 * k - 1] = digits[1 + (bin[k] \div 16)]
    BY <2>1 DEF Text
  <2>4. Text(digits, bin)[2 * k] = digits[1 + (bin[k] % 16)]
    BY <2>1 DEF Text
  <2> QED BY <2>2, <2>3, <2>4, Halves
<1> QED BY <1>2, <1>3

\* ckb_hex2bin undoes ckb_bin2hex, in either case of the digits.
LEMMA RoundTrip ==
    ASSUME NEW digits \in {Lower, Upper}, NEW bin \in Bytes,
           NEW n \in Nat, Len(bin) <= n
    PROVE  /\ Decodes(Text(digits, bin), n)
           /\ ckb_hex2bin(Text(digits, bin)) = bin
<1> DEFINE hex == Text(digits, bin)
<1>1. Len(bin) \in Nat /\ Len(hex) = 2 * Len(bin)
  BY TextOfBytes DEF Bytes
<1>2. ASSUME NEW k \in 1 .. Len(bin)
      PROVE  /\ bin[k] \div 16 \in 0 .. 15
             /\ bin[k] % 16 \in 0 .. 15
             /\ 16 * (bin[k] \div 16) + (bin[k] % 16) = bin[k]
  <2>1. bin[k] \in Byte
    BY DEF Bytes
  <2> QED BY <2>1, Halves
<1>3. ASSUME NEW k \in 1 .. Len(bin)
      PROVE  /\ getbin(hex[2 * k - 1], bin[k] \div 16)
             /\ getbin(hex[2 * k], bin[k] % 16)
             /\ 16 * Value(hex[2 * k - 1]) + Value(hex[2 * k]) = bin[k]
  <2>1. /\ hex[2 * k - 1] = digits[(bin[k] \div 16) + 1]
        /\ hex[2 * k] = digits[(bin[k] % 16) + 1]
    BY TextOfBytes
  <2>2. /\ getbin(hex[2 * k - 1], bin[k] \div 16)
        /\ Value(hex[2 * k - 1]) = bin[k] \div 16
    BY <1>2, <2>1, DigitValue
  <2>3. /\ getbin(hex[2 * k], bin[k] % 16)
        /\ Value(hex[2 * k]) = bin[k] % 16
    BY <1>2, <2>1, DigitValue
  <2> QED BY <1>2, <2>2, <2>3
<1>4. ASSUME NEW d \in 1 .. Len(hex)
      PROVE  \E v \in 0 .. 15 : getbin(hex[d], v)
  <2> DEFINE k == (d + 1) \div 2
  <2>1. k \in 1 .. Len(bin) /\ (d = 2 * k - 1 \/ d = 2 * k)
    BY <1>1
  <2> HIDE DEF k
  <2> QED BY <2>1, <1>2, <1>3
<1>5. Decodes(hex, n)
  BY <1>1, <1>4 DEF Decodes
<1>6. ckb_hex2bin(hex) = [k \in 1 .. Len(bin) |-> bin[k]]
  <2>1. Len(hex) \div 2 = Len(bin)
    BY <1>1
  <2> HIDE DEF hex
  <2> QED BY <1>3, <2>1 DEF ckb_hex2bin
<1>7. bin = [k \in 1 .. Len(bin) |-> bin[k]]
  BY DEF Bytes
<1> QED BY <1>5, <1>6, <1>7

\* What ckb_hex2bin reads is the text of the bytes it writes, up to case.
LEMMA DecodedText ==
    ASSUME NEW hex, Len(hex) \in Nat, NEW n, Decodes(hex, n)
    PROVE  LET bin == ckb_hex2bin(hex)
           IN  /\ bin \in Bytes
               /\ Len(hex) = 2 * Len(bin)
               /\ \A d \in 1 .. Len(hex) :
                     hex[d] \in { ckb_bin2hex(bin)[d], Text(Upper, bin)[d] }
<1> DEFINE bin == ckb_hex2bin(hex)
           m == Len(hex) \div 2
<1>1. m \in Nat /\ Len(hex) = 2 * m
  BY DEF Decodes
<1>2. ASSUME NEW d \in 1 .. Len(hex)
      PROVE  /\ Value(hex[d]) \in 0 .. 15
             /\ getbin(hex[d], Value(hex[d]))
  BY DEF Decodes, Value
<1>3. ASSUME NEW k \in 1 .. m
      PROVE  /\ 2 * k - 1 \in 1 .. Len(hex)
             /\ 2 * k \in 1 .. Len(hex)
  BY <1>1
<1>4. ASSUME NEW k \in 1 .. m
      PROVE  16 * Value(hex[2 * k - 1]) + Value(hex[2 * k]) \in Byte
  <2> DEFINE high == Value(hex[2 * k - 1])
             low == Value(hex[2 * k])
  <2>1. high \in 0 .. 15 /\ low \in 0 .. 15
    BY <1>2, <1>3
  <2> HIDE DEF high, low
  <2>2. 16 * high + low \in Byte
    BY <2>1 DEF Byte
  <2> QED BY <2>2 DEF high, low
<1>5. bin = [k \in 1 .. m |-> 16 * Value(hex[2 * k - 1]) + Value(hex[2 * k])]
  BY DEF ckb_hex2bin
<1> HIDE DEF bin, m
<1>6. bin \in Bytes /\ Len(bin) = m
  BY <1>1, <1>4, <1>5 DEF Bytes
<1>7. ASSUME NEW d \in 1 .. Len(hex)
      PROVE  hex[d] \in { Text(Lower, bin)[d], Text(Upper, bin)[d] }
  <2> DEFINE k == (d + 1) \div 2
             high == Value(hex[2 * k - 1])
             low == Value(hex[2 * k])
  <2>1. k \in 1 .. m /\ (d = 2 * k - 1 \/ d = 2 * k)
    BY <1>1
  <2> HIDE DEF k
  <2>2. high \in 0 .. 15 /\ low \in 0 .. 15
    BY <1>2, <1>3, <2>1
  <2>3. bin[k] = 16 * high + low
    BY <1>5, <2>1
  <2>4. bin[k] \div 16 = high /\ bin[k] % 16 = low
    <3> HIDE DEF high, low
    <3> QED BY <2>2, <2>3
  <2>5. CASE d = 2 * k - 1
    <3>1. getbin(hex[d], high)
      BY <1>2, <2>5
    <3>2. /\ Text(Lower, bin)[d] = Lower[high + 1]
          /\ Text(Upper, bin)[d] = Upper[high + 1]
      BY <1>6, <2>1, <2>4, <2>5, TextOfBytes
    <3> QED BY <3>1, <3>2 DEF getbin
  <2>6. CASE d = 2 * k
    <3>1. getbin(hex[d], low)
      BY <1>2, <2>6
    <3>2. /\ Text(Lower, bin)[d] = Lower[low + 1]
          /\ Text(Upper, bin)[d] = Upper[low + 1]
      BY <1>6, <2>1, <2>4, <2>6, TextOfBytes
    <3> QED BY <3>1, <3>2 DEF getbin
  <2> QED BY <2>1, <2>5, <2>6
<1> QED BY <1>1, <1>6, <1>7 DEF bin, ckb_bin2hex

-----------------------------------------------------------------------------
\* Every code ckb_auth_validate or main ends with survives the int8_t.
LEMMA CodesFit ==
    ASSUME NEW code \in Outcomes \cup MainErrors
    PROVE  Int8(code) = code
BY DEF Int8, Outcomes, ValidateErrors, Errors, MainErrors,
       ERROR_INVALID_RESERVE_FIELD, ERROR_INVALID_PUBKEYS_CNT,
       ERROR_INVALID_THRESHOLD, ERROR_INVALID_REQUIRE_FIRST_N,
       ERROR_MULTSIG_SCRIPT_HASH, ERROR_VERIFICATION, ERROR_WITNESS_SIZE,
       ERROR_SECP_PARSE_SIGNATURE, ERROR_SECP_RECOVER_PUBKEY,
       ERROR_LOADING_DATA, ERROR_ILLEGAL_CALLBACK, ERROR_NOT_IMPLEMENTED,
       ERROR_MISMATCHED, ERROR_INVALID_ARG, ERROR_WRONG_STATE,
       ERROR_SPAWN_INVALID_SIG, ERROR_SCHNORR, ERROR_ARGC,
       ERROR_SPAWN_INVALID_LENGTH, ERROR_SPAWN_SIGN_TOO_LONG,
       ERROR_SPAWN_INVALID_ALGORITHM_ID, ERROR_SPAWN_INVALID_MSG,
       ERROR_SPAWN_INVALID_PUBKEY

\* No error of main is a success.
LEMMA MainErrorsFail ==
    /\ 0 \notin MainErrors
    /\ CKB_INVALID_DATA # 0
    /\ CKB_INDEX_OUT_OF_BOUND # 0
BY DEF MainErrors, ERROR_ARGC, ERROR_SPAWN_INVALID_SIG,
       ERROR_SPAWN_INVALID_LENGTH, ERROR_SPAWN_SIGN_TOO_LONG,
       ERROR_SPAWN_INVALID_ALGORITHM_ID, ERROR_SPAWN_INVALID_MSG,
       ERROR_SPAWN_INVALID_PUBKEY, CKB_INVALID_DATA, CKB_INDEX_OUT_OF_BOUND

\* One text, given its own length or that of the bytes for the buffer's.
LEMMA SentDecodes ==
    ASSUME NEW digits \in {Lower, Upper}, NEW bin \in Bytes
    PROVE  /\ Len(Text(digits, bin)) = 2 * Len(bin)
           /\ Decodes(Text(digits, bin), Len(bin))
           /\ Decodes(Text(digits, bin), Len(Text(digits, bin)))
           /\ ckb_hex2bin(Text(digits, bin)) = bin
<1>1. Len(bin) \in Nat
  BY DEF Bytes
<1>2. Len(Text(digits, bin)) = 2 * Len(bin)
  BY TextOfBytes
<1>3. 2 * Len(bin) \in Nat /\ Len(bin) <= 2 * Len(bin)
  BY <1>1
<1> QED BY <1>1, <1>2, <1>3, RoundTrip

\* What a client encodes passes main's checks and decodes to what it gave.
LEMMA EncodedDecodes ==
    ASSUME NEW c, IsCall(c)
    PROVE  LET a == Encoded(c)
           IN  /\ Len(a) = 4
               /\ Len(a[1]) = 2
               /\ Len(a[2]) = 2 * Len(c.signature)
               /\ Len(a[3]) = 2 * BLAKE2B_BLOCK_SIZE
               /\ Len(a[4]) = 2 * BLAKE160_SIZE
               /\ Decodes(a[1], 1)
               /\ \A k \in 2 .. 4 : Decodes(a[k], Len(a[k]))
               /\ << ckb_hex2bin(a[1]), ckb_hex2bin(a[2]),
                     ckb_hex2bin(a[3]), ckb_hex2bin(a[4]) >> = Given(c)
<1> DEFINE a == Encoded(c)
           digits == IF c.client = "rust" THEN Upper ELSE Lower
<1>1. /\ <<c.alg>> \in Bytes /\ Len(<<c.alg>>) = 1
      /\ c.signature \in Bytes /\ Len(c.signature) \in Nat
      /\ c.message \in Bytes /\ Len(c.message) = 32
      /\ c.hash \in Bytes /\ Len(c.hash) = 20
      /\ digits \in {Lower, Upper}
  BY DEF IsCall, Bytes, BLAKE2B_BLOCK_SIZE, BLAKE160_SIZE
<1>2. /\ Len(a) = 4
      /\ a[1] = Text(digits, <<c.alg>>)
      /\ a[2] = Text(Lower, c.signature)
      /\ a[3] = Text(Lower, c.message)
      /\ a[4] = Text(Lower, c.hash)
  BY DEF Encoded, ckb_bin2hex
<1> HIDE DEF a, digits
<1>3. /\ Len(a[1]) = 2 * Len(<<c.alg>>) /\ Decodes(a[1], Len(<<c.alg>>))
      /\ ckb_hex2bin(a[1]) = <<c.alg>>
  BY <1>1, <1>2, SentDecodes, Zenon
<1>4. /\ Len(a[2]) = 2 * Len(c.signature) /\ Decodes(a[2], Len(a[2]))
      /\ ckb_hex2bin(a[2]) = c.signature
  BY <1>1, <1>2, SentDecodes, Zenon
<1>5. /\ Len(a[3]) = 2 * Len(c.message) /\ Decodes(a[3], Len(a[3]))
      /\ ckb_hex2bin(a[3]) = c.message
  BY <1>1, <1>2, SentDecodes, Zenon
<1>6. /\ Len(a[4]) = 2 * Len(c.hash) /\ Decodes(a[4], Len(a[4]))
      /\ ckb_hex2bin(a[4]) = c.hash
  BY <1>1, <1>2, SentDecodes, Zenon
<1>7. \A k \in 2 .. 4 : Decodes(a[k], Len(a[k]))
  <2>1. \A k \in 2 .. 4 : k = 2 \/ k = 3 \/ k = 4
    OBVIOUS
  <2> QED BY <1>4, <1>5, <1>6, <2>1, Zenon
<1>8. /\ Len(a[1]) = 2 /\ Decodes(a[1], 1)
      /\ Len(a[3]) = 2 * BLAKE2B_BLOCK_SIZE /\ Len(a[4]) = 2 * BLAKE160_SIZE
  <2>1. Decodes(a[1], 1)
    BY <1>1, <1>3, Zenon
  <2>2. Len(a[3]) = 2 * 32 /\ Len(a[4]) = 2 * 20
    BY <1>1, <1>5, <1>6, Zenon
  <2>3. Len(a[1]) = 2 * 1
    BY <1>1, <1>3, Zenon
  <2> QED BY <2>1, <2>2, <2>3 DEF BLAKE2B_BLOCK_SIZE, BLAKE160_SIZE
<1>9. << ckb_hex2bin(a[1]), ckb_hex2bin(a[2]), ckb_hex2bin(a[3]), ckb_hex2bin(a[4]) >>
        = Given(c)
  BY <1>3, <1>4, <1>5, <1>6, Zenon DEF Given
<1> QED BY <1>2, <1>4, <1>7, <1>8, <1>9, Zenon DEF a

-----------------------------------------------------------------------------
\* The answer is the outcome of a call that went all the way, and a success
\* only after ckb_auth_validate's, unless the exit code is not seen.
Truthful(code, result) ==
    /\ Passable(call, call.category) /\ call.client = "c" =>
          result = <<"c", call.outcome>>
    /\ Passable(call, call.category) /\ call.outcome = 0 => result \in Success
    /\ result \in Success /\ ~ExitUnseen =>
          code = <<0>> /\ (call.client # "argv" => received = Given(call))

\* Answering a client truthfully keeps the invariant.
LEMMA AnswerInductive ==
    ASSUME IndInv, NEW code, NEW result, Answer(code, result),
           code \in {<<>>} \cup { <<n>> : n \in Outcomes },
           result \in Results, Truthful(code, result)
    PROVE  IndInv'
<1> USE DEF IndInv, Answer, Truthful
<1>1. TypeOK'
  BY DEF TypeOK, Steps, IsCall
<1>2. OnTheWay'
  BY DEF OnTheWay
<1>3. ArgumentsIntact'
  BY DEF ArgumentsIntact
<1>4. SuccessIsValidated'
  BY DEF SuccessIsValidated, ExitUnseen, Success, Given
<1>5. ValidatedSucceeds'
  BY DEF ValidatedSucceeds, Success, Passable, Known, Limit
<1>6. SameCodeBothWays'
  <2> SUFFICES ASSUME NEW r \in returned', call.client = "c", Passable(call, r[1])
               PROVE  r[2] = <<"c", call.outcome>>
    BY DEF SameCodeBothWays, Passable, Known, Limit
  <2>1. CASE r \in returned
    BY <2>1 DEF SameCodeBothWays
  <2>2. CASE r = <<call.category, result>>
    BY <2>2
  <2> QED BY <2>1, <2>2
<1> QED BY <1>1, <1>2, <1>3, <1>4, <1>5, <1>6

\* Going on to another step keeps what does not depend on the step.
LEMMA ProceedInductive ==
    ASSUME IndInv, UNCHANGED <<call, verdict, ret, returned>>, pc # "done",
           pc' \in Steps \ {"done", "killed"}, OnTheWay', ArgumentsIntact'
    PROVE  IndInv'
<1> USE DEF IndInv
<1>1. TypeOK'
  BY DEF TypeOK, IsCall
<1>2. SuccessIsValidated' /\ ValidatedSucceeds'
  BY DEF SuccessIsValidated, ValidatedSucceeds
<1>3. SameCodeBothWays'
  BY DEF SameCodeBothWays, Passable, Known, Limit
<1> QED BY <1>1, <1>2, <1>3

\* A failing answer, or one that does not see the exit code, where the call
\* could not have gone all the way.
LEMMA FailInductive ==
    ASSUME IndInv, NEW result, Return(result), result \in Results,
           result \in Success => ExitUnseen, ~Passable(call, call.category)
    PROVE  IndInv'
BY AnswerInductive DEF Return, Truthful

-----------------------------------------------------------------------------
\* Neither client lets an id or a way through that it does not know.
LEMMA EnterInductive ==
    ASSUME IndInv, Enter \/ EnterRust \/ EnterArgv
    PROVE  IndInv'
<1> USE DEF EntryCategoryDynamicLinking, EntryCategorySpawn
<1>0. verdict = <<>>
  BY DEF IndInv, OnTheWay, Enter, EnterRust, EnterArgv
<1>1. CASE Goto("load") /\ pc = "enter" /\ call.category = 1
           /\ call.client \in {"c", "rust"} /\ Known(call)
  <2>1. OnTheWay' /\ ArgumentsIntact'
    BY <1>0, <1>1 DEF Goto, OnTheWay, ArgumentsIntact, Known
  <2> QED BY <1>1, <2>1, ProceedInductive DEF Goto, Steps
<1>2. CASE Goto("encode") /\ pc = "enter" /\ call.category = 2
           /\ call.client \in {"c", "rust"} /\ Known(call)
  <2>1. OnTheWay' /\ ArgumentsIntact'
    BY <1>0, <1>2 DEF Goto, OnTheWay, ArgumentsIntact, Known
  <2> QED BY <1>2, <2>1, ProceedInductive DEF Goto, Steps
<1>3. CASE EnterArgv
  <2>1. OnTheWay' /\ ArgumentsIntact'
    BY <1>0, <1>3 DEF EnterArgv, OnTheWay, ArgumentsIntact, IndInv, TypeOK, IsCall
  <2> QED BY <1>3, <2>1, ProceedInductive DEF EnterArgv, Steps
<1>4. ASSUME NEW error \in {"UnknowAlgorithmID", "EncodeArgs"},
             Return(<<"rust", error>>), ~Passable(call, call.category)
      PROVE  IndInv'
  <2>1. <<"rust", error>> \in Results \ Success
    BY DEF Results, Success
  <2> QED BY <1>4, <2>1, FailInductive
<1>5. CASE Return(<<"c", CKB_INVALID_DATA>>) /\ ~Passable(call, call.category)
  <2>1. <<"c", CKB_INVALID_DATA>> \in Results \ Success
    BY DEF Results, Success, CKB_INVALID_DATA
  <2> QED BY <1>5, <2>1, FailInductive
<1>6. CASE Enter
  BY <1>1, <1>2, <1>5, <1>6 DEF Enter, Passable, Known
<1>7. CASE EnterRust
  BY <1>1, <1>2, <1>4, <1>7 DEF EnterRust, Passable, Known
<1> QED BY <1>3, <1>6, <1>7

\* Linking hands the arguments over as they are.
LEMMA LoadInductive ==
    ASSUME IndInv, LoadLibrary
    PROVE  IndInv'
<1>1. /\ pc = "load"
      /\ call.category = EntryCategoryDynamicLinking
      /\ call.client \in {"c", "rust"}
      /\ Known(call)
      /\ verdict = <<>>
  BY DEF IndInv, TypeOK, IsCall, OnTheWay, LoadLibrary
<1>2. CASE call.lib # "ok"
  <2>1. ~Passable(call, call.category)
    BY <1>1, <1>2 DEF Passable, EntryCategoryDynamicLinking, EntryCategorySpawn
  <2>2. /\ <<"c", CKB_INDEX_OUT_OF_BOUND>> \in Results \ Success
        /\ <<"c", CKB_INVALID_DATA>> \in Results \ Success
        /\ <<"rust", "LoadDLError">> \in Results \ Success
        /\ <<"rust", "LoadDLFuncError">> \in Results \ Success
    BY DEF Results, Success, CKB_INVALID_DATA, CKB_INDEX_OUT_OF_BOUND
  <2> QED BY <1>2, <2>1, <2>2, FailInductive DEF LoadLibrary, Fail
<1>3. CASE call.lib = "ok"
  <2>1. /\ received' = Given(call)
        /\ pc' = "validate"
        /\ UNCHANGED <<call, argv, verdict, ret, returned>>
    BY <1>3 DEF LoadLibrary
  <2>2. Passable(call, call.category)
    BY <1>1, <1>3 DEF Passable
  <2>3. OnTheWay'
    BY <1>1, <2>1, <2>2 DEF OnTheWay, Passable, Known, Limit
  <2>4. ArgumentsIntact'
    BY <1>1, <2>1 DEF ArgumentsIntact, Given
  <2> QED BY <1>1, <2>1, <2>3, <2>4, ProceedInductive DEF Steps
<1> QED BY <1>2, <1>3

\* Encoding makes the texts of the client's arguments, within its limit.
LEMMA EncodeInductive ==
    ASSUME IndInv, Encode
    PROVE  IndInv'
<1> DEFINE long == call.client = "c" /\ Len(call.signature) > CLIENT_LIMIT
<1>1. /\ pc = "encode"
      /\ call.category = EntryCategorySpawn
      /\ call.client \in {"c", "rust"}
      /\ Known(call)
      /\ verdict = <<>>
      /\ Len(call.signature) \in Nat
  BY DEF IndInv, TypeOK, IsCall, OnTheWay, Encode, Bytes
<1>2. CASE long
  <2>1. ~Passable(call, call.category)
    BY <1>1, <1>2, LimitsAssumption
       DEF Passable, Limit, EntryCategoryDynamicLinking, EntryCategorySpawn
  <2>2. <<"c", CKB_INVALID_DATA>> \in Results \ Success
    BY DEF Results, Success, CKB_INVALID_DATA
  <2>3. Return(<<"c", CKB_INVALID_DATA>>)
    BY <1>2 DEF Encode
  <2> QED BY <2>1, <2>2, <2>3, FailInductive
<1>3. CASE ~long
  <2>1. /\ argv' = Encoded(call)
        /\ pc' = "spawn"
        /\ UNCHANGED <<call, received, verdict, ret, returned>>
    BY <1>3 DEF Encode
  <2>2. call.client = "c" => Len(call.signature) <= CLIENT_LIMIT
    BY <1>1, <1>3, LimitsAssumption
  <2>3. OnTheWay'
    BY <1>1, <2>1, <2>2 DEF OnTheWay, Known, Encoded
  <2>4. ArgumentsIntact'
    BY <2>1 DEF ArgumentsIntact
  <2> QED BY <1>1, <2>1, <2>3, <2>4, ProceedInductive DEF Steps
<1> QED BY <1>2, <1>3

\* Finding the cell, or not.
LEMMA SpawnInductive ==
    ASSUME IndInv, SpawnCell
    PROVE  IndInv'
<1>1. /\ pc = "spawn"
      /\ call.category = EntryCategorySpawn
      /\ verdict = <<>>
  BY DEF IndInv, OnTheWay, SpawnCell
<1>2. CASE call.lib = "missing"
  <2>1. ~Passable(call, call.category)
    BY <1>1, <1>2 DEF Passable, EntryCategoryDynamicLinking, EntryCategorySpawn
  <2>2. /\ <<"c", CKB_INDEX_OUT_OF_BOUND>> \in Results \ Success
        /\ <<"rust", "ExecError">> \in Results \ Success
    BY DEF Results, Success, CKB_INDEX_OUT_OF_BOUND
  <2> QED BY <1>2, <2>1, <2>2, FailInductive DEF SpawnCell, Fail
<1>3. CASE call.lib # "missing"
  <2>1. Goto("main")
    BY <1>3 DEF SpawnCell
  <2>2. OnTheWay'
    BY <1>1, <1>3, <2>1 DEF IndInv, OnTheWay, Goto, Known, Encoded
  <2>3. ArgumentsIntact'
    BY <2>1 DEF ArgumentsIntact, Goto
  <2> QED BY <1>1, <2>1, <2>2, <2>3, ProceedInductive DEF Steps, Goto
<1> QED BY <1>2, <1>3

\* What a client makes of an error of main.
LEMMA ExitedFails ==
    ASSUME NEW code \in MainErrors, call.category = EntryCategorySpawn,
           call.exit_err \in BOOLEAN
    PROVE  Exited(code) \in Results /\ (Exited(code) \in Success => ExitUnseen)
<1>1. Int8(code) = code /\ code # 0
  BY CodesFit, MainErrorsFail
<1> QED BY <1>1 DEF Exited, Results, Success, ExitUnseen

\* main refuses no client's call that goes all the way.
LEMMA CheckTextsInductive ==
    ASSUME IndInv, CheckTexts
    PROVE  IndInv'
<1>1. /\ pc = "main"
      /\ IsCall(call)
      /\ call.category = EntryCategorySpawn
      /\ call.lib # "missing"
      /\ verdict = <<>>
      /\ call.client # "argv" => argv = Encoded(call)
  BY DEF IndInv, TypeOK, OnTheWay, CheckTexts
<1>2. ASSUME NEW code \in MainErrors, Return(Exited(code)),
             ~Passable(call, call.category)
      PROVE  IndInv'
  <2>1. call.exit_err \in BOOLEAN
    BY <1>1 DEF IsCall
  <2>2. Exited(code) \in Results /\ (Exited(code) \in Success => ExitUnseen)
    BY <1>1, <2>1, ExitedFails
  <2> QED BY <1>2, <2>2, FailInductive
<1>3. /\ ERROR_ARGC \in MainErrors
      /\ ERROR_SPAWN_INVALID_LENGTH \in MainErrors
      /\ ERROR_SPAWN_SIGN_TOO_LONG \in MainErrors
  BY DEF MainErrors
<1>4. CASE Goto("decode") /\ Len(argv) = 4 /\ Len(argv[2]) <= 2 * MAIN_LIMIT
  <2>1. OnTheWay'
    BY <1>1, <1>4 DEF IndInv, OnTheWay, Goto, Known, Encoded
  <2>2. ArgumentsIntact'
    BY <1>4 DEF ArgumentsIntact, Goto
  <2> QED BY <1>1, <1>4, <2>1, <2>2, ProceedInductive DEF Steps, Goto
<1>5. CASE call.client = "argv"
  <2>1. ~Passable(call, call.category)
    BY <1>5 DEF Passable
  <2> QED BY <1>2, <1>3, <1>4, <2>1 DEF CheckTexts
<1>6. CASE call.client # "argv"
  <2>1. /\ Len(argv) = 4
        /\ Len(argv[1]) = 2
        /\ Len(argv[2]) = 2 * Len(call.signature)
        /\ Len(argv[3]) = 2 * BLAKE2B_BLOCK_SIZE
        /\ Len(argv[4]) = 2 * BLAKE160_SIZE
    BY <1>1, <1>6, EncodedDecodes, Zenon
  <2>2. Len(call.signature) \in Nat
    BY <1>1 DEF IsCall, Bytes
  <2>3. Len(argv[2]) % 2 = 0
    <3>1. \A n \in Nat : (2 * n) % 2 = 0
      OBVIOUS
    <3> QED BY <2>1, <2>2, <3>1, Zenon
  <2>4. Len(argv[2]) > 2 * MAIN_LIMIT => ~Passable(call, call.category)
    <3>1. Len(argv[2]) > 2 * MAIN_LIMIT => Len(call.signature) > MAIN_LIMIT
      BY <2>1, <2>2, LimitsAssumption
    <3> QED BY <1>1, <2>2, <3>1, LimitsAssumption
            DEF Passable, Limit, EntryCategorySpawn, EntryCategoryDynamicLinking
  <2> QED BY <1>2, <1>3, <1>4, <2>1, <2>3, <2>4 DEF CheckTexts
<1> QED BY <1>5, <1>6

\* Decoding a client's texts fails never and gives back its arguments;
\* decoding others gives the bytes they stand for.
LEMMA DecodeTextsInductive ==
    ASSUME IndInv, DecodeTexts
    PROVE  IndInv'
<1>1. /\ pc = "decode"
      /\ IsCall(call)
      /\ call.category = EntryCategorySpawn
      /\ call.lib # "missing"
      /\ verdict = <<>>
      /\ call.client # "argv" => argv = Encoded(call) /\ Known(call)
      /\ call.client = "argv" => argv = call.argv
      /\ call.client = "c" => Len(call.signature) <= CLIENT_LIMIT
      /\ Len(argv) = 4
      /\ Len(argv[2]) <= 2 * MAIN_LIMIT
  BY DEF IndInv, TypeOK, OnTheWay, DecodeTexts
<1>2. CASE DecodeError = 0
  <2> DEFINE decoded == << ckb_hex2bin(argv[1]), ckb_hex2bin(argv[2]),
                           ckb_hex2bin(argv[3]), ckb_hex2bin(argv[4]) >>
  <2>1. /\ received' = decoded
        /\ pc' = "validate"
        /\ UNCHANGED <<call, argv, verdict, ret, returned>>
    BY <1>2 DEF DecodeTexts
  <2>2. CASE call.client # "argv"
    <3>1. decoded = Given(call) /\ Len(argv[2]) = 2 * Len(call.signature)
      BY <1>1, <2>2, EncodedDecodes, Zenon
    <3>2. Len(call.signature) \in Nat
      BY <1>1 DEF IsCall, Bytes
    <3>3. Len(call.signature) <= Limit(call)
      BY <1>1, <3>1, <3>2, LimitsAssumption DEF Limit
    <3>4. Passable(call, call.category)
      BY <1>1, <2>2, <3>3 DEF Passable, IsCall
    <3> HIDE DEF decoded
    <3>5. OnTheWay'
      BY <1>1, <2>1, <3>4 DEF OnTheWay, Passable, Known, Limit
    <3>6. ArgumentsIntact'
      BY <2>1, <2>2, <3>1 DEF ArgumentsIntact, Given
    <3> QED BY <1>1, <2>1, <3>5, <3>6, ProceedInductive DEF Steps
  <2>3. CASE call.client = "argv"
    <3>1. \A k \in 1 .. 4 : Len(argv[k]) \in Nat
      BY <1>1, <2>3 DEF IsCall
    <3>2. /\ Decodes(argv[1], 1)
          /\ Decodes(argv[2], Len(argv[2]))
          /\ Decodes(argv[3], Len(argv[3]))
          /\ Decodes(argv[4], Len(argv[4]))
      BY <1>2 DEF DecodeError, ERROR_SPAWN_INVALID_ALGORITHM_ID,
              ERROR_SPAWN_INVALID_SIG, ERROR_SPAWN_INVALID_MSG,
              ERROR_SPAWN_INVALID_PUBKEY
    <3>3. ASSUME NEW k \in 1 .. 4
          PROVE  /\ received'[k] = ckb_hex2bin(argv[k])
                 /\ \E n : Decodes(argv[k], n)
      <4>1. k = 1 \/ k = 2 \/ k = 3 \/ k = 4
        OBVIOUS
      <4> QED BY <2>1, <3>2, <4>1
    <3>4. ASSUME NEW k \in 1 .. 4
          PROVE  /\ received'[k] \in Bytes
                 /\ Len(argv[k]) = 2 * Len(received'[k])
                 /\ \A d \in 1 .. Len(argv[k]) :
                       argv[k][d] \in { ckb_bin2hex(received'[k])[d],
                                        Text(Upper, received'[k])[d] }
      <4>1. PICK n : Decodes(argv[k], n)
        BY <3>3
      <4> QED BY <3>1, <3>3, <4>1, DecodedText, Zenon
    <3>5. ArgumentsIntact'
      BY <2>1, <2>3, <3>4, Zenon DEF ArgumentsIntact
    <3>6. OnTheWay'
      BY <1>1, <2>1, <2>3 DEF OnTheWay
    <3> QED BY <1>1, <2>1, <3>5, <3>6, ProceedInductive DEF Steps
  <2> QED BY <2>2, <2>3
<1>3. CASE DecodeError # 0
  <2>1. DecodeError \in MainErrors
    BY <1>3 DEF DecodeError, MainErrors
  <2>2. Return(Exited(DecodeError))
    BY <1>3 DEF DecodeTexts
  <2>3. call.client = "argv"
    <3> SUFFICES ASSUME call.client # "argv" PROVE FALSE
      OBVIOUS
    <3>1. Decodes(argv[1], 1) /\ \A k \in 2 .. 4 : Decodes(argv[k], Len(argv[k]))
      BY <1>1, EncodedDecodes, Zenon
    <3> QED BY <1>3, <3>1 DEF DecodeError
  <2>4. ~Passable(call, call.category)
    BY <2>3 DEF Passable
  <2>5. call.exit_err \in BOOLEAN
    BY <1>1 DEF IsCall
  <2>6. /\ Exited(DecodeError) \in Results
        /\ Exited(DecodeError) \in Success => ExitUnseen
    BY <1>1, <2>1, <2>5, ExitedFails
  <2> QED BY <2>2, <2>4, <2>6, FailInductive
<1> QED BY <1>2, <1>3

\* What the client gets is what ckb_auth_validate returned.
LEMMA ValidateInductive ==
    ASSUME IndInv, Validate
    PROVE  IndInv'
<1>1. /\ pc = "validate"
      /\ IsCall(call)
      /\ verdict = <<>>
      /\ call.client # "argv" =>
            received = Given(call) /\ Passable(call, call.category)
  BY DEF IndInv, TypeOK, OnTheWay, ArgumentsIntact, Validate
<1>2. PICK code \in Outcomes :
        /\ received = Given(call) => code = call.outcome
        /\ \/ /\ call.category = EntryCategorySpawn
              /\ Answer(<<code>>, Exited(code))
           \/ /\ call.category # EntryCategorySpawn
              /\ code # ERROR_ILLEGAL_CALLBACK
              /\ Answer(<<code>>, Linked(code))
           \/ /\ call.category # EntryCategorySpawn
              /\ code = ERROR_ILLEGAL_CALLBACK
              /\ Goto("killed")
  BY DEF Validate
<1>3. /\ call.client # "argv" => code = call.outcome
      /\ call.client = "argv" => ~Passable(call, call.category)
      /\ call.client \in {"c", "rust", "argv"}
  BY <1>1, <1>2 DEF Passable, IsCall
<1>4. ASSUME NEW result, Answer(<<code>>, result),
             \/ call.client # "rust" /\ result = <<"c", code>>
             \/ call.client = "rust" /\ code = 0 /\ result = <<"rust", "Ok">>
             \/ call.client = "rust" /\ code # 0 /\ result = <<"rust", "ExecError">>
             \/ call.client = "rust" /\ code # 0 /\ result = <<"rust", "RunDLError">>
             \/ ExitUnseen /\ code # 0 /\ result = <<"rust", "Ok">>
      PROVE  IndInv'
  <2>1. result \in Results
    BY <1>4 DEF Results
  <2>2. /\ code = 0 => result \in Success
        /\ result \in Success /\ ~ExitUnseen => code = 0
    BY <1>4 DEF Success
  <2>3. call.client = "c" => result = <<"c", code>>
    BY <1>4 DEF ExitUnseen
  <2>4. <<code>> \in {<<>>} \cup { <<n>> : n \in Outcomes }
    OBVIOUS
  <2>5. Truthful(<<code>>, result)
    BY <1>1, <1>3, <2>2, <2>3 DEF Truthful
  <2> QED BY <1>4, <2>1, <2>4, <2>5, AnswerInductive
<1>5. Int8(code) = code
  BY CodesFit
<1>6. CASE call.category = EntryCategorySpawn /\ Answer(<<code>>, Exited(code))
  <2>1. call.exit_err \in BOOLEAN
    BY <1>1 DEF IsCall
  <2> QED BY <1>4, <1>5, <1>6, <2>1 DEF Exited, ExitUnseen
<1>7. CASE Answer(<<code>>, Linked(code))
  BY <1>4, <1>7 DEF Linked
<1>8. CASE code = ERROR_ILLEGAL_CALLBACK /\ Goto("killed")
  <2> USE DEF IndInv
  <2>1. code # 0
    BY <1>8 DEF ERROR_ILLEGAL_CALLBACK
  <2>2. TypeOK'
    BY <1>8 DEF TypeOK, Goto, Steps, IsCall
  <2>3. OnTheWay'
    BY <1>1, <1>8 DEF OnTheWay, Goto
  <2>4. ArgumentsIntact' /\ SuccessIsValidated'
    BY <1>8 DEF ArgumentsIntact, SuccessIsValidated, Goto
  <2>5. ValidatedSucceeds'
    BY <1>3, <1>8, <2>1 DEF ValidatedSucceeds, Goto, Passable, Known, Limit
  <2>6. SameCodeBothWays'
    BY <1>8 DEF SameCodeBothWays, Goto, Passable, Known, Limit
  <2> QED BY <2>2, <2>3, <2>4, <2>5, <2>6
<1> QED BY <1>2, <1>6, <1>7, <1>8

\* Asking again the other way leaves the answer got as it is.
LEMMA CallOtherInductive ==
    ASSUME IndInv, CallOther
    PROVE  IndInv'
<1>0. TypeOK /\ SameCodeBothWays
  BY DEF IndInv
<1>1. /\ call'.client = call.client /\ call'.alg = call.alg
      /\ call'.signature = call.signature /\ call'.lib = call.lib
      /\ call'.outcome = call.outcome /\ call'.message = call.message
      /\ call'.hash = call.hash /\ call'.argv = call.argv
      /\ call'.exit_err = call.exit_err
      /\ DOMAIN call' = Fields
      /\ call'.category = 3 - call.category
  BY <1>0 DEF TypeOK, IsCall, Fields, CallOther
<1>2. call'.category \in Byte /\ call.client # "argv"
  <2>1. call.category = 1 \/ call.category = 2
    BY DEF CallOther, EntryCategoryDynamicLinking, EntryCategorySpawn
  <2>2. call'.category = 2 \/ call'.category = 1
    BY <1>1, <2>1
  <2> QED BY <2>2 DEF CallOther, Byte
<1>3. IsCall(call')
  BY <1>0, <1>1, <1>2 DEF TypeOK, IsCall
<1>4. TypeOK'
  BY <1>0, <1>3 DEF TypeOK, Steps, CallOther
<1>5. OnTheWay' /\ ArgumentsIntact' /\ SuccessIsValidated' /\ ValidatedSucceeds'
  BY DEF OnTheWay, ArgumentsIntact, SuccessIsValidated, ValidatedSucceeds, CallOther
<1>6. \A way : Passable(call', way) <=> Passable(call, way)
  BY <1>1 DEF Passable, Known, Limit
<1>7. SameCodeBothWays'
  BY <1>0, <1>1, <1>6 DEF SameCodeBothWays, CallOther
<1> QED BY <1>4, <1>5, <1>7 DEF IndInv

\* A step that changes nothing keeps the invariant.
LEMMA StutterInductive ==
    ASSUME IndInv, UNCHANGED vars
    PROVE  IndInv'
<1> USE DEF IndInv, vars
<1>1. TypeOK'
  BY DEF TypeOK, IsCall
<1>2. OnTheWay'
  BY DEF OnTheWay, Passable, Known, Limit, Encoded
<1>3. ArgumentsIntact'
  BY DEF ArgumentsIntact, Given
<1>4. SuccessIsValidated' /\ ValidatedSucceeds'
  BY DEF SuccessIsValidated, ValidatedSucceeds, ExitUnseen, Success, Given, Passable, Known,
         Limit
<1>5. SameCodeBothWays'
  BY DEF SameCodeBothWays, Passable, Known, Limit
<1> QED BY <1>1, <1>2, <1>3, <1>4, <1>5

-----------------------------------------------------------------------------
\* IndInv is an inductive invariant of Entry, whatever the calls and limits.
THEOREM Inductive == Spec => []IndInv
<1>1. Init => IndInv
  BY CallsAssumption DEF Init, IndInv, TypeOK, Steps, OnTheWay, ArgumentsIntact,
     SuccessIsValidated, ValidatedSucceeds, SameCodeBothWays, Nothing
<1>2. IndInv /\ [Next]_vars => IndInv'
  <2> SUFFICES ASSUME IndInv, [Next]_vars PROVE IndInv'
    OBVIOUS
  <2>1. CASE Step
    BY <2>1, EnterInductive, LoadInductive, EncodeInductive, SpawnInductive,
       CheckTextsInductive, DecodeTextsInductive, ValidateInductive DEF Step
  <2>2. CASE CallOther
    BY <2>2, CallOtherInductive
  <2>3. CASE Ended \/ UNCHANGED vars
    BY <2>3, StutterInductive DEF Ended
  <2> QED BY <2>1, <2>2, <2>3 DEF Next
<1> QED BY <1>1, <1>2, PTL DEF Spec

\* The variables of clients, texts and exit codes keep their types; the exit
\* code of a spawned main always fits its int8_t.
THEOREM TypeCorrect == Spec => []TypeOK
<1>1. IndInv => TypeOK
  BY DEF IndInv
<1> QED BY <1>1, Inductive, PTL

\* For any limits and any calls, what reaches ckb_auth_validate is what the
\* client gave to ckb_auth, and what another script's texts stand for.
THEOREM Delivery == Spec => []ArgumentsIntact
<1>1. IndInv => ArgumentsIntact
  BY DEF IndInv
<1> QED BY <1>1, Inductive, PTL

\* ckb_auth and a spawned main succeed only after ckb_auth_validate did, on
\* the client's own arguments; the Rust client's spawn if, and only as far as,
\* spawn_cell makes an error of an exit code other than 0.
THEOREM Soundness == Spec => []SuccessIsValidated
<1>1. IndInv => SuccessIsValidated
  BY DEF IndInv
<1> QED BY <1>1, Inductive, PTL

\* What ckb_auth_validate accepts is refused on no way it can pass.
THEOREM Completeness == Spec => []ValidatedSucceeds
<1>1. IndInv => ValidatedSucceeds
  BY DEF IndInv
<1> QED BY <1>1, Inductive, PTL

\* The C client gets the same code whichever way it asks.
THEOREM SameCode == Spec => []SameCodeBothWays
<1>1. IndInv => SameCodeBothWays
  BY DEF IndInv
<1> QED BY <1>1, Inductive, PTL
=============================================================================
