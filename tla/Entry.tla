-------------------------------- MODULE Entry --------------------------------
(***************************************************************************)
(* How a lock script reaches ckb_auth_validate: ckb_auth of the C header   *)
(* (c/ckb_auth.h) and of the Rust crate (ckb-auth-rs), by dynamic linking  *)
(* or by spawning the library's main (c/auth.c), and any other script that *)
(* spawns main with arguments of its own.                                  *)
(*                                                                         *)
(* ckb_auth_validate is a function of its arguments here: call.outcome is  *)
(* what it returns for the ones the client has (Auth says which), and for  *)
(* others it may return anything.  A client that has its answer may ask    *)
(* again by the other way (CallOther).                                     *)
(***************************************************************************)
EXTENDS Hex

CONSTANTS
    Calls,        \* the clients' calls
    CLIENT_LIMIT, \* bytes of signature the C client will encode (1024 * 8)
    MAIN_LIMIT    \* bytes of signature main will decode (1024 * 64)

ASSUME LimitsAssumption ==
    CLIENT_LIMIT \in Nat /\ MAIN_LIMIT \in Nat /\ CLIENT_LIMIT <= MAIN_LIMIT

EntryCategoryDynamicLinking == 1
EntryCategorySpawn          == 2

\* The ids AuthAlgorithmIdType of the Rust crate has.
RustIds == 0 .. 9 \cup {252}

\* External: results of the VM's syscalls.
CKB_INDEX_OUT_OF_BOUND == 1
CKB_INVALID_DATA       == 4

Outcomes == ValidateErrors \cup {0}
MainErrors ==
    { ERROR_ARGC, ERROR_SPAWN_INVALID_LENGTH, ERROR_SPAWN_SIGN_TOO_LONG,
      ERROR_SPAWN_INVALID_ALGORITHM_ID, ERROR_SPAWN_INVALID_SIG,
      ERROR_SPAWN_INVALID_MSG, ERROR_SPAWN_INVALID_PUBKEY }

Fields == { "client", "category", "alg", "signature", "message", "hash",
            "argv", "lib", "exit_err", "outcome" }

IsCall(c) ==
    /\ DOMAIN c = Fields
    /\ c.client \in {"c", "rust", "argv"}
    /\ c.category \in Byte
    /\ c.client = "argv" => c.category = EntryCategorySpawn
    /\ c.alg \in Byte
    /\ c.signature \in Bytes
    /\ c.message \in Bytes /\ Len(c.message) = BLAKE2B_BLOCK_SIZE
    /\ c.hash \in Bytes /\ Len(c.hash) = BLAKE160_SIZE
    /\ Len(c.argv) \in Nat               \* the texts an "argv" client passes
    /\ \A k \in 1 .. Len(c.argv) : Len(c.argv[k]) \in Nat
    /\ c.lib \in {"ok", "missing", "nosym"}
    /\ c.exit_err \in BOOLEAN   \* spawn_cell makes an error of an exit code
    /\ c.outcome \in Outcomes

ASSUME CallsAssumption == \A c \in Calls : IsCall(c)

VARIABLES
    call,      \* the client's arguments
    pc,        \* the next step
    argv,      \* the arguments of the spawned main
    received,  \* the arguments of ckb_auth_validate
    verdict,   \* what ckb_auth_validate returned, as a sequence of length 1
    ret,       \* what the client got
    returned   \* the ways asked so far, each with what the client got

vars == <<call, pc, argv, received, verdict, ret, returned>>

Nothing == <<"none", 0>>
Given(c) == << <<c.alg>>, c.signature, c.message, c.hash >>

Init ==
    /\ call \in Calls
    /\ pc = "enter"
    /\ argv = <<>>
    /\ received = <<>>
    /\ verdict = <<>>
    /\ ret = Nothing
    /\ returned = {}

Goto(step) ==
    /\ pc' = step
    /\ UNCHANGED <<call, argv, received, verdict, ret, returned>>

\* The client gets result, after ckb_auth_validate returned code if at all.
Answer(code, result) ==
    /\ pc' = "done"
    /\ verdict' = code
    /\ ret' = result
    /\ returned' = returned \cup { <<call.category, result>> }
    /\ UNCHANGED <<call, argv, received>>

Return(result) == Answer(<<>>, result)

\* The C client passes codes on, the Rust client has errors of its own.
Fail(code, error) ==
    \/ call.client # "rust" /\ Return(<<"c", code>>)
    \/ call.client = "rust" /\ Return(<<"rust", error>>)

-----------------------------------------------------------------------------
Enter ==
    /\ pc = "enter"
    /\ call.client = "c"
    /\ \/ call.category = EntryCategoryDynamicLinking /\ Goto("load")
       \/ call.category = EntryCategorySpawn /\ Goto("encode")
       \/ /\ call.category \notin {EntryCategoryDynamicLinking, EntryCategorySpawn}
          /\ Return(<<"c", CKB_INVALID_DATA>>)

\* The conversions to AuthAlgorithmIdType and EntryCategoryType come first.
EnterRust ==
    /\ pc = "enter"
    /\ call.client = "rust"
    /\ \/ call.alg \notin RustIds /\ Return(<<"rust", "UnknowAlgorithmID">>)
       \/ /\ call.alg \in RustIds
          /\ \/ call.category = EntryCategoryDynamicLinking /\ Goto("load")
             \/ call.category = EntryCategorySpawn /\ Goto("encode")
             \/ /\ call.category \notin
                      {EntryCategoryDynamicLinking, EntryCategorySpawn}
                /\ Return(<<"rust", "EncodeArgs">>)

\* Any script may spawn main with texts of its own.
EnterArgv ==
    /\ pc = "enter"
    /\ call.client = "argv"
    /\ argv' = call.argv
    /\ pc' = "spawn"
    /\ UNCHANGED <<call, received, verdict, ret, returned>>

\* ckb_dlopen2 and ckb_dlsym, or CKBDLLoader::get_validate_func.
LoadLibrary ==
    /\ pc = "load"
    /\ \/ call.lib = "missing" /\ Fail(CKB_INDEX_OUT_OF_BOUND, "LoadDLError")
       \/ call.lib = "nosym" /\ Fail(CKB_INVALID_DATA, "LoadDLFuncError")
       \/ /\ call.lib = "ok"
          /\ received' = Given(call)
          /\ pc' = "validate"
          /\ UNCHANGED <<call, argv, verdict, ret, returned>>

\* The texts for main; the Rust client writes the id in upper case.
Encoded(c) ==
    << Text(IF c.client = "rust" THEN Upper ELSE Lower, <<c.alg>>),
       ckb_bin2hex(c.signature), ckb_bin2hex(c.message), ckb_bin2hex(c.hash) >>

\* Mutant: whatever length of signature is encoded.
EncodeUnlimited ==
    /\ pc = "encode"
    /\ argv' = Encoded(call)
    /\ pc' = "spawn"
    /\ UNCHANGED <<call, received, verdict, ret, returned>>

\* Only the C client has a limit.
Encode ==
    /\ pc = "encode"
    /\ LET long == call.client = "c" /\ Len(call.signature) > CLIENT_LIMIT
       IN  \/ long /\ Return(<<"c", CKB_INVALID_DATA>>)
           \/ /\ ~long
              /\ argv' = Encoded(call)
              /\ pc' = "spawn"
              /\ UNCHANGED <<call, received, verdict, ret, returned>>

\* External: ckb_spawn_cell and spawn_cell look for the cell and run it.
SpawnCell ==
    /\ pc = "spawn"
    /\ \/ call.lib = "missing" /\ Fail(CKB_INDEX_OUT_OF_BOUND, "ExecError")
       \/ call.lib # "missing" /\ Goto("main")

-----------------------------------------------------------------------------
\* Mutant: only whether it failed is left of a code.
Int8Flag(code) == IF code = 0 THEN 0 ELSE 1

\* An int as the int8_t exit code of a process.
Int8(code) == ((code + 128) % 256) - 128

\* Mutant: the spawn's own result is returned, not the exit code.
ExitedIgnored(code) == IF call.client = "rust" THEN <<"rust", "Ok">> ELSE <<"c", 0>>

\* What the client makes of main ending with code.  The Rust client passes an
\* error of spawn_cell on and drops the value of its Ok.  External: whether
\* spawn_cell makes an error of an exit code or puts it into that Ok is not
\* said by anything in the repository, so call.exit_err is either.
Exited(code) ==
    IF call.client # "rust" THEN <<"c", Int8(code)>>
    ELSE <<"rust", IF call.exit_err /\ Int8(code) # 0 THEN "ExecError" ELSE "Ok">>

\* main: the number and the lengths of the texts.
CheckTexts ==
    /\ pc = "main"
    /\ LET lengths == /\ Len(argv[1]) = 2
                      /\ Len(argv[2]) % 2 = 0
                      /\ Len(argv[3]) = 2 * BLAKE2B_BLOCK_SIZE
                      /\ Len(argv[4]) = 2 * BLAKE160_SIZE
       IN  \/ Len(argv) # 4 /\ Return(Exited(ERROR_ARGC))
           \/ Len(argv) = 4 /\ ~lengths /\ Return(Exited(ERROR_SPAWN_INVALID_LENGTH))
           \/ /\ Len(argv) = 4 /\ lengths
              /\ Len(argv[2]) > 2 * MAIN_LIMIT
              /\ Return(Exited(ERROR_SPAWN_SIGN_TOO_LONG))
           \/ /\ Len(argv) = 4 /\ lengths
              /\ Len(argv[2]) <= 2 * MAIN_LIMIT
              /\ Goto("decode")

\* The first text that does not decode, 0 when all do.  All but the first
\* pass the length of the text for that of the buffer.
DecodeError ==
    IF ~Decodes(argv[1], 1) THEN ERROR_SPAWN_INVALID_ALGORITHM_ID
    ELSE IF ~Decodes(argv[2], Len(argv[2])) THEN ERROR_SPAWN_INVALID_SIG
    ELSE IF ~Decodes(argv[3], Len(argv[3])) THEN ERROR_SPAWN_INVALID_MSG
    ELSE IF ~Decodes(argv[4], Len(argv[4])) THEN ERROR_SPAWN_INVALID_PUBKEY
    ELSE 0

DecodeTexts ==
    /\ pc = "decode"
    /\ \/ DecodeError # 0 /\ Return(Exited(DecodeError))
       \/ /\ DecodeError = 0
          /\ received' = << ckb_hex2bin(argv[1]), ckb_hex2bin(argv[2]),
                           ckb_hex2bin(argv[3]), ckb_hex2bin(argv[4]) >>
          /\ pc' = "validate"
          /\ UNCHANGED <<call, argv, verdict, ret, returned>>

-----------------------------------------------------------------------------
\* What the client makes of a linked ckb_auth_validate returning code.
Linked(code) ==
    IF call.client # "rust" THEN <<"c", code>>
    ELSE <<"rust", IF code = 0 THEN "Ok" ELSE "RunDLError">>

\* The illegal callback's ckb_exit ends the process ckb_auth_validate runs in:
\* the client's own one when linked, the child's when spawned.
Validate ==
    /\ pc = "validate"
    /\ \E code \in Outcomes :
          /\ received = Given(call) => code = call.outcome
          /\ \/ /\ call.category = EntryCategorySpawn
                /\ Answer(<<code>>, Exited(code))
             \/ /\ call.category # EntryCategorySpawn
                /\ code # ERROR_ILLEGAL_CALLBACK
                /\ Answer(<<code>>, Linked(code))
             \/ /\ call.category # EntryCategorySpawn
                /\ code = ERROR_ILLEGAL_CALLBACK
                /\ Goto("killed")

\* The client asks again, the other way.
CallOther ==
    /\ pc = "done"
    /\ call.client # "argv"
    /\ call.category \in {EntryCategoryDynamicLinking, EntryCategorySpawn}
    /\ \A r \in returned : r[1] = call.category
    /\ call' = [call EXCEPT !.category = 3 - @]
    /\ pc' = "enter"
    /\ argv' = <<>>
    /\ received' = <<>>
    /\ verdict' = <<>>
    /\ ret' = Nothing
    /\ UNCHANGED returned

Ended == pc \in {"done", "killed"} /\ UNCHANGED vars

Step ==
    \/ Enter
    \/ EnterRust
    \/ EnterArgv
    \/ LoadLibrary
    \/ Encode
    \/ SpawnCell
    \/ CheckTexts
    \/ DecodeTexts
    \/ Validate

Next == Step \/ CallOther \/ Ended

Spec == Init /\ [][Next]_vars

-----------------------------------------------------------------------------
Steps == {"enter", "load", "encode", "spawn", "main", "decode", "validate",
          "done", "killed"}

Results == ({"c"} \X (Outcomes \cup MainErrors
                        \cup {CKB_INDEX_OUT_OF_BOUND, CKB_INVALID_DATA}))
           \cup ({"rust"} \X {"Ok", "UnknowAlgorithmID", "EncodeArgs", "LoadDLError",
                              "LoadDLFuncError", "RunDLError", "ExecError"})

TypeOK ==
    /\ IsCall(call)
    /\ pc \in Steps
    /\ verdict \in {<<>>} \cup { <<code>> : code \in Outcomes }
    /\ ret \in Results \cup {Nothing}
    /\ returned \subseteq Byte \X Results

Success == { <<"c", 0>>, <<"rust", "Ok">> }

\* What a client gives to ckb_auth arrives at ckb_auth_validate unchanged, be
\* it linked or spawned through hexadecimal text of either case; and what
\* another script passes to main arrives as the bytes its texts stand for.
ArgumentsIntact ==
    pc = "validate" =>
        /\ call.client # "argv" => received = Given(call)
        /\ call.client = "argv" =>
              \A k \in 1 .. 4 :
                  /\ received[k] \in Bytes
                  /\ Len(argv[k]) = 2 * Len(received[k])
                  /\ \A d \in 1 .. Len(argv[k]) :
                        argv[k][d] \in { ckb_bin2hex(received[k])[d],
                                         Text(Upper, received[k])[d] }

\* The Rust client spawned main and is told nothing of its exit code.
ExitUnseen ==
    /\ call.client = "rust"
    /\ call.category = EntryCategorySpawn
    /\ ~call.exit_err

\* ckb_auth, or a spawned main, succeeds only when ckb_auth_validate was called
\* and accepted, and ckb_auth only with the client's own arguments: no
\* conversion, exit code or early return turns an error into a success.  For
\* the Rust client's spawn this depends on spawn_cell making an error of every
\* exit code but 0, as ckb_auth_spawn looks at nothing else (ckb_auth.rs:140).
SuccessIsValidated ==
    pc = "done" /\ ret \in Success /\ ~ExitUnseen =>
        /\ verdict = <<0>>
        /\ call.client # "argv" => received = Given(call)

\* The calls that go all the way: the client knows the id and the way, finds
\* the library, and the signature is within the limits of the way.
Known(c) == c.client = "rust" => c.alg \in RustIds

Limit(c) == IF c.client = "c" THEN CLIENT_LIMIT ELSE MAIN_LIMIT

Passable(c, way) ==
    /\ c.client \in {"c", "rust"}
    /\ Known(c)
    /\ \/ way = EntryCategoryDynamicLinking /\ c.lib = "ok"
       \/ /\ way = EntryCategorySpawn
          /\ c.lib # "missing"
          /\ Len(c.signature) <= Limit(c)

\* A call that goes all the way fails only if ckb_auth_validate refuses it.
ValidatedSucceeds ==
    pc \in {"done", "killed"} /\ Passable(call, call.category) /\ call.outcome = 0 =>
        ret \in Success

\* Linked or spawned, the C client gets the very code ckb_auth_validate
\* returns whenever the call can pass that way, although a spawned one is
\* squeezed into an int8_t: both ways answer the same.
SameCodeBothWays ==
    \A r \in returned :
        call.client = "c" /\ Passable(call, r[1]) =>
            r[2] = <<"c", call.outcome>>

-----------------------------------------------------------------------------
\* What the steps behind the next one have established.
OnTheWay ==
    /\ pc = "load" => call.category = EntryCategoryDynamicLinking
    /\ pc \in {"encode", "spawn", "main", "decode"} =>
          call.category = EntryCategorySpawn
    /\ pc \in {"load", "encode"} => call.client # "argv" /\ Known(call)
    /\ pc \in {"spawn", "main", "decode"} =>
          /\ call.client # "argv" =>
                /\ Known(call)
                /\ argv = Encoded(call)
          /\ call.client = "c" => Len(call.signature) <= CLIENT_LIMIT
          /\ call.client = "argv" => argv = call.argv
    /\ pc \in {"main", "decode"} => call.lib # "missing"
    /\ pc = "decode" =>
          /\ Len(argv) = 4
          /\ Len(argv[2]) <= 2 * MAIN_LIMIT
    /\ pc = "validate" /\ call.client # "argv" => Passable(call, call.category)
    /\ pc # "done" => verdict = <<>>

\* The inductive invariant: what was checked and encoded on the way to
\* ckb_auth_validate, and that every answer of a call that goes all the way is
\* the outcome.
IndInv ==
    /\ TypeOK
    /\ OnTheWay
    /\ ArgumentsIntact
    /\ SuccessIsValidated
    /\ ValidatedSucceeds
    /\ SameCodeBothWays

-----------------------------------------------------------------------------
\* What docs/auth.md says of spawn: "This category shares same arguments and
\* behavior to dynamic library".  Of the C client, whose two ways depend on
\* nothing that is not in the repository.
SpawnLikeLibrary ==
    call.client = "c" /\ call.lib = "ok" =>
        \A r, s \in returned : r[2] \in Success <=> s[2] \in Success
=============================================================================
