------------------------------- MODULE Common -------------------------------
(***************************************************************************)
(* The sizes and result codes the parts of ckb-auth share.                 *)
(***************************************************************************)
EXTENDS Integers

Byte == 0 .. 255

BLAKE160_SIZE      == 20
BLAKE2B_BLOCK_SIZE == 32

-----------------------------------------------------------------------------
\* What verify_multisig returns; serialising a recovered key cannot fail.
ERROR_INVALID_RESERVE_FIELD   == -41
ERROR_INVALID_PUBKEYS_CNT     == -42
ERROR_INVALID_THRESHOLD       == -43
ERROR_INVALID_REQUIRE_FIRST_N == -44
ERROR_MULTSIG_SCRIPT_HASH     == -51
ERROR_VERIFICATION            == -52
ERROR_WITNESS_SIZE            == -22
ERROR_SECP_PARSE_SIGNATURE    == -14
ERROR_SECP_RECOVER_PUBKEY     == -11
ERROR_LOADING_DATA            == -101
ERROR_ILLEGAL_CALLBACK        == -102

Errors ==
    { ERROR_INVALID_RESERVE_FIELD, ERROR_INVALID_PUBKEYS_CNT,
      ERROR_INVALID_THRESHOLD, ERROR_INVALID_REQUIRE_FIRST_N,
      ERROR_MULTSIG_SCRIPT_HASH, ERROR_VERIFICATION, ERROR_WITNESS_SIZE,
      ERROR_SECP_PARSE_SIGNATURE, ERROR_SECP_RECOVER_PUBKEY,
      ERROR_LOADING_DATA, ERROR_ILLEGAL_CALLBACK }

\* What ckb_auth_validate returns besides.
ERROR_NOT_IMPLEMENTED    == 100
ERROR_MISMATCHED         == 101
ERROR_INVALID_ARG        == 102
ERROR_WRONG_STATE        == 103
ERROR_SPAWN_INVALID_SIG  == 107
ERROR_SCHNORR            == 110

ValidateErrors ==
    Errors \cup { ERROR_NOT_IMPLEMENTED, ERROR_MISMATCHED, ERROR_INVALID_ARG,
                  ERROR_WRONG_STATE, ERROR_SPAWN_INVALID_SIG, ERROR_SCHNORR }

\* What main returns besides.
ERROR_ARGC                       == -1
ERROR_SPAWN_INVALID_LENGTH       == 104
ERROR_SPAWN_SIGN_TOO_LONG        == 105
ERROR_SPAWN_INVALID_ALGORITHM_ID == 106
ERROR_SPAWN_INVALID_MSG          == 108
ERROR_SPAWN_INVALID_PUBKEY       == 109
=============================================================================
