------------------------------- MODULE MCAuth -------------------------------
(***************************************************************************)
(* A small instance of Auth: what the wallets sign, and every way to get   *)
(* one part of a call wrong, each presented under two ids.                 *)
(***************************************************************************)
EXTENDS Auth

CONSTANTS k1, k2, m1, m2

MCKey == {k1, k2}
MCMessage == {m1, m2}
MCLocks == {}

OkDep      == [field |-> "ok", match |-> TRUE, data |-> "ok"]
OtherDep   == [field |-> "ok", match |-> FALSE, data |-> "ok"]
MissingDep == [field |-> "missing", match |-> FALSE, data |-> "ok"]
BrokenDep  == [field |-> "error", match |-> FALSE, data |-> "ok"]
Deps == {OkDep, OtherDep, MissingDep, BrokenDep,
         [OkDep EXCEPT !.data = "short"], [OkDep EXCEPT !.data = "error"]}

DepLists ==
    { <<>> } \cup { <<d>> : d \in Deps } \cup { <<d, e>> : d, e \in Deps }
    \cup { <<MissingDep, OtherDep, OkDep>>,
           <<MissingDep, OtherDep, MissingDep, OkDep>> }

LockHash(x) == KeyHash("blake160", "lock", x)
Input(status, hash) == [status |-> status, hash |-> hash]
Strange == Input("ok", LockHash(k2))

Request(alg, s, size, hash) ==
    [ alg |-> alg, signature |-> s, signature_size |-> size, null |-> "none",
      message |-> m1, message_size |-> 32, pubkey_hash |-> hash,
      pubkey_hash_size |-> 20, deps |-> <<OtherDep, OkDep>>,
      inputs |-> <<Strange>> ]

\* Bitcoin-family and other recoverable signatures by k1 over message m.
Ecdsa(scheme, byte, parity, parses, over) ==
    [ scheme |-> scheme, byte |-> byte, parity |-> parity, parses |-> parses,
      by |-> k1, over |-> over ]

RecidCalls ==
    { Request(alg, Ecdsa("recid", byte, 1, parses, WalletDigest(alg, m)), 65, hash) :
         alg \in RecidFamily, byte \in {0, 1, 3, 4, 28}, parses \in BOOLEAN,
         m \in MCMessage,
         hash \in { WalletHash(a, k, TRUE) : a \in RecidFamily, k \in MCKey } }

HeaderCalls ==
    { Request(alg, Ecdsa("header", byte, 1, parses, WalletDigest(alg, m)), 65, hash) :
         alg \in HeaderFamily, byte \in {0, 24, 27, 28, 32, 36, 255},
         parses \in BOOLEAN, m \in MCMessage,
         hash \in { WalletHash(AuthAlgorithmIdBitcoin, k, c) :
                       k \in MCKey, c \in BOOLEAN } }

SchnorrCalls ==
    { Request(AuthAlgorithmIdSchnorr,
              [scheme |-> "schnorr", on_curve |-> on, pk |-> k, by |-> k1,
               over |-> WalletDigest(AuthAlgorithmIdSchnorr, m)],
              96, KeyHash("blake160", "xonly", h)) :
         on \in BOOLEAN, k \in MCKey, h \in MCKey, m \in MCMessage }

MoneroCalls ==
    { Request(AuthAlgorithmIdMonero,
              [scheme |-> "monero", mode |-> mode, spend |-> k, view |-> v,
               by |-> k1,
               over |-> MoneroDigest([mode |-> mode, spend |-> k, view |-> k2], m)],
              129, KeyHash("blake160", "monero", [mode |-> 0, spend |-> h, view |-> k2])) :
         mode \in {0, 1}, k \in MCKey, v \in MCKey, h \in MCKey, m \in MCMessage }

CardanoCalls ==
    { Request(AuthAlgorithmIdCardano,
              [scheme |-> "cardano", parsed |-> parsed, ckb_sign_msg |-> n,
               pk |-> k, by |-> k1, over |-> CardanoDigest(m)],
              300, KeyHash("blake160", "ed25519", h)) :
         parsed \in BOOLEAN, n \in MCMessage, m \in MCMessage,
         k \in MCKey, h \in MCKey }

SolanaCalls ==
    { Request(AuthAlgorithmIdSolana,
              [scheme |-> "solana", len |-> len, laid_out |-> laid, slots |-> slots,
               blockhash |-> n, pk |-> k, by |-> k1, over |-> SolanaDigest(<<k2, k1>>, m)],
              512, KeyHash("blake160", "ed25519", h)) :
         len \in {200, 510, 511}, laid \in BOOLEAN,
         slots \in { <<>>, <<k2>>, <<k2, k1>> },
         n \in MCMessage, m \in MCMessage, k \in MCKey, h \in MCKey }

\* One of one, by k: well signed, signed over another message, or with a bad
\* recovery id.
MultisigCalls ==
    { Request(AuthAlgorithmIdCkbMultisig,
              [scheme |-> "multisig", reserved_field |-> 0, require_first_n |-> 0,
               threshold |-> 1, pubkeys_cnt |-> 1, pubkeys |-> <<k1>>,
               sigs |-> << [form |-> form, by |-> k1, over |-> m] >>],
              size,
              KeyHash("blake160", form2,
                      [reserved_field |-> 0, require_first_n |-> 0, threshold |-> 1,
                       pubkeys_cnt |-> 1, pubkeys |-> <<k>>])) :
         form \in {"signed", "bad_recid"}, m \in MCMessage, k \in MCKey,
         form2 \in {"script", "monero"}, size \in {88, 89} }

OwnerCalls ==
    { [ Request(AuthAlgorithmIdOwnerLock,
                Ecdsa("recid", 1, 1, TRUE, WalletDigest(AuthAlgorithmIdCkb, m1)),
                65, LockHash(k1)) EXCEPT !.inputs = inputs ] :
         inputs \in { <<>>, <<Strange>>, <<Input("ok", LockHash(k1))>>,
                      <<Strange, Input("ok", LockHash(k1))>>,
                      <<Strange, Input("error", LockHash(k1))>>,
                      <<Input("error", LockHash(k2)), Input("ok", LockHash(k1))>> } }

\* A genuine call of every kind ...
GoodCalls ==
    { r \in SchnorrCalls \cup MoneroCalls \cup CardanoCalls \cup SolanaCalls
            \cup MultisigCalls \cup OwnerCalls \cup RecidCalls \cup HeaderCalls :
         Genuine(r) }

\* ... with one of its other arguments wrong, or other cell deps, or under
\* an id that is not implemented.
Bent(r) ==
    { [r EXCEPT !.null = n] : n \in {"signature", "message"} }
    \cup { [r EXCEPT !.message_size = n] : n \in {0, 31, 33} }
    \cup { [r EXCEPT !.pubkey_hash_size = n] : n \in {0, 19, 21} }
    \cup { [r EXCEPT !.signature_size = @ + n] : n \in {-1, 1} }
    \cup { [r EXCEPT !.deps = deps] : deps \in DepLists }
    \cup { [r EXCEPT !.alg = n] : n \in {8, 9, 14, 255} }

\* One call for each id, to be bent.
Samples ==
    { CHOOSE r \in GoodCalls : r.alg = alg :
         alg \in {0, 1, 4, 6, 7, 11, 12, 13, 252} }

MCRequests ==
    RecidCalls \cup HeaderCalls \cup SchnorrCalls \cup MoneroCalls
    \cup CardanoCalls \cup SolanaCalls \cup MultisigCalls \cup OwnerCalls
    \cup UNION { Bent(r) : r \in Samples }
=============================================================================
