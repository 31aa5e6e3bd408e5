--------------------------- MODULE MCCardanoData ----------------------------
(***************************************************************************)
(* get_cardano_data on the bytes of transactions: wallets' transactions    *)
(* with several bodies, and variations of one of them, cut off anywhere,   *)
(* with any byte of its structure replaced, with longer heads, deeper      *)
(* nesting, tags, other tails.                                             *)
(***************************************************************************)
EXTENDS CardanoData

Fill(b, n) == [k \in 1 .. n |-> b]

Hash == Fill(17, 32)
Key == Fill(34, 32)
Sig == Fill(51, 64)

HashStr == <<88, 32>> \o Hash
FirstInput == <<129, 130>> \o HashStr \o <<0>>

\* Entries of a body beside its inputs: a fee, a list of outputs, nested arrays.
Fee == <<2, 25, 3, 232>>
Outputs == <<1, 129, 130, 88, 4, 9, 9, 9, 9, 26, 0, 15, 66, 64>>
NestedEntry(n) == <<3>> \o Fill(129, n) \o <<0>>

\* The bodies a wallet writes, with the offset of the hash in them.
WalletBodies ==
  { [bytes |-> <<161, 0>> \o FirstInput, hash |-> 6],
    [bytes |-> <<163, 0>> \o FirstInput \o Outputs \o Fee, hash |-> 6],
    [bytes |-> <<162>> \o Fee \o <<0>> \o FirstInput, hash |-> 10],
    [bytes |-> <<191, 0>> \o FirstInput \o Fee \o <<255>>, hash |-> 6],
    [bytes |-> <<161, 0, 159, 159>> \o HashStr \o <<0, 255, 255>>, hash |-> 6],
    [bytes |-> <<161, 0, 130, 130>> \o HashStr \o <<0, 130>> \o HashStr \o <<1>>, hash |-> 6],
    [bytes |-> <<162, 0>> \o FirstInput \o NestedEntry(8), hash |-> 6],
    [bytes |-> <<162>> \o NestedEntry(8) \o <<0>> \o FirstInput, hash |-> 16] }

Witness == <<161, 0, 129, 130, 88, 32>> \o Key \o <<88, 64>> \o Sig

Transaction(body, tail) == <<131>> \o body \o Witness \o tail

Wallet(b) ==
  LET len == Len(b.bytes)
  IN  [bytes |-> Transaction(b.bytes, <<246>>), wallet |-> TRUE,
       parts |-> [ckb_sign_msg |-> Slice(1 + b.hash, 32),
                  public_key |-> Slice(1 + len + 6, 32),
                  signature |-> Slice(1 + len + 40, 64),
                  sign_message |-> Slice(1, len)]]

Other(bytes) == [bytes |-> bytes, wallet |-> FALSE, parts |-> {}]

Simple == Transaction(<<161, 0>> \o FirstInput, <<246>>)

Cut == { SubSeq(Simple, 1, n) : n \in 0 .. Len(Simple) - 1 }

\* The offsets of the heads of Simple, and what is written over them.
Heads == (1 .. 7) \cup {40} \cup (41 .. 46) \cup {79, 80, Len(Simple)}

Replaced ==
  { [Simple EXCEPT ![i] = b] : i \in Heads,
      b \in {0, 1, 24, 31, 32, 63, 64, 65, 88, 91, 96, 128, 129, 159, 161, 191, 196, 246, 255} }

\* Bodies that no wallet writes.
OddBodies ==
  { <<162, 0>> \o FirstInput \o NestedEntry(n) : n \in 9 .. 11 }
  \cup { <<162>> \o NestedEntry(n) \o <<0>> \o FirstInput : n \in 9 .. 11 }
  \cup { <<162, 0>> \o FirstInput \o <<3, 193, 0>>, <<162, 3, 193, 0, 0>> \o FirstInput,
         <<161, 0, 129, 130>> \o HashStr \o <<1>>, <<161, 0, 129, 129>> \o HashStr,
         <<161, 0, 129, 130, 88, 31>> \o Fill(17, 31) \o <<0>>,
         <<161, 0, 129, 130, 89, 0, 32>> \o Hash \o <<0>>,
         <<161, 0, 129, 130, 91, 0, 0, 0, 0, 0, 0, 0, 32>> \o Hash \o <<0>>,
         <<161, 0, 129, 130, 91, 255, 255, 255, 255, 255, 255, 255, 255>> \o Hash \o <<0>>,
         <<161, 24, 0>> \o FirstInput, <<161, 26, 128, 0, 0, 0>> \o FirstInput,
         <<186, 128, 0, 0, 0, 0>> \o FirstInput, <<186, 0, 0, 0, 1, 0>> \o FirstInput,
         <<161, 0, 128>>, <<191, 0, 128, 159>> \o HashStr \o <<0, 255, 0, 255>>,
         <<161, 32>> \o FirstInput, <<160>>, <<128>> }

\* Witness sets that no wallet writes: another entry first, longer heads, the
\* key and the signature the other way round, one of them missing.
OddWitnesses ==
  { <<162, 1, 128, 0, 129, 130, 88, 32>> \o Key \o <<88, 64>> \o Sig,
    <<191, 0, 159, 159, 88, 32>> \o Key \o <<88, 64>> \o Sig \o <<255, 255, 255>>,
    <<161, 0, 129, 130, 89, 0, 32>> \o Key \o <<89, 0, 64>> \o Sig,
    <<161, 0, 129, 130, 88, 64>> \o Sig \o <<88, 32>> \o Key,
    <<161, 0, 129, 129, 88, 32>> \o Key, <<161, 0, 128>>, <<161, 1, 128>>, <<160>> }

\* A string whose length wraps to no bytes at all.
Endless == <<131, 191, 0>> \o FirstInput \o <<91, 255, 255, 255, 255, 255, 255, 255, 247>>

MCSignatures ==
  { Wallet(b) : b \in WalletBodies }
  \cup { Other(bytes) : bytes \in Cut \cup Replaced \cup {Endless} }
  \cup { Other(Transaction(b, tail)) : b \in OddBodies,
                                       tail \in {<<>>, <<246>>, <<161, 1, 25, 0, 1>>} }
  \cup { Other(<<131, 161, 0>> \o FirstInput \o w \o <<246>>) : w \in OddWitnesses }
=============================================================================
