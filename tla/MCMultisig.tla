----------------------------- MODULE MCMultisig -----------------------------
(***************************************************************************)
(* A small instance of Multisig: up to three listed positions over three   *)
(* keys (lists with repeated keys included), every choice of signatures.   *)
(***************************************************************************)
EXTENDS Multisig, Sequences, TLC

CONSTANTS k1, k2, k3, m1, m2

MCKey == {k1, k2, k3}
MCMessage == {m1, m2}

\* Key lists up to renaming of the keys.
KeyLists ==
    { <<k1>>, <<k1, k1>>, <<k1, k2>>, <<k1, k1, k1>>, <<k1, k1, k2>>,
      <<k1, k2, k1>>, <<k2, k1, k1>>, <<k1, k2, k3>> }

\* Signatures by every key, by a key over another message, and the faulty
\* ones; with three signatures one kind of fault stands for all of them.
Sigs(m) ==
    { [form |-> "signed", by |-> k, over |-> m1] : k \in MCKey }
    \cup { [form |-> "signed", by |-> k1, over |-> m2] }
    \cup { [form |-> form, by |-> k1, over |-> m1] :
              form \in IF m = 3 THEN {"unparsable"}
                       ELSE {"unparsable", "unrecoverable", "bad_recid"} }

MCScript(s, r, m, keys) ==
    [ reserved_field |-> s, require_first_n |-> r, threshold |-> m,
      pubkeys_cnt |-> Len(keys), pubkeys |-> keys ]

Call(script, sigs, len, hash, deps) ==
    script @@ [ sigs |-> sigs, len |-> len, message |-> m1, hash |-> hash,
                secp_data |-> deps ]

LockLen(script) == 4 + 20 * script.pubkeys_cnt + 65 * script.threshold

\* Flags that pass, with every choice of signatures.
Signings(script) ==
    { Call(script, sigs, LockLen(script), script, TRUE) :
         sigs \in [1 .. script.threshold -> Sigs(script.threshold)] }

GoodCalls ==
    UNION { UNION { Signings(MCScript(0, r, m, keys)) : r \in 0 .. m } :
               <<m, keys>> \in {p \in (1 .. 3) \X KeyLists : p[1] <= Len(p[2])} }

\* Every flag, length, hash and cell dep fault, signed by the listed keys.
\* Lengths below 4 bytes pair with any flags: those are read out of bounds.
BadCalls ==
    UNION { LET script == MCScript(s, r, m, keys)
                sigs == [j \in 1 .. m |->
                           [form |-> "signed", over |-> m1,
                            by |-> keys[IF j <= Len(keys) THEN j ELSE 1]]]
                hashes == { script, MCScript(0, 1, m, keys) }
            IN  { Call(script, sigs, len, hash, deps) :
                     len \in {0, 3, LockLen(script) - 1, LockLen(script),
                              LockLen(script) + 1} \cap Nat,
                     hash \in hashes, deps \in BOOLEAN }
          : s \in {0, 1}, r \in 0 .. 3, m \in 0 .. 3,
            keys \in {<<k1>>, <<k1, k2>>} }
    \cup { Call([script EXCEPT !.pubkeys_cnt = 0, !.pubkeys = <<>>],
                <<>>, len, script, TRUE) :
              script \in {MCScript(0, 0, 0, <<k1>>)}, len \in {0, 4, 24} }

MCLocks ==
    GoodCalls \cup BadCalls
=============================================================================
