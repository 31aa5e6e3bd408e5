------------------------------ MODULE MCSighash ------------------------------
(***************************************************************************)
(* Sighash with the buffer sizes of the code; U32 is scaled down to what   *)
(* TLC can count with and stays beyond every size in use.                  *)
(***************************************************************************)
EXTENDS Sighash

\* Around the header, the buffer and one and two batches more.
Sizes == {0, 19, 20, 85, 32767, 32768, 32769, 65536, 65537, 98305}

LockLengths == {0, 65, 32748, 32749, 65516, U32 - 21, U32 - 20, U32 - 1}

Tx(s, w, n, g, l, args, ht, wa) ==
    [script |-> s, witnesses |-> w, inputs |-> n, group |-> g, lock_length |-> l,
     args_len |-> args, hash_type |-> ht, witness_args |-> wa]

\* The first witness alone, with every size and lock length.
FirstWitness ==
    { Tx(s, w, 1, <<0>>, l, 55, 1, FALSE) :
        s \in {"c", "rust"}, w \in {<<>>} \cup {<<a>> : a \in Sizes}, l \in LockLengths }

\* The same as a WitnessArgs, with the arguments right and wrong.
Readable(t) ==
    LET size == t.witnesses[1] IN size = 16 \/ size >= LOCK + t.lock_length

Arguments ==
    { t \in { Tx(s, <<a>>, 1, <<0>>, l, args, ht, TRUE) : s \in {"c", "rust"}, a \in Sizes,
              l \in {0, 65, 32748}, args \in {54, 55}, ht \in {2, 3} } : Readable(t) }

\* Groups within two and three inputs, missing and extra witnesses.
OtherSizes == {0, 85, 32768, 65537}

Groups == {<<0>>, <<1>>, <<0, 1>>, <<0, 2>>, <<1, 2>>}

OtherWitnesses ==
    { Tx(s, [k \in 1 .. Len(w) |-> IF k = g[1] + 1 THEN 85 ELSE w[k]], n, g, 65, 55, 1, TRUE) :
        s \in {"c", "rust"}, n \in {3}, g \in Groups,
        w \in {v \in UNION {[1 .. k -> OtherSizes] : k \in 2 .. 5} : Len(v) < 5 \/ v[3] = 85} }

MCTxs == { t \in FirstWitness \cup Arguments \cup OtherWitnesses : IsTx(t) }
==============================================================================
