--------------------------- MODULE MCSolanaLayout ---------------------------
(***************************************************************************)
(* SolanaLayout for messages of no to eleven keys (the most 510 bytes      *)
(* hold), their faults, and numbers of keys of one to three bytes.         *)
(***************************************************************************)
EXTENDS SolanaLayout

Padded(b) == [k \in 1 .. 3 |-> IF k <= Len(b) THEN b[k] ELSE 7]

\* A message with n keys, r bytes of instructions, m signers of which the
\* k-th is the key (none when k is m).
Message(n, r, m, k) ==
    LET v == Len(ShortVec(n))
    IN  [size |-> WRAPPED, declared |-> BEFORE + HEADER + v + PUBKEY * n + BLOCKHASH + r,
         num_signers |-> m, varint |-> Padded(ShortVec(n)),
         blockhashes |-> {HEADER + v + PUBKEY * n},
         keys |-> IF k < m THEN {HEADER + v + PUBKEY * k} ELSE {}, signed |-> TRUE]

Messages ==
    { Message(n, r, m, k) : n \in {0, 1, 2, 3, 11}, r \in {0, 1, 20},
                            m \in 0 .. 4, k \in 0 .. 4 }

Faults(t) ==
    { [t EXCEPT !.signed = FALSE], [t EXCEPT !.size = 511],
      [t EXCEPT !.blockhashes = {}], [t EXCEPT !.blockhashes = {a - 1 : a \in @}],
      [t EXCEPT !.num_signers = 255], [t EXCEPT !.varint = Padded(<<128, 0>>)],
      [t EXCEPT !.varint = Padded(<<130, 128, 0>>)] }
    \cup { [t EXCEPT !.declared = d] : d \in {0, 95, 96, 131, 132, 510, 511, 65535} }

\* Numbers of keys at every width, declared lengths that wrap round among them.
Counts ==
    { [Message(0, 20, 1, 0) EXCEPT !.varint = v, !.declared = d] :
        v \in { Padded(ShortVec(n)) : n \in {0, 1, 10, 127, 128, 129, 16383, 16384, 65535} }
              \cup {<<128, 128, 4>>, <<255, 255, 255>>, <<255, 255, 3>>},
        d \in {0, 95, 510} }

MCSignatures ==
    { t \in Messages \cup UNION { Faults(u) : u \in Messages } \cup Counts : IsSignature(t) }
=============================================================================
