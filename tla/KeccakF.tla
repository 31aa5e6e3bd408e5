------------------------------- MODULE KeccakF -------------------------------
(***************************************************************************)
(* The rounds of sha3_permutation of c/ckb_keccak256.h: theta, rho, pi,    *)
(* chi and iota over 25 lanes of 64 bits, with the tables of constants[].  *)
(*                                                                         *)
(* A lane is the set of its one bits, so that exclusive or is symmetric    *)
(* difference; lane A[x + 5 * y] stands at column x and row y.  The        *)
(* reference is the definition of Keccak by columns and rows, which uses   *)
(* no table.                                                               *)
(***************************************************************************)
EXTENDS Integers, Sequences, FiniteSets

Bits == 0 .. 63
Lanes == 0 .. 24
Rounds == 24

Xor(a, b) == (a \ b) \cup (b \ a)
And(a, b) == a \cap b
Not(a) == Bits \ a

\* The bit n >= 64 - k of the right shift and n < 64 - k of the left shift
\* never meet.
ROTL64(a, k) == { (n + k) % 64 : n \in a }

-----------------------------------------------------------------------------
\* constants[], by kind
RoundInfo ==
    << 1, 26, 94, 112, 31, 33, 121, 85, 14, 12, 53, 38, 63, 79, 93, 83, 82, 72, 22,
       102, 121, 88, 33, 116 >>

PiTransform ==
    << 1, 6, 9, 22, 14, 20, 2, 12, 13, 19, 23, 15, 4, 24, 21, 8, 16, 5, 3, 18, 17, 11,
       7, 10 >>

RhoTransforms ==
    << 1, 62, 28, 27, 36, 44, 6, 55, 20, 3, 10, 43, 25, 39, 41, 45, 15, 21, 8, 18, 2,
       61, 56, 14 >>

\* Bit j of the round information is bit 2^j - 1 of the constant.
get_round_constant(round) ==
    { 2 ^ j - 1 : j \in { j \in 0 .. 6 : (RoundInfo[round + 1] \div 2 ^ j) % 2 = 1 } }

-----------------------------------------------------------------------------
keccak_theta(A) ==
    LET C == [i \in 0 .. 4 |-> Xor(Xor(Xor(Xor(A[i], A[i + 5]), A[i + 10]), A[i + 15]), A[i + 20])]
        D == [i \in 0 .. 4 |-> Xor(ROTL64(C[(i + 1) % 5], 1), C[(i + 4) % 5])]
    IN  [l \in Lanes |-> Xor(A[l], D[l % 5])]

rho(A) == [l \in Lanes |-> IF l = 0 THEN A[0] ELSE ROTL64(A[l], RhoTransforms[l])]

\* Along the table every lane takes the next one's value; lane 10, the last,
\* takes the old value of lane 1, the first.
keccak_pi(A) ==
    LET moved[i \in 0 .. 23] ==
            IF i = 0 THEN A
            ELSE LET B == moved[i - 1]
                 IN  [B EXCEPT ![PiTransform[i]] = B[PiTransform[i + 1]]]
    IN  [moved[23] EXCEPT ![10] = A[1]]

\* A[l] ^= ~a & b
AndNotInto(A, l, a, b) == [A EXCEPT ![l] = Xor(@, And(Not(a), b))]

\* Mutant: the row's first lane is read back after it was written.
ChiRowUnsaved(A, i) ==
    LET B == AndNotInto(A, i, A[i + 1], A[i + 2])
        C == AndNotInto(B, i + 1, B[i + 2], B[i + 3])
        D == AndNotInto(C, i + 2, C[i + 3], C[i + 4])
        E == AndNotInto(D, i + 3, D[i + 4], D[i])
    IN  AndNotInto(E, i + 4, E[i], A[i + 1])

\* One row in place; its first two lanes are saved before they are written.
ChiRow(A, i) ==
    LET B == AndNotInto(A, i, A[i + 1], A[i + 2])
        C == AndNotInto(B, i + 1, B[i + 2], B[i + 3])
        D == AndNotInto(C, i + 2, C[i + 3], C[i + 4])
        E == AndNotInto(D, i + 3, D[i + 4], A[i])
    IN  AndNotInto(E, i + 4, A[i], A[i + 1])

keccak_chi(A) == ChiRow(ChiRow(ChiRow(ChiRow(ChiRow(A, 0), 5), 10), 15), 20)

iota(A, round) == [A EXCEPT ![0] = Xor(@, get_round_constant(round))]

sha3_round(A, round) == iota(keccak_chi(keccak_pi(rho(keccak_theta(A)))), round)

-----------------------------------------------------------------------------
\* Keccak-f[1600] by columns, rows and bits
Lane(x, y) == (x % 5) + 5 * y

\* The parity of column x.
Parity(A, x) ==
    { z \in Bits : Cardinality({ y \in 0 .. 4 : z \in A[Lane(x, y)] }) % 2 = 1 }

\* Rotation offsets: the triangular numbers along the walk (1, 0), (0, 2), ...
\* of (x, y) to (y, 2x + 3y).
Walk[t \in 0 .. 23] ==
    IF t = 0 THEN <<1, 0>>
    ELSE LET w == Walk[t - 1] IN <<w[2], (2 * w[1] + 3 * w[2]) % 5>>

Offset == [l \in Lanes |->
    IF l = 0 THEN 0
    ELSE LET t == CHOOSE t \in 0 .. 23 : Walk[t] = <<l % 5, l \div 5>>
         IN  (((t + 1) * (t + 2)) \div 2) % 64]

\* The round constants' shift register, x^8 + x^6 + x^5 + x^4 + 1.
Register[t \in 0 .. 7 * Rounds] ==
    IF t = 0 THEN {0}
    ELSE LET r == { n + 1 : n \in Register[t - 1] }
         IN  IF 8 \in r THEN Xor(r \ {8}, {0, 4, 5, 6}) ELSE r

Constant == [n \in 0 .. Rounds - 1 |->
    { 2 ^ j - 1 : j \in { j \in 0 .. 6 : 0 \in Register[j + 7 * n] } }]

\* One round, each step from the coordinates of its result.
KeccakRound(A, n) ==
    LET mixed == [l \in Lanes |->
                    Xor(A[l], Xor(Parity(A, (l % 5) + 4), ROTL64(Parity(A, (l % 5) + 1), 1)))]
        turned(x, y) == ROTL64(mixed[Lane(x, y)], Offset[Lane(x, y)])
        moved == [l \in Lanes |-> LET x == l % 5
                                      y == l \div 5
                                  IN  turned((x + 3 * y) % 5, x)]
        bent == [l \in Lanes |->
                   LET a == moved[l]
                       b == moved[Lane(l + 1, l \div 5)]
                       c == moved[Lane(l + 2, l \div 5)]
                   IN  { z \in Bits : (z \in a) # (z \notin b /\ z \in c) }]
    IN  [bent EXCEPT ![0] = Xor(@, Constant[n])]
=============================================================================
