--------------------------------- MODULE Hex ---------------------------------
(***************************************************************************)
(* c/ckb_hex.h: bytes as text and back.  A text is a sequence of           *)
(* characters, without the NUL at its end.                                 *)
(***************************************************************************)
EXTENDS Common, Sequences

Lower == <<"0", "1", "2", "3", "4", "5", "6", "7",
           "8", "9", "a", "b", "c", "d", "e", "f">>
Upper == <<"0", "1", "2", "3", "4", "5", "6", "7",
           "8", "9", "A", "B", "C", "D", "E", "F">>

Bytes == Seq(Byte)

\* The texts of a byte sequence; ckb_bin2hex writes the Lower one.
Text(digits, bin) ==
    [ k \in 1 .. 2 * Len(bin) |->
        LET byte == bin[(k + 1) \div 2]
        IN  digits[1 + (IF k % 2 = 1 THEN byte \div 16 ELSE byte % 16)] ]

ckb_bin2hex(bin) == Text(Lower, bin)

\* Mutant: only lower case digits are known.
getbinLower(x, v) == x = Lower[v + 1]

\* _ckb_getbin(x, &v) succeeds.
getbin(x, v) == x = Lower[v + 1] \/ x = Upper[v + 1]

\* ckb_hex2bin succeeds on a text for a buffer it takes to have bin_len bytes.
Decodes(hex, bin_len) ==
    /\ Len(hex) <= 2 * bin_len
    /\ Len(hex) % 2 = 0
    /\ \A k \in 1 .. Len(hex) : \E v \in 0 .. 15 : getbin(hex[k], v)

Value(x) == CHOOSE v \in 0 .. 15 : getbin(x, v)

\* Mutant: the low digit is taken for the high one.
ckb_hex2binSwapped(hex) ==
    [ k \in 1 .. Len(hex) \div 2 |-> Value(hex[2 * k - 1]) + 16 * Value(hex[2 * k]) ]

\* What ckb_hex2bin then writes.
ckb_hex2bin(hex) ==
    [ k \in 1 .. Len(hex) \div 2 |-> 16 * Value(hex[2 * k - 1]) + Value(hex[2 * k]) ]
=============================================================================
