------------------------------ MODULE CborItem ------------------------------
(***************************************************************************)
(* The reference for the decoder: where the item at offset i of a buffer   *)
(* ends, by the grammar of RFC 7049 (section 2 and appendix C), -1 where   *)
(* no well-formed item begins.  Tags are part of the item they precede.    *)
(* Strings in chunks and containers whose number of items is written in    *)
(* eight bytes, which nanocbor refuses to read, are left out.              *)
(***************************************************************************)
EXTENDS Nanocbor

HeadLen(d, i) ==
  LET info == Byte(d, i) % 32
  IN  IF i >= Len(d) \/ info > SIZE_LONG THEN -1
      ELSE LET n == IF info < SIZE_BYTE THEN 1 ELSE 1 + NumberLen(info)
           IN  IF i + n <= Len(d) THEN n ELSE -1

HeadValue(d, i) ==
  LET info == Byte(d, i) % 32
  IN  IF info < SIZE_BYTE THEN info
      ELSE NumberAt(d, i + 1, NumberLen(info))

\* The end of the n items from i on, of those up to a break and the break
\* itself when n is -1.
ItemsEnd(d) ==
  LET end[i \in Int, n \in Int] ==
        IF n = 0 \/ i < 0 THEN i
        ELSE IF i >= Len(d) \/ n > Len(d) THEN -1
        ELSE IF n = -1 /\ Byte(d, i) = BREAK THEN i + 1
        ELSE LET major == Byte(d, i) \div 32
                 open == Byte(d, i) \in {ARR * 32 + 31, MAP * 32 + 31}
                 head == IF open THEN 1 ELSE HeadLen(d, i)
                 value == HeadValue(d, i)
                 content == CASE head < 0 \/ (head = 9 /\ major \in {ARR, MAP}) -> -1
                              [] open -> end[i + 1, -1]
                              [] major \in {UINT, NINT, FLOAT} -> i + head
                              [] major \in {BSTR, TSTR} ->
                                   IF value \in 0 .. Len(d) - i - head
                                   THEN i + head + value ELSE -1
                              [] major = ARR -> end[i + head, value]
                              [] major = MAP -> end[i + head, IF value > Len(d) THEN value
                                                              ELSE 2 * value]
                              [] major = TAG -> end[i + head, 1]
             IN  end[content, IF n = -1 THEN -1 ELSE n - 1]
  IN  end

ItemEnd(d, i) == ItemsEnd(d)[i, 1]
=============================================================================
