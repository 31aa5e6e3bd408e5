--------------------------- MODULE NanocborProofs ---------------------------
(***************************************************************************)
(* Proofs about the decoder of Nanocbor and the walk over it, for any      *)
(* buffers of bytes, any keys and any number of levels; about              *)
(* get_cardano_data, which calls the decoder, for any signature; and about *)
(* the encoder, for buffers of any size and any calls.                     *)
(***************************************************************************)
EXTENDS NanocborWalk, NanocborEncode, CardanoData, TLAPS, SequenceTheorems, WellFoundedInduction

\* Sequences of bytes.
Buffers == Seq(0 .. 255)

USE DEF Buffers

\* A buffer is read at the offsets below its length.
LEMMA ByteIs ==
  ASSUME NEW d \in Buffers, NEW i \in 0 .. Len(d) - 1
  PROVE  Byte(d, i) \in 0 .. 255 /\ Byte(d, i) \in Int
<1>1. i + 1 \in 1 .. Len(d)
  BY LenProperties
<1>2. d[i + 1] \in 0 .. 255
  BY <1>1, ElementOfSeq
<1>3. \A b \in 0 .. 255 : b \in Int
  OBVIOUS
<1>4. d[i + 1] \in Int
  BY <1>2, <1>3
<1>5. QED
  BY <1>2, <1>4 DEF Byte

\* What an iterator is made of.
LEMMA IteratorIs ==
  ASSUME NEW d \in Buffers, NEW v \in Iterators(d)
  PROVE  /\ v.cur \in Nat /\ v.end = Len(d) /\ v.end \in Nat
         /\ v.remaining \in Int /\ v.flags \in FLAGS
         /\ v = [cur |-> v.cur, end |-> v.end, remaining |-> v.remaining, flags |-> v.flags]
<1>1. Len(d) \in Nat
  BY LenProperties
<1>2. QED
  BY <1>1 DEF Iterators

\* Moving an iterator on leaves it one.
LEMMA Moves ==
  ASSUME NEW d \in Buffers, NEW v \in Iterators(d), NEW n \in Int, v.cur + n >= 0
  PROVE  /\ Advance(v, n) \in Iterators(d)
         /\ Advance(v, n).cur = v.cur + n
         /\ [v EXCEPT !.cur = @ + n] \in Iterators(d)
         /\ [v EXCEPT !.cur = @ + n].cur = v.cur + n
<1>1. v.cur \in Nat /\ v.remaining \in Int
  BY IteratorIs
<1>2. v.cur + n \in Nat
  BY <1>1
<1>3. HUGE \in Int
  BY DEF HUGE, BIG
<1>4. (IF v.remaining = 0 THEN HUGE ELSE v.remaining - 1) \in Int
  BY <1>1, <1>3
<1>5. QED
  BY <1>2, <1>4 DEF Advance, Iterators

\* nanocbor_at_end is false only in front of a byte.
LEMMA NotAtEnd ==
  ASSUME NEW d \in Buffers, NEW v \in Iterators(d), ~at_end(d, v)
  PROVE  v.cur < Len(d) /\ ~OverEnd(v)
BY IteratorIs DEF at_end, OverEnd

\* nanocbor_get_type tells the major type of the byte it is in front of.
LEMMA TypeIs ==
  ASSUME NEW d \in Buffers, NEW v \in Iterators(d)
  PROVE  \/ at_end(d, v) /\ get_type(d, v) = -3
         \/ /\ ~at_end(d, v)
            /\ v.cur < Len(d)
            /\ Byte(d, v.cur) \in 0 .. 255
            /\ get_type(d, v) = Byte(d, v.cur) \div 32
            /\ get_type(d, v) \in 0 .. 7
<1>1. CASE at_end(d, v)
  BY <1>1 DEF get_type, NANOCBOR_ERR_END
<1>2. CASE ~at_end(d, v)
  <2>1. v.cur < Len(d) /\ v.cur \in Nat /\ Len(d) \in Nat /\ v.cur \in 0 .. Len(d) - 1
    BY <1>2, NotAtEnd, IteratorIs, LenProperties
  <2>2. Byte(d, v.cur) \in 0 .. 255
    BY <2>1, ByteIs
  <2>3. get_type(d, v) = Byte(d, v.cur) \div 32
    BY <1>2 DEF get_type
  <2> DEFINE b == Byte(d, v.cur)
  <2> HIDE DEF b
  <2>4. b \in 0 .. 255
    BY <2>2 DEF b
  <2>5. (b \div 32) \in 0 .. 7
    BY <2>4
  <2>6. QED
    BY <1>2, <2>1, <2>2, <2>3, <2>5 DEF b
<1>3. QED
  BY <1>1, <1>2
\* The number behind a head is a number.
LEMMA NumberIs ==
  ASSUME NEW d \in Buffers, NEW i \in Nat, NEW n \in {1, 2, 4, 8}, i + n <= Len(d)
  PROVE  NumberAt(d, i, n) \in Int
<1>1. Len(d) \in Nat
  BY LenProperties
<1>2. BIG \in Int /\ HUGE \in Int
  BY DEF BIG, HUGE
<1>3. ASSUME NEW k \in 0 .. Len(d) - 1 PROVE Byte(d, k) \in Int
  BY ByteIs
<1>4. ASSUME NEW j \in Nat, j + 4 <= Len(d) PROVE WordAt(d, j) \in Int
  <2>1. /\ j \in 0 .. Len(d) - 1 /\ j + 1 \in 0 .. Len(d) - 1
        /\ j + 2 \in 0 .. Len(d) - 1 /\ j + 3 \in 0 .. Len(d) - 1
    BY <1>1, <1>4
  <2>2. Byte(d, j) \in Int /\ Byte(d, j + 1) \in Int /\ Byte(d, j + 2) \in Int /\ Byte(d, j + 3) \in Int
    BY <1>3, <2>1
  <2>3. QED
    BY <1>2, <2>2 DEF WordAt
<1>5. CASE n = 1
  <2>1. i \in 0 .. Len(d) - 1
    BY <1>1, <1>5
  <2>2. QED
    BY <1>3, <1>5, <2>1 DEF NumberAt
<1>6. CASE n = 2
  <2>1. i \in 0 .. Len(d) - 1 /\ i + 1 \in 0 .. Len(d) - 1
    BY <1>1, <1>6
  <2>2. Byte(d, i) \in Int /\ Byte(d, i + 1) \in Int
    BY <1>3, <2>1
  <2>3. QED
    BY <1>6, <2>2 DEF NumberAt
<1>7. CASE n = 4
  BY <1>4, <1>7 DEF NumberAt
<1>8. CASE n = 8
  <2>1. i + 4 \in Nat /\ (i + 4) + 4 <= Len(d) /\ i + 7 \in 0 .. Len(d) - 1
    BY <1>1, <1>8
  <2>2. WordAt(d, i + 4) \in Int /\ Byte(d, i + 7) \in Int
    BY <1>3, <1>4, <2>1
  <2>3. LongAt(d, i) \in Int
    BY <1>2, <2>2 DEF LongAt
  <2>4. QED
    BY <1>8, <2>3 DEF NumberAt
<1>9. QED
  BY <1>5, <1>6, <1>7, <1>8

\* The four size codes.
LEMMA SizeIs ==
  ASSUME NEW info \in 24 .. 27
  PROVE  NumberLen(info) \in {1, 2, 4, 8}
BY DEF NumberLen, SIZE_BYTE, SIZE_SHORT, SIZE_WORD, SIZE_LONG

\* _get_uint64 fails and gives no number, or it has read a head of RFC 7049
\* that lies in the buffer.
LEMMA HeadIs ==
  ASSUME NEW d \in Buffers, NEW v \in Iterators(d), NEW max \in 24 .. 27, NEW type
  PROVE  LET h == get_uint64(d, v, max, type)
         IN  \/ h.res \in {-1, -2, -3} /\ h.value = 0
             \/ /\ h.res \in 1 .. 9 /\ h.value \in Int
                /\ ~at_end(d, v)
                /\ v.cur + h.res <= Len(d)
                /\ Byte(d, v.cur) \div 32 = type
                /\ HeadLen(d, v.cur) = h.res
                /\ HeadValue(d, v.cur) = h.value
<1> DEFINE h == get_uint64(d, v, max, type)
           ctype == get_type(d, v)
           info == Byte(d, v.cur) % 32
           bytes == NumberLen(info)
<1>1. h = IF ctype < 0 THEN [res |-> ctype, value |-> 0]
          ELSE IF type # ctype THEN [res |-> -2, value |-> 0]
          ELSE IF info < 24 THEN [res |-> 1, value |-> info]
          ELSE IF info > max THEN [res |-> -1, value |-> 0]
          ELSE IF v.cur + bytes >= v.end THEN [res |-> -3, value |-> 0]
          ELSE [res |-> 1 + bytes, value |-> NumberAt(d, v.cur + 1, bytes)]
  BY DEF get_uint64, NANOCBOR_ERR_INVALID_TYPE, NANOCBOR_ERR_OVERFLOW, NANOCBOR_ERR_END, SIZE_BYTE
<1>2. v.cur \in Nat /\ v.end = Len(d) /\ Len(d) \in Nat
  BY IteratorIs, LenProperties
<1>3. HeadLen(d, v.cur) = IF v.cur >= Len(d) \/ info > 27 THEN -1
                          ELSE IF info < 24
                               THEN IF v.cur + 1 <= Len(d) THEN 1 ELSE -1
                               ELSE IF v.cur + (1 + bytes) <= Len(d) THEN 1 + bytes ELSE -1
  BY DEF HeadLen, SIZE_LONG, SIZE_BYTE
<1>4. HeadValue(d, v.cur) = IF info < 24 THEN info ELSE NumberAt(d, v.cur + 1, bytes)
  BY DEF HeadValue, SIZE_BYTE
<1>5. info \in 24 .. 27 => bytes \in {1, 2, 4, 8}
  BY SizeIs
<1>6. CASE at_end(d, v)
  BY <1>1, <1>6, TypeIs
<1>7. CASE ~at_end(d, v)
  <2>1. /\ v.cur < Len(d) /\ Byte(d, v.cur) \in 0 .. 255
        /\ ctype = Byte(d, v.cur) \div 32 /\ ctype \in 0 .. 7
    BY <1>7, TypeIs
  <2>2. info \in 0 .. 31
    <3> DEFINE b == Byte(d, v.cur)
    <3>1. b \in 0 .. 255
      BY <2>1
    <3> HIDE DEF b
    <3>2. (b % 32) \in 0 .. 31
      BY <3>1
    <3>3. QED
      BY <3>2 DEF b
  <2> HIDE DEF h, ctype, info, bytes
  <2>3. CASE type # ctype
    BY <1>1, <2>1, <2>3 DEF h
  <2>4. CASE type = ctype /\ info < 24
    BY <1>1, <1>2, <1>3, <1>4, <1>7, <2>1, <2>2, <2>4 DEF h
  <2>5. CASE type = ctype /\ info >= 24 /\ info > max
    BY <1>1, <2>1, <2>2, <2>5 DEF h
  <2>6. CASE type = ctype /\ info >= 24 /\ info <= max
    <3>1. info \in 24 .. 27
      BY <2>2, <2>6
    <3>2. bytes \in {1, 2, 4, 8}
      BY <1>5, <3>1
    <3>3. CASE v.cur + bytes >= Len(d)
      BY <1>1, <1>2, <2>1, <2>2, <2>6, <3>3 DEF h
    <3>4. CASE v.cur + bytes < Len(d)
      <4>0. ~(ctype < 0) /\ ~(info < 24) /\ ~(info > max) /\ ~(v.cur + bytes >= v.end)
        BY <1>2, <2>1, <2>2, <2>6, <3>2, <3>4
      <4>1. h = [res |-> 1 + bytes, value |-> NumberAt(d, v.cur + 1, bytes)]
        BY <1>1, <2>6, <4>0
      <4>2. v.cur + 1 \in Nat /\ (v.cur + 1) + bytes <= Len(d)
        BY <1>2, <3>2, <3>4
      <4>3. NumberAt(d, v.cur + 1, bytes) \in Int
        BY <3>2, <4>2, NumberIs
      <4>4. HeadLen(d, v.cur) = 1 + bytes /\ HeadValue(d, v.cur) = NumberAt(d, v.cur + 1, bytes)
        BY <1>2, <1>3, <1>4, <2>1, <3>1, <3>2, <3>4
      <4>5. 1 + bytes \in 1 .. 9 /\ v.cur + (1 + bytes) <= Len(d)
        BY <1>2, <3>2, <3>4
      <4>6. QED
        BY <1>7, <2>1, <2>6, <4>1, <4>3, <4>4, <4>5 DEF h
    <3>5. QED
      BY <1>2, <3>2, <3>3, <3>4
  <2>7. QED
    BY <2>2, <2>3, <2>4, <2>5, <2>6
<1>8. QED
  BY <1>6, <1>7
-----------------------------------------------------------------------------
\* An operation on v left the iterator r where it was or at most extra bytes
\* behind the end of the buffer.
Near(d, v, r, extra) == r \in Iterators(d) /\ (r = v \/ r.cur <= Len(d) + extra)

\* _advance_if by a head or by nothing.
LEMMA AdvanceIfIs ==
  ASSUME NEW d \in Buffers, NEW v \in Iterators(d), NEW n \in Int,
         n > 0 => v.cur + n <= Len(d)
  PROVE  Near(d, v, AdvanceIf(v, n), 0)
<1>1. v.cur \in Nat /\ Len(d) \in Nat
  BY IteratorIs, LenProperties
<1>2. CASE n > 0
  <2>1. v.cur + n >= 0 /\ v.cur + n <= Len(d) + 0
    BY <1>1, <1>2
  <2>2. Advance(v, n) \in Iterators(d) /\ Advance(v, n).cur = v.cur + n
    BY <2>1, Moves
  <2>3. QED
    BY <1>2, <2>1, <2>2 DEF AdvanceIf, Near
<1>3. CASE ~(n > 0)
  BY <1>3 DEF AdvanceIf, Near
<1>4. QED
  BY <1>2, <1>3

\* The length of a head, or the error instead of it, is a number.
LEMMA HeadFits ==
  ASSUME NEW d \in Buffers, NEW v \in Iterators(d), NEW max \in 24 .. 27, NEW type
  PROVE  LET h == get_uint64(d, v, max, type)
         IN  h.res \in Int /\ h.value \in Int /\ (h.res >= 0 => h.res > 0 /\ v.cur + h.res <= Len(d))
<1> DEFINE h == get_uint64(d, v, max, type)
<1>1. \/ h.res \in {-1, -2, -3} /\ h.value = 0
      \/ h.res \in 1 .. 9 /\ h.value \in Int /\ v.cur + h.res <= Len(d)
  BY HeadIs
<1> HIDE DEF h
<1>2. h.res \in Int /\ h.value \in Int /\ (h.res >= 0 => h.res > 0 /\ v.cur + h.res <= Len(d))
  BY <1>1
<1>3. QED
  BY <1>2 DEF h

\* nanocbor_get_uint8, _uint16 and _uint32.
LEMMA UintIs ==
  ASSUME NEW d \in Buffers, NEW v \in Iterators(d), NEW max \in 24 .. 27
  PROVE  Near(d, v, get_uint(d, v, max).it, 0)
<1> DEFINE h == get_uint64(d, v, max, UINT)
<1>1. h.res \in Int /\ (h.res > 0 => v.cur + h.res <= Len(d))
  BY HeadFits
<1>2. get_uint(d, v, max).it = AdvanceIf(v, h.res)
  BY DEF get_uint
<1> HIDE DEF h
<1>3. QED
  BY <1>1, <1>2, AdvanceIfIs

\* nanocbor_get_int8, _int16 and _int32.
LEMMA IntIs ==
  ASSUME NEW d \in Buffers, NEW v \in Iterators(d), NEW max \in 24 .. 27
  PROVE  /\ Near(d, v, get_int(d, v, max).it, 0)
         /\ get_int(d, v, max).res \in Int
<1> DEFINE type == get_type(d, v)
           h == get_uint64(d, v, max, type)
           r == get_int(d, v, max)
<1>1. h.res \in Int /\ (h.res > 0 => v.cur + h.res <= Len(d))
  BY HeadFits
<1>2. type \in Int /\ (type > 0 => type >= 0)
  BY TypeIs
<1> DEFINE code == IF type < 0 THEN type
                   ELSE IF type \notin {UINT, NINT} THEN NANOCBOR_ERR_INVALID_TYPE
                   ELSE IF h.value > IntBound(max) THEN NANOCBOR_ERR_OVERFLOW
                   ELSE h.res
<1>3. r = [res |-> code, it |-> AdvanceIf(v, code),
           value |-> IF type = NINT THEN -h.value - 1 ELSE IF type = UINT THEN h.value ELSE 0]
  BY ZenonT(30) DEF get_int
<1> HIDE DEF h, type, r
<1>4. r.res = code /\ r.it = AdvanceIf(v, r.res) /\ code \in Int /\ (code > 0 => code = h.res)
  BY <1>1, <1>2, <1>3 DEF NANOCBOR_ERR_INVALID_TYPE, NANOCBOR_ERR_OVERFLOW
<1> HIDE DEF code
<1>5. r.res \in Int /\ (r.res > 0 => v.cur + r.res <= Len(d))
  BY <1>1, <1>4
<1>6. QED
  BY <1>4, <1>5, AdvanceIfIs DEF r

\* nanocbor_get_tag.
LEMMA TagIs ==
  ASSUME NEW d \in Buffers, NEW v \in Iterators(d)
  PROVE  Near(d, v, get_tag(d, v).it, 0)
<1> DEFINE h == get_uint64(d, v, SIZE_WORD, TAG)
<1>0. SIZE_WORD \in 24 .. 27
  BY DEF SIZE_WORD
<1>1. h.res \in Int /\ (h.res >= 0 => h.res > 0 /\ v.cur + h.res <= Len(d))
  BY <1>0, HeadFits
<1>2. get_tag(d, v).it = IF h.res < 0 THEN v ELSE [v EXCEPT !.cur = @ + h.res]
  BY DEF get_tag
<1>3. v.cur \in Nat /\ Len(d) \in Nat
  BY IteratorIs, LenProperties
<1> HIDE DEF h
<1>4. CASE h.res < 0
  BY <1>2, <1>4 DEF Near
<1>5. CASE h.res >= 0
  <2>1. v.cur + h.res >= 0 /\ v.cur + h.res <= Len(d) + 0 /\ ~(h.res < 0)
    BY <1>1, <1>3, <1>5
  <2>2. [v EXCEPT !.cur = @ + h.res] \in Iterators(d) /\ [v EXCEPT !.cur = @ + h.res].cur = v.cur + h.res
    BY <1>1, <2>1, Moves
  <2>3. QED
    BY <1>2, <2>1, <2>2 DEF Near
<1>6. QED
  BY <1>1, <1>4, <1>5

\* _value_match_exact.
LEMMA MatchIs ==
  ASSUME NEW d \in Buffers, NEW v \in Iterators(d), NEW byte
  PROVE  Near(d, v, value_match_exact(d, v, byte).it, 0)
<1>1. v.cur \in Nat /\ Len(d) \in Nat /\ v.end = Len(d)
  BY IteratorIs, LenProperties
<1>2. CASE OverEnd(v)
  BY <1>2 DEF value_match_exact, Near
<1>3. CASE ~OverEnd(v)
  <2>1. v.cur + 1 >= 0 /\ v.cur + 1 <= Len(d) + 0
    BY <1>1, <1>3 DEF OverEnd
  <2>2. Advance(v, 1) \in Iterators(d) /\ Advance(v, 1).cur = v.cur + 1
    <3>1. \A n \in Int : v.cur + n >= 0 => Advance(v, n) \in Iterators(d) /\ Advance(v, n).cur = v.cur + n
      BY Moves
    <3>2. QED
      BY <2>1, <3>1
  <2>3. value_match_exact(d, v, byte).it \in {v, Advance(v, 1)}
    BY <1>3 DEF value_match_exact
  <2>4. QED
    BY <2>1, <2>2, <2>3 DEF Near
<1>4. QED
  BY <1>2, <1>3

\* nanocbor_get_null.
LEMMA NullIs ==
  ASSUME NEW d \in Buffers, NEW v \in Iterators(d)
  PROVE  Near(d, v, get_null(d, v).it, 0)
BY MatchIs DEF get_null

\* nanocbor_get_bool, which tries one byte and then the other.
LEMMA BoolIs ==
  ASSUME NEW d \in Buffers, NEW v \in Iterators(d)
  PROVE  Near(d, v, get_bool(d, v).it, 0)
<1>1. /\ Near(d, v, value_match_exact(d, v, FALSE_BYTE).it, 0)
      /\ Near(d, v, value_match_exact(d, v, TRUE_BYTE).it, 0)
  BY MatchIs
<1>2. get_bool(d, v) \in {value_match_exact(d, v, FALSE_BYTE), value_match_exact(d, v, TRUE_BYTE)}
  BY DEF get_bool
<1>3. QED
  BY <1>1, <1>2

\* _skip_simple and nanocbor_skip_simple.
LEMMA SimpleIs ==
  ASSUME NEW d \in Buffers, NEW v \in Iterators(d)
  PROVE  Near(d, v, skip_simple(d, v).it, 0) /\ skip_simple(d, v).res \in Int
<1> DEFINE h == get_uint64(d, v, SIZE_LONG, get_type(d, v))
<1>0. SIZE_LONG \in 24 .. 27
  BY DEF SIZE_LONG
<1>1. h.res \in Int /\ (h.res > 0 => v.cur + h.res <= Len(d))
  BY <1>0, HeadFits
<1>2. skip_simple(d, v).it = AdvanceIf(v, h.res) /\ skip_simple(d, v).res = h.res
  BY DEF skip_simple
<1> HIDE DEF h
<1>3. QED
  BY <1>1, <1>2, AdvanceIfIs
-----------------------------------------------------------------------------
\* _get_str: a string that is returned has its head at the iterator and its
\* bytes, up to where the iterator goes on, in the buffer.
LEMMA StrIs ==
  ASSUME NEW d \in Buffers, NEW v \in Iterators(d), NEW type
  PROVE  LET r == get_str(d, v, type)
         IN  /\ r.res \in {0, -3}
             /\ Near(d, v, r.it, 0)
             /\ r.res = 0 => /\ r.it.cur = r.buf + r.len
                             /\ r.it.cur <= Len(d)
                             /\ r.len \in Int
                             /\ r.buf - v.cur \in 1 .. 9 /\ r.buf \in Nat
                             /\ Byte(d, v.cur) \div 32 = type
                             /\ HeadLen(d, v.cur) = r.buf - v.cur
                             /\ HeadValue(d, v.cur) = r.len
<1> DEFINE h == get_uint64(d, v, SIZE_LONG, type)
           r == get_str(d, v, type)
<1>0. SIZE_LONG \in 24 .. 27
  BY DEF SIZE_LONG
<1>1. \/ h.res \in {-1, -2, -3} /\ h.value = 0
      \/ /\ h.res \in 1 .. 9 /\ h.value \in Int
         /\ v.cur + h.res <= Len(d)
         /\ Byte(d, v.cur) \div 32 = type
         /\ HeadLen(d, v.cur) = h.res
         /\ HeadValue(d, v.cur) = h.value
  BY <1>0, HeadIs
<1>2. r = IF StrFits(v, h.value, h.res)
          THEN [res |-> 0, it |-> Advance(v, h.res + h.value),
                buf |-> v.cur + h.res, len |-> h.value]
          ELSE [res |-> -3, it |-> v, buf |-> -1, len |-> h.value]
  BY DEF get_str, NANOCBOR_OK, NANOCBOR_ERR_END
<1>3. v.cur \in Nat /\ v.end = Len(d) /\ Len(d) \in Nat
  BY IteratorIs, LenProperties
<1> HIDE DEF h, r
<1>4. CASE StrFits(v, h.value, h.res)
  <2> DEFINE n == h.res + h.value
  <2>1. h.res \in Int /\ h.value \in Int
    BY <1>1
  <2>2. n \in Int /\ n >= 0 /\ n <= Len(d) - v.cur
    BY <1>3, <1>4, <2>1 DEF StrFits
  <2>3. h.res \in 1 .. 9
    BY <1>1, <2>2
  <2>4. /\ v.cur + n >= 0 /\ v.cur + n <= Len(d) + 0 /\ v.cur + n <= Len(d)
        /\ v.cur + n = (v.cur + h.res) + h.value
    BY <1>3, <2>1, <2>2
  <2> HIDE DEF n
  <2>5. Advance(v, n) \in Iterators(d) /\ Advance(v, n).cur = v.cur + n
    BY <2>2, <2>4, Moves
  <2>6. r.res = 0 /\ r.it = Advance(v, n) /\ r.buf = v.cur + h.res /\ r.len = h.value
    BY <1>2, <1>4 DEF n
  <2>7. r.buf - v.cur = h.res /\ r.buf \in Nat
    BY <1>3, <2>3, <2>6
  <2>8. Near(d, v, r.it, 0)
    BY <2>4, <2>5, <2>6 DEF Near
  <2>9. r.it.cur = r.buf + r.len /\ r.it.cur <= Len(d)
    BY <2>4, <2>5, <2>6
  <2>10. /\ Byte(d, v.cur) \div 32 = type /\ HeadLen(d, v.cur) = r.buf - v.cur
         /\ HeadValue(d, v.cur) = r.len
    BY <1>1, <2>3, <2>6, <2>7
  <2>11. QED
    BY <2>1, <2>3, <2>6, <2>7, <2>8, <2>9, <2>10 DEF r
<1>5. CASE ~StrFits(v, h.value, h.res)
  <2>1. r.res = -3 /\ r.it = v
    BY <1>2, <1>5
  <2>2. QED
    BY <2>1 DEF Near, r
<1>6. QED
  BY <1>4, <1>5

-----------------------------------------------------------------------------
\* A container was entered, at the end of the buffer at most, or refused.
Opened(d, c) ==
  /\ c.res \in Int
  /\ c.res >= 0 => c.res = 0 /\ c.it \in Iterators(d) /\ c.it.cur <= Len(d)

\* _enter_container: a definite container begins behind its head, an indefinite
\* one behind its byte.
LEMMA ContainerIs ==
  ASSUME NEW d \in Buffers, NEW v \in Iterators(d), NEW type
  PROVE  Opened(d, enter_container(d, v, type))
<1> DEFINE h == get_uint64(d, v, SIZE_WORD, type)
           c == enter_container(d, v, type)
           open == ~OverEnd(v) /\ Byte(d, v.cur) = type * 32 + SIZE_INDEFINITE
<1>0. SIZE_WORD \in 24 .. 27
  BY DEF SIZE_WORD
<1>1. h.res \in Int /\ h.value \in Int /\ (h.res >= 0 => h.res > 0 /\ v.cur + h.res <= Len(d))
  BY <1>0, HeadFits
<1>2. c = IF open
          THEN [res |-> 0, it |-> [cur |-> v.cur + 1, end |-> v.end, remaining |-> 0,
                                   flags |-> "indefinite"]]
          ELSE IF h.res < 0 THEN [res |-> h.res, it |-> v]
          ELSE [res |-> 0, it |-> [cur |-> v.cur + h.res, end |-> v.end, remaining |-> h.value,
                                   flags |-> "container"]]
  BY DEF enter_container, NANOCBOR_OK
<1>3. v.cur \in Nat /\ v.end = Len(d) /\ Len(d) \in Nat
  BY IteratorIs, LenProperties
<1>4. open => v.cur + 1 \in Nat /\ v.cur + 1 <= Len(d)
  BY <1>3 DEF OverEnd
<1> HIDE DEF h, c, open
<1>5. CASE open
  <2>1. c.res = 0 /\ c.it = [cur |-> v.cur + 1, end |-> Len(d), remaining |-> 0, flags |-> "indefinite"]
    BY <1>2, <1>3, <1>5
  <2>2. c.it \in Iterators(d) /\ c.it.cur <= Len(d)
    BY <1>4, <1>5, <2>1 DEF Iterators, FLAGS
  <2>3. QED
    BY <2>1, <2>2 DEF Opened, c
<1>6. CASE ~open /\ h.res < 0
  <2>1. c.res = h.res
    BY <1>2, <1>6
  <2>2. QED
    BY <1>1, <1>6, <2>1 DEF Opened, c
<1>7. CASE ~open /\ h.res >= 0
  <2>1. ~(h.res < 0) /\ v.cur + h.res \in Nat /\ v.cur + h.res <= Len(d)
    BY <1>1, <1>3, <1>7
  <2>2. c.res = 0 /\ c.it = [cur |-> v.cur + h.res, end |-> Len(d), remaining |-> h.value, flags |-> "container"]
    BY <1>2, <1>3, <1>7, <2>1
  <2>3. c.it \in Iterators(d) /\ c.it.cur <= Len(d)
    BY <1>1, <2>1, <2>2 DEF Iterators, FLAGS
  <2>4. QED
    BY <2>2, <2>3 DEF Opened, c
<1>8. QED
  BY <1>1, <1>5, <1>6, <1>7

\* nanocbor_enter_array.
LEMMA ArrayIs ==
  ASSUME NEW d \in Buffers, NEW v \in Iterators(d)
  PROVE  Opened(d, enter_array(d, v))
BY ContainerIs DEF enter_array

\* nanocbor_enter_map: the number of items is doubled, or refused.
LEMMA MapIs ==
  ASSUME NEW d \in Buffers, NEW v \in Iterators(d)
  PROVE  Opened(d, enter_map(d, v))
<1> DEFINE c == enter_container(d, v, MAP)
           m == enter_map(d, v)
<1>1. Opened(d, c)
  BY ContainerIs
<1>2. m = IF c.res < 0 THEN c
          ELSE IF c.it.remaining = HUGE THEN [c EXCEPT !.res = -1]
          ELSE [c EXCEPT !.it.remaining = IF @ = BIG THEN BIG ELSE @ * 2]
  BY DEF enter_map, NANOCBOR_ERR_OVERFLOW
<1>3. \E r, i : c = [res |-> r, it |-> i]
  BY DEF enter_container
<1> HIDE DEF c, m
<1>4. CASE c.res < 0
  BY <1>1, <1>2, <1>4 DEF m
<1>5. CASE ~(c.res < 0) /\ c.it.remaining = HUGE
  <2>1. m.res = -1
    BY <1>2, <1>3, <1>5
  <2>2. QED
    BY <2>1 DEF Opened, m
<1>6. CASE ~(c.res < 0) /\ c.it.remaining # HUGE
  <2>1. c.res = 0 /\ c.it \in Iterators(d) /\ c.it.cur <= Len(d)
    BY <1>1, <1>6 DEF Opened
  <2> DEFINE n == IF c.it.remaining = BIG THEN BIG ELSE c.it.remaining * 2
  <2>2. n \in Int
    <3>1. c.it.remaining \in Int /\ BIG \in Int
      BY <2>1, IteratorIs DEF BIG
    <3>2. QED
      BY <3>1
  <2>3. m = [c EXCEPT !.it.remaining = n]
    BY <1>2, <1>6
  <2> HIDE DEF n
  <2>4. m.res = c.res /\ m.it = [c.it EXCEPT !.remaining = n]
    BY <1>3, <2>3
  <2>5. m.it \in Iterators(d) /\ m.it.cur = c.it.cur
    BY <2>1, <2>2, <2>4 DEF Iterators
  <2>6. QED
    BY <2>1, <2>4, <2>5 DEF Opened, m
<1>7. QED
  BY <1>4, <1>5, <1>6

\* nanocbor_leave_container goes on behind what the container's iterator read,
\* and the break byte.
LEMMA LeaveIs ==
  ASSUME NEW d \in Buffers, NEW v \in Iterators(d), NEW w \in Iterators(d)
  PROVE  /\ leave_container(v, w) \in Iterators(d)
         /\ leave_container(v, w).cur <= w.cur + 1
<1> DEFINE n == IF v.remaining = 0 THEN 0 ELSE v.remaining - 1
           c == IF w.flags = "indefinite" THEN w.cur + 1 ELSE w.cur
<1>1. v.remaining \in Int /\ w.cur \in Nat
  BY IteratorIs
<1>2. n \in Int /\ c \in Nat /\ c <= w.cur + 1
  BY <1>1
<1>3. leave_container(v, w) = [v EXCEPT !.remaining = n, !.cur = c]
  BY DEF leave_container
<1> HIDE DEF n, c
<1>4. QED
  BY <1>2, <1>3 DEF Iterators

\* nanocbor_get_decimal_frac.
LEMMA DecimalFracIs ==
  ASSUME NEW d \in Buffers, NEW v \in Iterators(d)
  PROVE  Near(d, v, get_decimal_frac(d, v).it, 1)
<1> DEFINE tag == get_tag(d, v)
           arr == enter_array(d, tag.it)
           e == get_int(d, arr.it, SIZE_WORD)
           m == get_int(d, e.it, SIZE_WORD)
           r == get_decimal_frac(d, v)
<1>0. SIZE_WORD \in 24 .. 27
  BY DEF SIZE_WORD
<1>1. r.it \in {v, tag.it} \/ (arr.res = 0 /\ r.it \in {leave_container(tag.it, e.it), leave_container(tag.it, m.it)})
  BY DEF get_decimal_frac, NANOCBOR_OK
<1>2. Near(d, v, tag.it, 0)
  BY TagIs
<1>3. tag.it \in Iterators(d) /\ Len(d) \in Nat /\ tag.it.cur \in Nat
  BY <1>2, LenProperties, IteratorIs DEF Near
<1>4. Opened(d, arr)
  BY <1>3, ArrayIs
<1> HIDE DEF r
<1>5. CASE r.it \in {v, tag.it}
  BY <1>2, <1>3, <1>5 DEF Near, r
<1>6. CASE arr.res = 0 /\ r.it \in {leave_container(tag.it, e.it), leave_container(tag.it, m.it)}
  <2>1. arr.it \in Iterators(d) /\ arr.it.cur <= Len(d)
    BY <1>4, <1>6 DEF Opened
  <2>2. e.it \in Iterators(d) /\ (e.it = arr.it \/ e.it.cur <= Len(d) + 0)
    BY <1>0, <2>1, IntIs DEF Near
  <2>3. e.it.cur <= Len(d)
    BY <1>3, <2>1, <2>2
  <2>4. m.it \in Iterators(d) /\ (m.it = e.it \/ m.it.cur <= Len(d) + 0)
    BY <1>0, <2>2, IntIs DEF Near
  <2>5. m.it.cur <= Len(d)
    BY <1>3, <2>3, <2>4
  <2> HIDE DEF e, m, arr, tag
  <2>6. PICK w \in {e.it, m.it} : r.it = leave_container(tag.it, w)
    BY <1>6
  <2>7. w \in Iterators(d) /\ w.cur <= Len(d)
    BY <2>2, <2>3, <2>4, <2>5
  <2>8. r.it \in Iterators(d) /\ r.it.cur <= w.cur + 1
    BY <1>3, <2>6, <2>7, LeaveIs
  <2>9. r.it.cur \in Nat /\ w.cur \in Nat
    BY <2>7, <2>8, IteratorIs
  <2>10. r.it.cur <= Len(d) + 1
    BY <1>3, <2>7, <2>8, <2>9
  <2>11. QED
    BY <2>8, <2>10 DEF Near, r
<1>7. QED
  BY <1>1, <1>5, <1>6
-----------------------------------------------------------------------------
\* The last element of a sequence and the ones before it.
LEMMA FrontIs ==
  ASSUME NEW S, NEW s \in Seq(S), Len(s) >= 1
  PROVE  /\ Front(s) \in Seq(S) /\ Len(Front(s)) = Len(s) - 1
         /\ \A k \in 1 .. Len(s) - 1 : Front(s)[k] = s[k]
         /\ Last(s) = s[Len(s)] /\ Last(s) \in S
<1>1. Len(s) \in Nat /\ Len(s) \in 1 .. Len(s)
  BY LenProperties
<1>2. \A k \in 1 .. Len(s) - 1 : s[k] \in S
  BY <1>1, ElementOfSeq
<1> DEFINE n == Len(s) - 1
<1>3. n \in Nat /\ 1 \in Int
  BY <1>1
<1>4. Front(s) = SubSeq(s, 1, n)
  BY DEF Front
<1>5. \A k \in 1 .. n : s[k] \in S
  BY <1>2
<1> HIDE DEF n
<1>6. /\ SubSeq(s, 1, n) \in Seq(S)
      /\ Len(SubSeq(s, 1, n)) = IF 1 <= n THEN n - 1 + 1 ELSE 0
      /\ \A i \in 1 .. n - 1 + 1 : SubSeq(s, 1, n)[i] = s[1 + i - 1]
  BY <1>3, <1>5, SubSeqProperties
<1>7. Len(Front(s)) = n /\ \A k \in 1 .. n : Front(s)[k] = s[k]
  <2>1. n - 1 + 1 = n /\ (1 <= n \/ n = 0) /\ \A i \in 1 .. n : 1 + i - 1 = i
    BY <1>3
  <2>2. QED
    BY <1>4, <1>6, <2>1
<1>8. Last(s) = s[Len(s)] /\ s[Len(s)] \in S
  BY <1>1, ElementOfSeq DEF Last
<1>9. QED
  BY <1>4, <1>6, <1>7, <1>8 DEF n

\* The last element of a sequence, replaced.
LEMMA ReplacedIs ==
  ASSUME NEW S, NEW s \in Seq(S), Len(s) >= 1, NEW e \in S
  PROVE  LET t == Append(Front(s), e)
         IN  /\ t \in Seq(S) /\ Len(t) = Len(s)
             /\ \A k \in 1 .. Len(s) : t[k] = IF k = Len(s) THEN e ELSE s[k]
<1> DEFINE f == Front(s)
<1>1. f \in Seq(S) /\ Len(f) = Len(s) - 1 /\ Len(s) \in Nat /\ \A k \in 1 .. Len(s) - 1 : f[k] = s[k]
  BY FrontIs, LenProperties
<1> HIDE DEF f
<1>2. /\ Append(f, e) \in Seq(S) /\ Len(Append(f, e)) = Len(f) + 1
      /\ \A i \in 1 .. Len(f) : Append(f, e)[i] = f[i]
      /\ Append(f, e)[Len(f) + 1] = e
  BY <1>1, AppendProperties
<1>3. Len(f) + 1 = Len(s)
  BY <1>1
<1>4. ASSUME NEW k \in 1 .. Len(s) PROVE Append(f, e)[k] = IF k = Len(s) THEN e ELSE s[k]
  <2>1. CASE k = Len(s)
    BY <1>2, <1>3, <2>1
  <2>2. CASE k # Len(s)
    <3>1. k \in 1 .. Len(f) /\ k \in 1 .. Len(s) - 1
      BY <1>1, <2>2
    <3>2. QED
      BY <1>1, <1>2, <2>2, <3>1
  <2>3. QED
    BY <2>1, <2>2
<1>5. QED
  BY <1>2, <1>3, <1>4 DEF f

\* The iterators of the nested calls of _skip_limited.  Each level that is left
\* may add a byte to its parent, and a parent has more levels below it.
Stacks(d) ==
  { s \in Seq(Iterators(d)) :
      /\ Len(s) \in 1 .. NANOCBOR_RECURSION_MAX + 1
      /\ \A k \in 1 .. Len(s) : s[k].cur <= Len(d) + (NANOCBOR_RECURSION_MAX + 1 - k) }

\* What such a stack is made of.
LEMMA StackIs ==
  ASSUME NEW d \in Buffers, NEW s \in Stacks(d)
  PROVE  /\ s \in Seq(Iterators(d)) /\ Len(s) \in Nat /\ Len(s) >= 1 /\ Len(s) <= 11 /\ Len(d) \in Nat
         /\ \A k \in 1 .. Len(s) : s[k] \in Iterators(d) /\ s[k].cur \in Nat /\ s[k].cur <= Len(d) + (11 - k)
<1>1. /\ s \in Seq(Iterators(d)) /\ Len(s) \in Nat /\ Len(s) >= 1 /\ Len(s) <= 11 /\ Len(d) \in Nat
      /\ \A k \in 1 .. Len(s) : s[k].cur <= Len(d) + (11 - k)
  <2>1. s \in Seq(Iterators(d)) /\ Len(s) \in 1 .. 10 + 1 /\ \A k \in 1 .. Len(s) : s[k].cur <= Len(d) + (10 + 1 - k)
    BY DEF Stacks, NANOCBOR_RECURSION_MAX
  <2>2. Len(s) \in Nat /\ Len(d) \in Nat
    BY <2>1, LenProperties
  <2>3. \A k \in 1 .. Len(s) : 10 + 1 - k = 11 - k
    BY <2>2
  <2>4. Len(s) >= 1 /\ Len(s) <= 11
    <3> DEFINE n == Len(s)
    <3>1. n \in 1 .. 10 + 1
      BY <2>1
    <3> HIDE DEF n
    <3>2. n >= 1 /\ n <= 11
      BY <3>1
    <3>3. QED
      BY <3>2 DEF n
  <2>5. QED
    BY <2>1, <2>2, <2>3, <2>4
<1>2. ASSUME NEW k \in 1 .. Len(s) PROVE s[k] \in Iterators(d) /\ s[k].cur \in Nat
  <2>1. s[k] \in Iterators(d)
    BY <1>1, ElementOfSeq
  <2>2. QED
    BY <2>1, IteratorIs
<1>3. QED
  BY <1>1, <1>2

\* A number between the bounds of a stack's length.
LEMMA Between ==
  ASSUME NEW n \in Nat, n >= 1, n <= 11
  PROVE  n \in 1 .. 10 + 1
OBVIOUS

\* Iterators within those bounds are such a stack.
LEMMA StackFrom ==
  ASSUME NEW d \in Buffers, NEW s \in Seq(Iterators(d)),
         Len(s) \in Nat, Len(s) >= 1, Len(s) <= 11,
         \A k \in 1 .. Len(s) : s[k].cur <= Len(d) + (11 - k)
  PROVE  s \in Stacks(d)
<1>1. Len(s) \in 1 .. 10 + 1
  BY Between
<1>2. QED
  BY <1>1 DEF Stacks, NANOCBOR_RECURSION_MAX

\* The innermost container is left: its parent is at most one byte further.
LEMMA ReturnedTo ==
  ASSUME NEW d \in Buffers, NEW s \in Seq(Iterators(d)), Len(s) > 1
  PROVE  LET t == Returned(s)
         IN  /\ t \in Seq(Iterators(d)) /\ Len(t) = Len(s) - 1 /\ Len(s) \in Nat
             /\ \A k \in 1 .. Len(s) - 1 : k # Len(s) - 1 => t[k] = s[k]
             /\ s[Len(s)].cur \in Nat /\ t[Len(s) - 1].cur \in Nat
             /\ t[Len(s) - 1].cur <= s[Len(s)].cur + 1
<1>1. Len(s) \in Nat /\ Len(s) >= 1
  BY LenProperties
<1> DEFINE f == Front(s)
           w == Last(s)
           v == Last(f)
           l == leave_container(v, w)
<1>2. /\ f \in Seq(Iterators(d)) /\ Len(f) = Len(s) - 1 /\ \A k \in 1 .. Len(s) - 1 : f[k] = s[k]
      /\ w = s[Len(s)] /\ w \in Iterators(d)
  BY <1>1, FrontIs
<1>3. w.cur \in Nat
  BY <1>2, IteratorIs
<1>4. Len(f) >= 1 /\ v \in Iterators(d) /\ Len(f) \in Nat
  <2>1. Len(f) >= 1 /\ Len(f) \in Nat
    BY <1>1, <1>2
  <2>2. QED
    BY <1>2, <2>1, FrontIs
<1> HIDE DEF f, v, w
<1>5. l \in Iterators(d) /\ l.cur <= w.cur + 1
  BY <1>2, <1>4, LeaveIs
<1>6. l.cur \in Nat
  BY <1>5, IteratorIs
<1> HIDE DEF l
<1> DEFINE t == Append(Front(f), l)
<1>7. /\ t \in Seq(Iterators(d)) /\ Len(t) = Len(f)
      /\ \A k \in 1 .. Len(f) : t[k] = IF k = Len(f) THEN l ELSE f[k]
  <2>1. f \in Seq(Iterators(d)) /\ Len(f) >= 1 /\ l \in Iterators(d)
    BY <1>2, <1>4, <1>5
  <2>2. QED
    BY <2>1, ReplacedIs
<1>8. Returned(s) = t
  BY DEF Returned, f, v, w, l
<1> HIDE DEF t
<1>9. Len(f) \in 1 .. Len(f) /\ t[Len(f)] = l
  BY <1>4, <1>7
<1>10. \A k \in 1 .. Len(s) - 1 : k # Len(s) - 1 => t[k] = s[k]
  BY <1>2, <1>7
<1>11. QED
  BY <1>1, <1>2, <1>3, <1>5, <1>6, <1>7, <1>8, <1>9, <1>10

\* The bound of a parent is one byte further than that of its container.
LEMMA OneUp ==
  ASSUME NEW x \in Int, NEW y \in Int, NEW n \in Int, NEW e \in Int, NEW m \in Int,
         y <= x + 1, x <= e + (m - n)
  PROVE  y <= e + (m - (n - 1))
OBVIOUS

\* A nested call returns.
LEMMA ReturnedIs ==
  ASSUME NEW d \in Buffers, NEW s \in Stacks(d), Len(s) > 1
  PROVE  Returned(s) \in Stacks(d)
<1>1. /\ s \in Seq(Iterators(d)) /\ Len(s) \in Nat /\ Len(s) >= 1 /\ Len(s) <= 11 /\ Len(d) \in Nat
      /\ \A k \in 1 .. Len(s) : s[k] \in Iterators(d) /\ s[k].cur \in Nat /\ s[k].cur <= Len(d) + (11 - k)
  BY StackIs
<1> DEFINE t == Returned(s)
           n == Len(s)
<1>2. /\ t \in Seq(Iterators(d)) /\ Len(t) = n - 1
      /\ \A k \in 1 .. n - 1 : k # n - 1 => t[k] = s[k]
      /\ s[n].cur \in Nat /\ t[n - 1].cur \in Nat
      /\ t[n - 1].cur <= s[n].cur + 1
  BY <1>1, ReturnedTo
<1>3. n \in Nat /\ n > 1 /\ n <= 11 /\ n \in 1 .. n /\ s[n].cur <= Len(d) + (11 - n)
  BY <1>1
<1> HIDE DEF t, n
<1>4. Len(t) \in Nat /\ Len(t) >= 1 /\ Len(t) <= 11
  BY <1>2, <1>3
<1>5. ASSUME NEW k \in 1 .. Len(t) PROVE t[k].cur <= Len(d) + (11 - k)
  <2>1. k \in 1 .. n - 1 /\ k \in 1 .. n
    BY <1>2, <1>3
  <2>2. CASE k = n - 1
    <3> DEFINE x == s[n].cur
               y == t[n - 1].cur
               e == Len(d)
    <3>1. x \in Int /\ y \in Int /\ n \in Int /\ e \in Int /\ 11 \in Int
      BY <1>1, <1>2, <1>3
    <3>2. y <= x + 1 /\ x <= e + (11 - n)
      BY <1>2, <1>3
    <3> HIDE DEF x, y, e
    <3>3. y <= e + (11 - (n - 1))
      BY <3>1, <3>2, OneUp
    <3>4. QED
      BY <2>2, <3>3 DEF y, e
  <2>3. CASE k # n - 1
    BY <1>1, <1>2, <2>1, <2>3 DEF n
  <2>4. QED
    BY <2>2, <2>3
<1>6. QED
  BY <1>2, <1>4, <1>5, StackFrom DEF t

-----------------------------------------------------------------------------
\* The states of the loop in nanocbor_skip.
SkipStates(d) == [res : Int, levels : Stacks(d)]

\* The innermost call reads an item behind which it is at most at the end.
LEMMA OverIs ==
  ASSUME NEW d \in Buffers, NEW s \in Stacks(d), NEW i, Near(d, Last(s), i, 0)
  PROVE  Append(Front(s), i) \in Stacks(d)
<1>1. /\ s \in Seq(Iterators(d)) /\ Len(s) \in Nat /\ Len(s) >= 1 /\ Len(s) <= 11 /\ Len(d) \in Nat
      /\ \A k \in 1 .. Len(s) : s[k] \in Iterators(d) /\ s[k].cur \in Nat /\ s[k].cur <= Len(d) + (11 - k)
  BY StackIs
<1>2. Len(s) >= 1 /\ Len(s) \in 1 .. Len(s)
  BY <1>1
<1>3. Last(s) = s[Len(s)]
  BY <1>1, <1>2, FrontIs
<1>4. i \in Iterators(d) /\ i.cur \in Nat
  BY IteratorIs DEF Near
<1>5. i.cur <= Len(d) + (11 - Len(s))
  <2>1. CASE i = Last(s)
    BY <1>1, <1>2, <1>3, <2>1
  <2>2. CASE i.cur <= Len(d) + 0
    BY <1>1, <1>4, <2>2
  <2>3. QED
    BY <2>1, <2>2 DEF Near
<1> DEFINE t == Append(Front(s), i)
<1>6. /\ t \in Seq(Iterators(d)) /\ Len(t) = Len(s)
      /\ \A k \in 1 .. Len(s) : t[k] = IF k = Len(s) THEN i ELSE s[k]
  BY <1>1, <1>2, <1>4, ReplacedIs
<1> HIDE DEF t
<1>7. \A k \in 1 .. Len(t) : t[k].cur <= Len(d) + (11 - k)
  BY <1>1, <1>5, <1>6
<1>8. Len(t) \in Nat /\ Len(t) >= 1 /\ Len(t) <= 11
  BY <1>1, <1>6
<1>9. t \in Stacks(d)
  BY <1>6, <1>7, <1>8, StackFrom
<1>10. QED
  BY <1>9 DEF t

\* The innermost call enters a container.
LEMMA InsideIs ==
  ASSUME NEW d \in Buffers, NEW s \in Stacks(d), ~TooDeep(s), NEW i \in Iterators(d), i.cur <= Len(d)
  PROVE  Append(s, i) \in Stacks(d)
<1>1. /\ s \in Seq(Iterators(d)) /\ Len(s) \in Nat /\ Len(s) >= 1 /\ Len(s) <= 11 /\ Len(d) \in Nat
      /\ \A k \in 1 .. Len(s) : s[k] \in Iterators(d) /\ s[k].cur \in Nat /\ s[k].cur <= Len(d) + (11 - k)
  BY StackIs
<1>2. Len(s) \in Nat /\ Len(s) >= 1 /\ Len(s) <= 10
  BY <1>1 DEF TooDeep, NANOCBOR_RECURSION_MAX
<1>3. i.cur \in Nat
  BY IteratorIs
<1> DEFINE t == Append(s, i)
<1>4. /\ t \in Seq(Iterators(d)) /\ Len(t) = Len(s) + 1
      /\ \A k \in 1 .. Len(s) : t[k] = s[k]
      /\ t[Len(s) + 1] = i
  BY <1>1, AppendProperties
<1> HIDE DEF t
<1>5. ASSUME NEW k \in 1 .. Len(t) PROVE t[k].cur <= Len(d) + (11 - k)
  <2>1. CASE k \in 1 .. Len(s)
    BY <1>1, <1>4, <2>1
  <2>2. CASE k = Len(s) + 1
    <3>1. k \in Int /\ Len(d) + (11 - k) >= Len(d)
      BY <1>1, <1>2, <2>2
    <3>2. i.cur <= Len(d) + (11 - k)
      BY <1>1, <1>3, <3>1
    <3>3. QED
      BY <1>4, <2>2, <3>2
  <2>3. QED
    BY <1>2, <1>4, <2>1, <2>2
<1>6. Len(t) \in Nat /\ Len(t) >= 1 /\ Len(t) <= 11
  BY <1>2, <1>4
<1>7. t \in Stacks(d)
  BY <1>4, <1>5, <1>6, StackFrom
<1>8. QED
  BY <1>7 DEF t

\* One step of the nested calls.
LEMMA StepIs ==
  ASSUME NEW d \in Buffers, NEW s \in Stacks(d)
  PROVE  skip_step(d, s) \in SkipStates(d)
<1> DEFINE v == Last(s)
           r == skip_step(d, s)
           type == get_type(d, v)
           m == enter_map(d, v)
           a == enter_array(d, v)
           str == get_str(d, v, type)
           simple == skip_simple(d, v)
<1>1. v \in Iterators(d) /\ Len(s) \in Nat /\ Len(s) >= 1 /\ Len(s) <= 11
  <2>1. s \in Seq(Iterators(d)) /\ Len(s) \in Nat /\ Len(s) >= 1 /\ Len(s) <= 11
    BY StackIs
  <2>2. Len(s) >= 1
    BY <2>1
  <2>3. QED
    BY <2>1, <2>2, FrontIs
<1>2. /\ Opened(d, m) /\ Opened(d, a)
      /\ Near(d, v, str.it, 0) /\ str.res \in Int
      /\ Near(d, v, simple.it, 0) /\ simple.res \in Int
  <2>1. str.res \in {0, -3}
    BY <1>1, StrIs
  <2>2. str.res \in Int
    BY <2>1
  <2>3. QED
    BY <1>1, <2>2, MapIs, ArrayIs, StrIs, SimpleIs
<1>3. type \in Int
  BY <1>1, TypeIs
<1>4. CASE Len(s) > 1 /\ at_end(d, v)
  <2>1. r = [res |-> 0, levels |-> Returned(s)]
    BY <1>4 DEF skip_step, NANOCBOR_OK
  <2>2. Returned(s) \in Stacks(d)
    BY <1>4, ReturnedIs
  <2>3. QED
    BY <2>1, <2>2 DEF SkipStates
<1>5. CASE ~(Len(s) > 1 /\ at_end(d, v)) /\ TooDeep(s)
  <2>1. r = [res |-> -4, levels |-> s]
    BY <1>5 DEF skip_step, NANOCBOR_ERR_RECURSION
  <2>2. QED
    BY <2>1 DEF SkipStates
<1>6. CASE ~(Len(s) > 1 /\ at_end(d, v)) /\ ~TooDeep(s)
  <2>1. r = CASE type < 0 -> [res |-> type, levels |-> s]
              [] type = MAP -> IF m.res < 0 THEN [res |-> m.res, levels |-> s]
                               ELSE [res |-> m.res, levels |-> Append(s, m.it)]
              [] type = ARR -> IF a.res < 0 THEN [res |-> a.res, levels |-> s]
                               ELSE [res |-> a.res, levels |-> Append(s, a.it)]
              [] type \in {BSTR, TSTR} -> [res |-> str.res, levels |-> Append(Front(s), str.it)]
              [] OTHER -> [res |-> simple.res, levels |-> Append(Front(s), simple.it)]
    BY <1>6 DEF skip_step
  <2> HIDE DEF r, type, m, a, str, simple
  <2>2. /\ Append(Front(s), str.it) \in Stacks(d)
        /\ Append(Front(s), simple.it) \in Stacks(d)
    BY <1>2, OverIs DEF v
  <2>3. /\ m.res >= 0 => Append(s, m.it) \in Stacks(d)
        /\ a.res >= 0 => Append(s, a.it) \in Stacks(d)
    BY <1>2, <1>6, InsideIs DEF Opened
  <2>4. m.res \in Int /\ a.res \in Int
    BY <1>2 DEF Opened
  <2> HIDE DEF v
  <2>5. CASE type < 0
    <3>1. r = [res |-> type, levels |-> s]
      BY <1>3, <2>1, <2>5 DEF MAP, ARR, BSTR, TSTR
    <3>2. QED
      BY <1>3, <3>1 DEF SkipStates, r
  <2>6. CASE type = MAP
    <3>1. r \in {[res |-> m.res, levels |-> s], [res |-> m.res, levels |-> Append(s, m.it)]}
          /\ (m.res < 0 => r = [res |-> m.res, levels |-> s])
      BY <1>3, <2>1, <2>6 DEF MAP, ARR, BSTR, TSTR
    <3>2. CASE m.res < 0
      BY <2>4, <3>1, <3>2 DEF SkipStates, r
    <3>3. CASE m.res >= 0
      <4>1. Append(s, m.it) \in Stacks(d)
        BY <2>3, <3>3
      <4>2. PICK t \in Stacks(d) : r = [res |-> m.res, levels |-> t]
        BY <3>1, <4>1
      <4>3. QED
        BY <2>4, <4>2 DEF SkipStates, r
    <3>4. QED
      BY <2>4, <3>2, <3>3
  <2>7. CASE type = ARR
    <3>1. r \in {[res |-> a.res, levels |-> s], [res |-> a.res, levels |-> Append(s, a.it)]}
          /\ (a.res < 0 => r = [res |-> a.res, levels |-> s])
      BY <1>3, <2>1, <2>7 DEF MAP, ARR, BSTR, TSTR
    <3>2. CASE a.res < 0
      BY <2>4, <3>1, <3>2 DEF SkipStates, r
    <3>3. CASE a.res >= 0
      <4>1. Append(s, a.it) \in Stacks(d)
        BY <2>3, <3>3
      <4>2. PICK t \in Stacks(d) : r = [res |-> a.res, levels |-> t]
        BY <3>1, <4>1
      <4>3. QED
        BY <2>4, <4>2 DEF SkipStates, r
    <3>4. QED
      BY <2>4, <3>2, <3>3
  <2>8. CASE type \in {BSTR, TSTR}
    <3>1. r = [res |-> str.res, levels |-> Append(Front(s), str.it)]
      BY <1>3, <2>1, <2>8 DEF MAP, ARR, BSTR, TSTR
    <3>2. QED
      BY <1>2, <2>2, <3>1 DEF SkipStates, r
  <2>9. CASE ~(type < 0) /\ type \notin {MAP, ARR, BSTR, TSTR}
    <3>1. r = [res |-> simple.res, levels |-> Append(Front(s), simple.it)]
      BY <2>1, <2>9
    <3>2. QED
      BY <1>2, <2>2, <3>1 DEF SkipStates, r
  <2>10. QED
    BY <2>5, <2>6, <2>7, <2>8, <2>9
<1>7. QED
  BY <1>4, <1>5, <1>6

\* One round of the loop.
LEMMA RoundIs ==
  ASSUME NEW d \in Buffers, NEW s \in SkipStates(d)
  PROVE  skip_round(d, s) \in SkipStates(d)
<1>1. s.res \in Int /\ s.levels \in Stacks(d)
  BY DEF SkipStates
<1>2. Len(s.levels) \in Nat /\ Len(s.levels) >= 1 /\ Len(s.levels) <= 11
  BY <1>1, StackIs
<1>3. CASE Len(s.levels) = 1
  BY <1>3 DEF skip_round
<1>4. CASE Len(s.levels) # 1 /\ s.res < 0
  <2>1. Returned(s.levels) \in Stacks(d)
    <3> DEFINE n == Len(s.levels)
    <3>0. n \in Nat /\ n >= 1 /\ n # 1
      BY <1>2, <1>4
    <3> HIDE DEF n
    <3>1. n > 1
      BY <3>0
    <3>2. QED
      BY <1>1, <3>1, ReturnedIs DEF n
  <2>2. skip_round(d, s) = [s EXCEPT !.levels = Returned(s.levels)]
    BY <1>4 DEF skip_round
  <2>3. QED
    BY <2>1, <2>2 DEF SkipStates
<1>5. CASE Len(s.levels) # 1 /\ ~(s.res < 0)
  <2>1. skip_round(d, s) = skip_step(d, s.levels)
    BY <1>5 DEF skip_round
  <2>2. QED
    BY <1>1, <2>1, StepIs
<1>6. QED
  BY <1>3, <1>4, <1>5
-----------------------------------------------------------------------------
\* A set of numbers has a least one.
LEMMA LeastNumber ==
  ASSUME NEW T, T \subseteq Nat, T # {}
  PROVE  \E m \in T : \A k \in T : m <= k
<1> DEFINE R == OpToRel(<, Nat)
<1>1. IsWellFoundedOn(R, Nat)
  BY NatLessThanWellFounded
<1>2. R = { ss \in Nat \X Nat : ss[1] < ss[2] }
  BY DEF OpToRel
<1> HIDE DEF R
<1>3. PICK m \in T : \A k \in T : ~(<<k, m>> \in R)
  BY <1>1, WFMin
<1>4. ASSUME NEW k \in T PROVE m <= k
  <2>1. <<k, m>> \in Nat \X Nat /\ <<k, m>>[1] = k /\ <<k, m>>[2] = m
    OBVIOUS
  <2>2. ~(k < m)
    BY <1>2, <1>3, <2>1
  <2>3. QED
    BY <2>2
<1>5. QED
  BY <1>4

\* Induction, for a set of numbers.
LEMMA AllNumbers ==
  ASSUME NEW S, 0 \in S, \A n \in Nat : n \in S => n + 1 \in S
  PROVE  \A n \in Nat : n \in S
<1> SUFFICES ASSUME NEW n \in Nat, n \notin S PROVE FALSE
  OBVIOUS
<1> DEFINE T == { k \in Nat : k \notin S }
<1>1. PICK m \in T : \A k \in T : m <= k
  BY LeastNumber
<1>2. m \in Nat /\ m # 0 /\ m - 1 \in Nat /\ m \notin S
  BY <1>1
<1>3. m - 1 \in S
  BY <1>1, <1>2
<1>4. (m - 1) + 1 = m
  BY <1>2
<1>5. QED
  BY <1>2, <1>3, <1>4

\* The states f of a loop that begins in z, after each of N rounds F.
LoopOf(f, z, F, N) == f = [n \in 0 .. N |-> IF n = 0 THEN z ELSE F[f[n - 1]]]

\* A loop whose round F keeps its states in S has a state after each of N
\* rounds, and all of them are in S.
LEMMA LoopIs ==
  ASSUME NEW S, NEW z \in S, NEW F \in [S -> S], NEW N \in Nat
  PROVE  \E f \in [0 .. N -> S] : LoopOf(f, z, F, N)
<1> DEFINE Good(m, f) == f = [n \in 0 .. m |-> IF n = 0 THEN z ELSE F[f[n - 1]]]
           T == { m \in Nat : \E f \in [0 .. m -> S] : Good(m, f) }
<1>1. 0 \in T
  <2> DEFINE f == [n \in 0 .. 0 |-> z]
  <2>1. f \in [0 .. 0 -> S] /\ Good(0, f)
    OBVIOUS
  <2> HIDE DEF f, Good
  <2>2. QED
    BY <2>1
<1>2. ASSUME NEW m \in Nat, m \in T PROVE m + 1 \in T
  <2>1. PICK f \in [0 .. m -> S] : Good(m, f)
    BY <1>2
  <2> DEFINE g == [n \in 0 .. m + 1 |-> IF n <= m THEN f[n] ELSE F[f[m]]]
  <2>2. f[m] \in S /\ F[f[m]] \in S
    <3>1. m \in 0 .. m
      OBVIOUS
    <3>2. f[m] \in S
      BY <3>1
    <3>3. QED
      BY <3>2
  <2>3. g \in [0 .. m + 1 -> S]
    <3>1. ASSUME NEW n \in 0 .. m + 1 PROVE (IF n <= m THEN f[n] ELSE F[f[m]]) \in S
      <4>1. n <= m => n \in 0 .. m
        OBVIOUS
      <4>2. n \in 0 .. m => f[n] \in S
        OBVIOUS
      <4>3. QED
        BY <2>2, <4>1, <4>2
    <3>2. QED
      BY <3>1
  <2>4. ASSUME NEW n \in 0 .. m + 1
        PROVE  g[n] = IF n = 0 THEN z ELSE F[g[n - 1]]
    <3>1. CASE n = 0
      BY <2>1, <3>1
    <3>2. CASE n \in 1 .. m
      <4>1. n \in 0 .. m /\ n - 1 \in 0 .. m + 1 /\ n - 1 <= m /\ n # 0 /\ n <= m
        BY <3>2
      <4>2. f[n] = F[f[n - 1]]
        BY <2>1, <4>1
      <4>3. g[n] = f[n] /\ g[n - 1] = f[n - 1]
        BY <4>1
      <4>4. QED
        BY <4>1, <4>2, <4>3
    <3>3. CASE n = m + 1
      <4>1. n # 0 /\ n - 1 = m /\ m \in 0 .. m + 1 /\ m <= m /\ ~(n <= m)
        BY <3>3
      <4>2. g[n] = F[f[m]] /\ g[m] = f[m]
        BY <4>1
      <4>3. QED
        BY <3>3, <4>1, <4>2
    <3>4. QED
      BY <3>1, <3>2, <3>3
  <2>5. g = [n \in 0 .. m + 1 |-> g[n]]
    OBVIOUS
  <2> HIDE DEF g
  <2>6. Good(m + 1, g)
    BY <2>4, <2>5
  <2> HIDE DEF Good
  <2>7. QED
    BY <2>3, <2>6
<1>3. N \in T
  <2> HIDE DEF T
  <2>1. \A m \in Nat : m \in T
    BY <1>1, <1>2, AllNumbers
  <2>2. QED
    BY <2>1
<1>4. QED
  BY <1>3 DEF LoopOf

\* The loop of nanocbor_skip.
LEMMA SkipLimitedIs ==
  ASSUME NEW d \in Buffers, NEW v \in Iterators(d), v.cur <= Len(d) + 10
  PROVE  LET a == skip_limited(d, v)
             N == SkipRounds(d)
         IN  /\ N \in Nat /\ DOMAIN a = 0 .. N
             /\ \A n \in DOMAIN a : a[n] \in SkipStates(d)
             /\ a[0] = skip_step(d, <<v>>)
             /\ \A n \in 0 .. N - 1 : a[n + 1] = skip_round(d, a[n])
<1> DEFINE S == SkipStates(d)
           N == SkipRounds(d)
           z == skip_step(d, <<v>>)
           F == [s \in S |-> skip_round(d, s)]
           a == skip_limited(d, v)
<1>1. N \in Nat
  <2>1. Len(d) \in Nat
    BY LenProperties
  <2>2. QED
    BY <2>1 DEF SkipRounds
<1>2. <<v>> \in Stacks(d)
  <2>1. <<v>> \in Seq(Iterators(d)) /\ Len(<<v>>) = 1 /\ <<v>>[1] = v
    OBVIOUS
  <2>2. \A k \in 1 .. 1 : k = 1 /\ 11 - k = 10
    OBVIOUS
  <2> DEFINE s == <<v>>
  <2> HIDE DEF s
  <2>3. s \in Seq(Iterators(d)) /\ Len(s) = 1 /\ s[1] = v
    BY <2>1 DEF s
  <2>4. \A k \in 1 .. Len(s) : s[k].cur <= Len(d) + (11 - k)
    BY <2>2, <2>3
  <2>5. Len(s) \in Nat /\ Len(s) >= 1 /\ Len(s) <= 11
    BY <2>3
  <2>6. s \in Stacks(d)
    BY <2>3, <2>4, <2>5, StackFrom
  <2>7. QED
    BY <2>6 DEF s
<1>3. z \in S
  BY <1>2, StepIs
<1>4. F \in [S -> S]
  BY RoundIs
<1>5. a = CHOOSE f : f = [n \in 0 .. N |-> IF n = 0 THEN z ELSE skip_round(d, f[n - 1])]
  BY DEF skip_limited
<1>6. \E f \in [0 .. N -> S] : LoopOf(f, z, F, N)
  <2> HIDE DEF S, N, z, F
  <2>1. QED
    BY <1>1, <1>3, <1>4, LoopIs
<1>7. \E f : f = [n \in 0 .. N |-> IF n = 0 THEN z ELSE skip_round(d, f[n - 1])]
  <2>1. PICK f \in [0 .. N -> S] : f = [n \in 0 .. N |-> IF n = 0 THEN z ELSE F[f[n - 1]]]
    BY <1>6 DEF LoopOf
  <2> HIDE DEF N, z, S
  <2>2. ASSUME NEW n \in 0 .. N, n # 0 PROVE F[f[n - 1]] = skip_round(d, f[n - 1])
    <3>1. n - 1 \in 0 .. N
      BY <1>1, <2>2
    <3>2. f[n - 1] \in S
      BY <3>1
    <3>3. QED
      BY <3>2
  <2> HIDE DEF F
  <2>3. f = [n \in 0 .. N |-> IF n = 0 THEN z ELSE skip_round(d, f[n - 1])]
    BY <2>1, <2>2
  <2>4. QED
    BY <2>3
<1> HIDE DEF N, z, F, a
<1>8. a = [n \in 0 .. N |-> IF n = 0 THEN z ELSE skip_round(d, a[n - 1])]
  BY <1>5, <1>7
<1> DEFINE T == { n \in Nat : n <= N => a[n] \in S }
<1>9. 0 \in T
  BY <1>1, <1>3, <1>8
<1>10. ASSUME NEW n \in Nat, n \in T PROVE n + 1 \in T
  <2>1. CASE n + 1 <= N
    <3>1. n <= N /\ n + 1 \in 0 .. N /\ n + 1 # 0 /\ (n + 1) - 1 = n
      BY <1>1, <2>1
    <3>2. a[n] \in S /\ a[n + 1] = skip_round(d, a[n])
      BY <1>8, <1>10, <3>1
    <3>3. a[n + 1] \in S
      BY <3>2, RoundIs
    <3>4. QED
      BY <3>3
  <2>2. CASE ~(n + 1 <= N)
    BY <2>2
  <2>3. QED
    BY <2>1, <2>2
<1>11. \A n \in Nat : n \in T
  <2> HIDE DEF T
  <2>1. QED
    BY <1>9, <1>10, AllNumbers
<1>12. DOMAIN a = 0 .. N
  BY <1>8
<1>13. a[0] = z
  BY <1>1, <1>8
<1>14. ASSUME NEW n \in 0 .. N - 1 PROVE a[n + 1] = skip_round(d, a[n])
  <2>1. n + 1 \in 0 .. N /\ n + 1 # 0 /\ (n + 1) - 1 = n
    BY <1>1
  <2>2. QED
    BY <1>8, <2>1
<1>15. \A n \in DOMAIN a : a[n] \in S
  BY <1>1, <1>11, <1>12
<1>16. QED
  BY <1>1, <1>12, <1>13, <1>14, <1>15 DEF a, N, z

\* nanocbor_skip: the iterator it leaves is at most ten bytes behind the end.
LEMMA SkipIs ==
  ASSUME NEW d \in Buffers, NEW v \in Iterators(d), v.cur <= Len(d) + 10
  PROVE  /\ skip(d, v).it \in Iterators(d)
         /\ skip(d, v).it.cur <= Len(d) + 10
         /\ skip(d, v).res \in Int
         /\ skip(d, v).res <= 0
<1> DEFINE a == skip_limited(d, v)
           Over(n) == Len(a[n].levels) = 1
           Final(s) == [res |-> IF s.res < 0 THEN s.res ELSE NANOCBOR_OK, it |-> Head(s.levels)]
           r == skip(d, v)
<1>1. r = IF \E n \in DOMAIN a : Over(n) THEN Final(a[CHOOSE n \in DOMAIN a : Over(n)])
          ELSE [res |-> ENDLESS, it |-> v]
  BY DEF skip
<1>2. \A n \in DOMAIN a : a[n] \in SkipStates(d)
  BY SkipLimitedIs
<1> HIDE DEF a, Final, r
<1>3. CASE \E n \in DOMAIN a : Over(n)
  <2>1. PICK n \in DOMAIN a : Over(n) /\ r = Final(a[n])
    BY <1>1, <1>3
  <2> DEFINE s == a[n]
  <2>2. s.res \in Int /\ s.levels \in Stacks(d) /\ Len(s.levels) = 1
    BY <1>2, <2>1 DEF SkipStates
  <2> HIDE DEF s
  <2> DEFINE l == s.levels
  <2>3. /\ l \in Seq(Iterators(d)) /\ Len(l) = 1 /\ Len(d) \in Nat
        /\ \A k \in 1 .. Len(l) : l[k] \in Iterators(d) /\ l[k].cur \in Nat /\ l[k].cur <= Len(d) + (11 - k)
    BY <2>2, StackIs
  <2> HIDE DEF l
  <2>4. 1 \in 1 .. Len(l) /\ 11 - 1 = 10
    BY <2>3
  <2>5. Head(l) = l[1]
    BY <2>3
  <2>6. l[1] \in Iterators(d) /\ l[1].cur <= Len(d) + 10
    BY <2>3, <2>4
  <2>7. r.it = Head(l) /\ r.res = IF s.res < 0 THEN s.res ELSE 0
    BY <2>1 DEF Final, s, l, NANOCBOR_OK
  <2>8. r.res \in Int /\ r.res <= 0
    BY <2>2, <2>7
  <2>9. QED
    BY <2>5, <2>6, <2>7, <2>8 DEF r
<1>4. CASE ~ \E n \in DOMAIN a : Over(n)
  <2>1. r.res = -6 /\ r.it = v
    BY <1>1, <1>4 DEF ENDLESS
  <2>2. QED
    BY <2>1 DEF r
<1>5. QED
  BY <1>3, <1>4
-----------------------------------------------------------------------------
\* The states of the loop in nanocbor_get_key_tstr: when it stops with success
\* it is behind the key, or no item is left.
KeyStates(d, key) ==
  { s \in [res : Int, it : Iterators(d), more : BOOLEAN] :
      /\ s.it.cur <= Len(d) + 10
      /\ ~s.more /\ s.res = 0 => at_end(d, s.it) \/ TextBefore(d, s.it.cur, key) }

\* A string that is the key lies behind a head that declares its length.
LEMMA KeyFound ==
  ASSUME NEW d \in Buffers, NEW v \in Iterators(d), NEW key \in Buffers,
         get_tstr(d, v).res = 0, SameKey(d, get_tstr(d, v), key)
  PROVE  TextBefore(d, get_tstr(d, v).it.cur, key)
<1> DEFINE r == get_tstr(d, v)
           i == r.it.cur
           head == r.buf - v.cur
           start == i - Len(key) - head
<1>1. /\ i = r.buf + r.len /\ r.len \in Int /\ head \in 1 .. 9 /\ r.buf \in Nat
      /\ Byte(d, v.cur) \div 32 = TSTR
      /\ HeadLen(d, v.cur) = head
      /\ HeadValue(d, v.cur) = r.len
  BY StrIs DEF get_tstr
<1>2. r.len = Len(key) /\ SubSeq(d, r.buf + 1, r.buf + r.len) = key
  BY DEF SameKey
<1>3. v.cur \in Nat /\ Len(key) \in Nat
  BY IteratorIs, LenProperties
<1> HIDE DEF r
<1>4. start = v.cur /\ i - Len(key) + 1 = r.buf + 1 /\ i = r.buf + r.len /\ start >= 0
  <2>1. \A b, l, c \in Int : (b + l) - l - (b - c) = c /\ (b + l) - l + 1 = b + 1
    OBVIOUS
  <2>2. r.buf \in Int /\ Len(key) \in Int /\ v.cur \in Int /\ v.cur >= 0 /\ i = r.buf + Len(key)
    BY <1>1, <1>2, <1>3
  <2> HIDE DEF i
  <2>3. start = v.cur /\ i - Len(key) + 1 = r.buf + 1
    BY <2>1, <2>2
  <2>4. QED
    BY <1>1, <2>2, <2>3 DEF i
<1>5. SubSeq(d, i - Len(key) + 1, i) = key
  BY <1>2, <1>4
<1> HIDE DEF head, i
<1>6. QED
  BY <1>1, <1>2, <1>4, <1>5 DEF TextBefore, i, r

\* One round of the loop over the keys.
LEMMA KeyRoundIs ==
  ASSUME NEW d \in Buffers, NEW key \in Buffers, NEW s \in KeyStates(d, key)
  PROVE  key_round(d, key, s) \in KeyStates(d, key)
<1> DEFINE str == get_tstr(d, s.it)
           val == skip(d, str.it)
           r == key_round(d, key, s)
<1>1. /\ s.res \in Int /\ s.it \in Iterators(d) /\ s.more \in BOOLEAN /\ s.it.cur <= Len(d) + 10
      /\ s = [res |-> s.res, it |-> s.it, more |-> s.more] /\ Len(d) \in Nat
  BY LenProperties DEF KeyStates
<1>2. r = IF ~s.more THEN s
          ELSE IF at_end(d, s.it) THEN [res |-> s.res, it |-> s.it, more |-> FALSE]
          ELSE IF str.res < 0 THEN [res |-> str.res, it |-> str.it, more |-> FALSE]
          ELSE IF SameKey(d, str, key) THEN [res |-> 0, it |-> str.it, more |-> FALSE]
          ELSE IF val.res < 0 THEN [res |-> val.res, it |-> val.it, more |-> FALSE]
          ELSE [res |-> val.res, it |-> val.it, more |-> TRUE]
  BY DEF key_round, NANOCBOR_OK
<1>3. str.res \in {0, -3} /\ Near(d, s.it, str.it, 0)
  BY <1>1, StrIs DEF get_tstr
<1>4. str.res \in Int /\ str.it \in Iterators(d) /\ str.it.cur \in Nat /\ s.it.cur \in Nat
  BY <1>1, <1>3, IteratorIs DEF Near
<1>5. str.it.cur <= Len(d) + 10
  BY <1>1, <1>3, <1>4 DEF Near
<1>6. val.it \in Iterators(d) /\ val.it.cur <= Len(d) + 10 /\ val.res \in Int
  BY <1>4, <1>5, SkipIs
<1>7. str.res = 0 /\ SameKey(d, str, key) => TextBefore(d, str.it.cur, key)
  BY <1>1, KeyFound
<1> HIDE DEF str, val, r
<1>8. CASE ~s.more
  BY <1>2, <1>8 DEF r
<1>9. CASE s.more /\ at_end(d, s.it)
  <2>1. r = [res |-> s.res, it |-> s.it, more |-> FALSE]
    BY <1>2, <1>9
  <2>2. QED
    BY <1>1, <1>9, <2>1 DEF KeyStates, r
<1>10. CASE s.more /\ ~at_end(d, s.it) /\ str.res < 0
  <2>1. r = [res |-> str.res, it |-> str.it, more |-> FALSE]
    BY <1>2, <1>10
  <2>2. str.res # 0
    BY <1>3, <1>10
  <2>3. QED
    BY <1>4, <1>5, <2>1, <2>2 DEF KeyStates, r
<1>11. CASE s.more /\ ~at_end(d, s.it) /\ ~(str.res < 0) /\ SameKey(d, str, key)
  <2>1. r = [res |-> 0, it |-> str.it, more |-> FALSE]
    BY <1>2, <1>11
  <2>2. str.res = 0
    BY <1>3, <1>11
  <2>3. TextBefore(d, str.it.cur, key)
    BY <1>7, <1>11, <2>2
  <2>4. QED
    BY <1>4, <1>5, <2>1, <2>3 DEF KeyStates, r
<1>12. CASE s.more /\ ~at_end(d, s.it) /\ ~(str.res < 0) /\ ~SameKey(d, str, key)
  <2>1. CASE val.res < 0
    <3>1. r = [res |-> val.res, it |-> val.it, more |-> FALSE]
      BY <1>2, <1>12, <2>1
    <3>2. val.res # 0
      BY <1>6, <2>1
    <3>3. QED
      BY <1>6, <3>1, <3>2 DEF KeyStates, r
  <2>2. CASE ~(val.res < 0)
    <3>1. r = [res |-> val.res, it |-> val.it, more |-> TRUE]
      BY <1>2, <1>12, <2>2
    <3>2. QED
      BY <1>6, <3>1 DEF KeyStates, r
  <2>3. QED
    BY <2>1, <2>2
<1>13. QED
  BY <1>1, <1>8, <1>9, <1>10, <1>11, <1>12

\* The loop of nanocbor_get_key_tstr.
LEMMA KeyLoopIs ==
  ASSUME NEW d \in Buffers, NEW key \in Buffers, NEW v \in Iterators(d), v.cur <= Len(d) + 10
  PROVE  LET a == key_loop(d, v, key)
             N == KeyRounds(d)
         IN  /\ N \in Nat /\ DOMAIN a = 0 .. N
             /\ \A n \in DOMAIN a : a[n] \in KeyStates(d, key)
             /\ a[0] = [res |-> NANOCBOR_NOT_FOUND, it |-> v, more |-> TRUE]
             /\ \A n \in 0 .. N - 1 : a[n + 1] = key_round(d, key, a[n])
<1> DEFINE S == KeyStates(d, key)
           N == KeyRounds(d)
           z == [res |-> NANOCBOR_NOT_FOUND, it |-> v, more |-> TRUE]
           F == [s \in S |-> key_round(d, key, s)]
           a == key_loop(d, v, key)
<1>1. N \in Nat
  <2>1. Len(d) \in Nat
    BY LenProperties
  <2>2. QED
    BY <2>1 DEF KeyRounds
<1>3. z \in S
  BY DEF KeyStates, NANOCBOR_NOT_FOUND
<1>4. F \in [S -> S]
  BY KeyRoundIs
<1>5. a = CHOOSE f : f = [n \in 0 .. N |-> IF n = 0 THEN z ELSE key_round(d, key, f[n - 1])]
  BY DEF key_loop
<1>6. \E f \in [0 .. N -> S] : LoopOf(f, z, F, N)
  <2> HIDE DEF S, N, z, F
  <2>1. QED
    BY <1>1, <1>3, <1>4, LoopIs
<1>7. \E f : f = [n \in 0 .. N |-> IF n = 0 THEN z ELSE key_round(d, key, f[n - 1])]
  <2>1. PICK f \in [0 .. N -> S] : f = [n \in 0 .. N |-> IF n = 0 THEN z ELSE F[f[n - 1]]]
    BY <1>6 DEF LoopOf
  <2> HIDE DEF N, z, S
  <2>2. ASSUME NEW n \in 0 .. N, n # 0 PROVE F[f[n - 1]] = key_round(d, key, f[n - 1])
    <3>1. n - 1 \in 0 .. N
      BY <1>1, <2>2
    <3>2. f[n - 1] \in S
      BY <3>1
    <3>3. QED
      BY <3>2
  <2> HIDE DEF F
  <2>3. f = [n \in 0 .. N |-> IF n = 0 THEN z ELSE key_round(d, key, f[n - 1])]
    BY <2>1, <2>2
  <2>4. QED
    BY <2>3
<1> HIDE DEF N, z, F, a
<1>8. a = [n \in 0 .. N |-> IF n = 0 THEN z ELSE key_round(d, key, a[n - 1])]
  BY <1>5, <1>7
<1> DEFINE T == { n \in Nat : n <= N => a[n] \in S }
<1>9. 0 \in T
  BY <1>1, <1>3, <1>8
<1>10. ASSUME NEW n \in Nat, n \in T PROVE n + 1 \in T
  <2>1. CASE n + 1 <= N
    <3>1. n <= N /\ n + 1 \in 0 .. N /\ n + 1 # 0 /\ (n + 1) - 1 = n
      BY <1>1, <2>1
    <3>2. a[n] \in S /\ a[n + 1] = key_round(d, key, a[n])
      BY <1>8, <1>10, <3>1
    <3>3. a[n + 1] \in S
      BY <3>2, KeyRoundIs
    <3>4. QED
      BY <3>3
  <2>2. CASE ~(n + 1 <= N)
    BY <2>2
  <2>3. QED
    BY <2>1, <2>2
<1>11. \A n \in Nat : n \in T
  <2> HIDE DEF T
  <2>1. QED
    BY <1>9, <1>10, AllNumbers
<1>12. DOMAIN a = 0 .. N /\ a[0] = z
  BY <1>1, <1>8
<1>13. ASSUME NEW n \in 0 .. N - 1 PROVE a[n + 1] = key_round(d, key, a[n])
  <2>1. n + 1 \in 0 .. N /\ n + 1 # 0 /\ (n + 1) - 1 = n
    BY <1>1
  <2>2. QED
    BY <1>8, <2>1
<1>14. QED
  BY <1>1, <1>11, <1>12, <1>13 DEF a, z, N

\* nanocbor_get_key_tstr.
LEMMA KeyIs ==
  ASSUME NEW d \in Buffers, NEW key \in Buffers, NEW v \in Iterators(d), v.cur <= Len(d) + 10
  PROVE  LET r == get_key_tstr(d, v, key)
         IN  /\ r.it \in Iterators(d)
             /\ r.it.cur <= Len(d) + 10
             /\ r.res = 0 => at_end(d, r.it) \/ TextBefore(d, r.it.cur, key)
<1> DEFINE a == key_loop(d, v, key)
           Over(n) == ~a[n].more
           Final(s) == [res |-> s.res, it |-> s.it]
           r == get_key_tstr(d, v, key)
<1>1. r = IF \E n \in DOMAIN a : Over(n) THEN Final(a[CHOOSE n \in DOMAIN a : Over(n)])
          ELSE [res |-> ENDLESS, it |-> v]
  BY DEF get_key_tstr, Stopped
<1>2. \A n \in DOMAIN a : a[n] \in KeyStates(d, key)
  BY KeyLoopIs
<1> HIDE DEF a, Final, r
<1>3. CASE \E n \in DOMAIN a : Over(n)
  <2>1. PICK n \in DOMAIN a : Over(n) /\ r = Final(a[n])
    BY <1>1, <1>3
  <2> DEFINE s == a[n]
  <2>2. s \in KeyStates(d, key) /\ ~s.more
    BY <1>2, <2>1
  <2>3. r.it = s.it /\ r.res = s.res
    BY <2>1 DEF Final
  <2> HIDE DEF s
  <2>4. QED
    BY <2>2, <2>3 DEF KeyStates, r
<1>4. CASE ~ \E n \in DOMAIN a : Over(n)
  <2>1. r.res = -6 /\ r.it = v
    BY <1>1, <1>4 DEF ENDLESS
  <2>2. QED
    BY <2>1 DEF r
<1>5. QED
  BY <1>3, <1>4
-----------------------------------------------------------------------------
\* The run of nanocbor_skip from v: what SkipLimitedIs says of each round.
LEMMA RunIs ==
  ASSUME NEW d \in Buffers, NEW v \in Iterators(d), v.cur <= Len(d) + 10,
         NEW n \in 0 .. SkipRounds(d)
  PROVE  LET a == skip_limited(d, v)
         IN  /\ SkipRounds(d) \in Nat /\ n \in Nat /\ n \in DOMAIN a
             /\ a[n].res \in Int /\ a[n].levels \in Stacks(d)
             /\ a[n] = [res |-> a[n].res, levels |-> a[n].levels]
             /\ Len(a[n].levels) \in Nat /\ Len(a[n].levels) >= 1
<1> DEFINE a == skip_limited(d, v)
<1>1. SkipRounds(d) \in Nat /\ DOMAIN a = 0 .. SkipRounds(d) /\ \A k \in DOMAIN a : a[k] \in SkipStates(d)
  BY SkipLimitedIs
<1> HIDE DEF a
<1>2. a[n] \in SkipStates(d)
  BY <1>1
<1>3. a[n].res \in Int /\ a[n].levels \in Stacks(d) /\ a[n] = [res |-> a[n].res, levels |-> a[n].levels]
  BY <1>2 DEF SkipStates
<1>4. Len(a[n].levels) \in Nat /\ Len(a[n].levels) >= 1
  BY <1>3, StackIs
<1>5. QED
  BY <1>1, <1>3, <1>4 DEF a

\* Once the outermost call is the only one left, the loop is over.
LEMMA OverStays ==
  ASSUME NEW d \in Buffers, NEW v \in Iterators(d), v.cur <= Len(d) + 10,
         NEW m \in 0 .. SkipRounds(d), Len(skip_limited(d, v)[m].levels) = 1
  PROVE  \A n \in 0 .. SkipRounds(d) : n >= m => skip_limited(d, v)[n] = skip_limited(d, v)[m]
<1> DEFINE a == skip_limited(d, v)
           N == SkipRounds(d)
           T == { n \in Nat : m + n <= N => a[m + n] = a[m] }
<1>1. N \in Nat /\ \A n \in 0 .. N - 1 : a[n + 1] = skip_round(d, a[n])
  BY SkipLimitedIs
<1>2. Len(a[m].levels) = 1
  OBVIOUS
<1> HIDE DEF a, N
<1>3. 0 \in T
  <2>1. m + 0 = m
    BY <1>1 DEF N
  <2>2. QED
    BY <2>1
<1>4. ASSUME NEW n \in Nat, n \in T PROVE n + 1 \in T
  <2>1. CASE m + (n + 1) <= N
    <3>1. m + n <= N /\ m + n \in 0 .. N - 1 /\ (m + n) + 1 = m + (n + 1)
      BY <1>1, <2>1 DEF N
    <3>2. a[m + (n + 1)] = skip_round(d, a[m + n])
      BY <1>1, <3>1
    <3>3. a[m + n] = a[m]
      BY <1>4, <3>1
    <3>4. skip_round(d, a[m]) = a[m]
      BY <1>2 DEF skip_round
    <3>5. QED
      BY <3>2, <3>3, <3>4
  <2>2. CASE ~(m + (n + 1) <= N)
    BY <2>2
  <2>3. QED
    BY <2>1, <2>2
<1>5. \A n \in Nat : n \in T
  <2> HIDE DEF T
  <2>1. QED
    BY <1>3, <1>4, AllNumbers
<1>6. ASSUME NEW n \in 0 .. N, n >= m PROVE a[n] = a[m]
  <2>1. n - m \in Nat /\ m + (n - m) = n /\ n <= N
    BY <1>1, <1>6 DEF N
  <2>2. n - m \in T
    BY <1>5, <2>1
  <2>3. QED
    BY <2>1, <2>2
<1>7. QED
  BY <1>6 DEF a, N

\* A failure is what the loop returns.
LEMMA FailStays ==
  ASSUME NEW d \in Buffers, NEW v \in Iterators(d), v.cur <= Len(d) + 10,
         NEW m \in 0 .. SkipRounds(d), skip_limited(d, v)[m].res < 0
  PROVE  \A n \in 0 .. SkipRounds(d) : n >= m => skip_limited(d, v)[n].res < 0
<1> DEFINE a == skip_limited(d, v)
           N == SkipRounds(d)
           T == { n \in Nat : m + n <= N => a[m + n].res < 0 }
<1>1. N \in Nat /\ \A n \in 0 .. N - 1 : a[n + 1] = skip_round(d, a[n])
  BY SkipLimitedIs
<1>2. a[m].res < 0
  OBVIOUS
<1>3. \A n \in 0 .. N : a[n] = [res |-> a[n].res, levels |-> a[n].levels]
  BY RunIs
<1> HIDE DEF a, N
<1>4. 0 \in T
  <2>1. m + 0 = m
    BY <1>1 DEF N
  <2>2. QED
    BY <1>2, <2>1
<1>5. ASSUME NEW n \in Nat, n \in T PROVE n + 1 \in T
  <2>1. CASE m + (n + 1) <= N
    <3>1. m + n <= N /\ m + n \in 0 .. N - 1 /\ (m + n) + 1 = m + (n + 1) /\ m + n \in 0 .. N
      BY <1>1, <2>1 DEF N
    <3>2. a[m + (n + 1)] = skip_round(d, a[m + n])
      BY <1>1, <3>1
    <3>3. a[m + n].res < 0
      BY <1>5, <3>1
    <3> DEFINE s == a[m + n]
    <3>4. s = [res |-> s.res, levels |-> s.levels]
      BY <1>3, <3>1
    <3> HIDE DEF s
    <3>5. skip_round(d, s) = s \/ skip_round(d, s) = [s EXCEPT !.levels = Returned(s.levels)]
      BY <3>3 DEF skip_round, s
    <3>6. skip_round(d, s).res = s.res
      BY <3>4, <3>5
    <3>7. QED
      BY <3>2, <3>3, <3>6 DEF s
  <2>2. CASE ~(m + (n + 1) <= N)
    BY <2>2
  <2>3. QED
    BY <2>1, <2>2
<1>6. \A n \in Nat : n \in T
  <2> HIDE DEF T
  <2>1. QED
    BY <1>4, <1>5, AllNumbers
<1>7. ASSUME NEW n \in 0 .. N, n >= m PROVE a[n].res < 0
  <2>1. n - m \in Nat /\ m + (n - m) = n /\ n <= N
    BY <1>1, <1>7 DEF N
  <2>2. n - m \in T
    BY <1>6, <2>1
  <2>3. QED
    BY <2>1, <2>2
<1>8. QED
  BY <1>7 DEF a, N

\* What nanocbor_skip returns is what any round says behind which it is over.
LEMMA SkipDone ==
  ASSUME NEW d \in Buffers, NEW v \in Iterators(d), v.cur <= Len(d) + 10,
         NEW m \in 0 .. SkipRounds(d), Len(skip_limited(d, v)[m].levels) = 1
  PROVE  LET s == skip_limited(d, v)[m]
         IN  skip(d, v).it = s.levels[1] /\ skip(d, v).res = IF s.res < 0 THEN s.res ELSE 0
<1> DEFINE a == skip_limited(d, v)
           N == SkipRounds(d)
           Over(n) == Len(a[n].levels) = 1
           Final(s) == [res |-> IF s.res < 0 THEN s.res ELSE NANOCBOR_OK, it |-> Head(s.levels)]
           r == skip(d, v)
<1>1. r = IF \E n \in DOMAIN a : Over(n) THEN Final(a[CHOOSE n \in DOMAIN a : Over(n)])
          ELSE [res |-> ENDLESS, it |-> v]
  BY DEF skip
<1>2. N \in Nat /\ DOMAIN a = 0 .. N
  BY SkipLimitedIs
<1>3. ASSUME NEW n \in 0 .. N, NEW k \in 0 .. N, n >= k, Over(k) PROVE a[n] = a[k]
  BY <1>3, OverStays
<1>4. a[m].levels \in Stacks(d)
  BY RunIs
<1>5. Head(a[m].levels) = a[m].levels[1]
  <2> DEFINE l == a[m].levels
  <2>1. l \in Seq(Iterators(d)) /\ Len(l) = 1
    BY <1>4, StackIs
  <2> HIDE DEF l
  <2>2. Head(l) = l[1]
    BY <2>1
  <2>3. QED
    BY <2>2 DEF l
<1>6. Over(m)
  OBVIOUS
<1> HIDE DEF a, Final, r, N, Over
<1>7. PICK n \in 0 .. N : Over(n) /\ r = Final(a[n])
  BY <1>1, <1>2, <1>6 DEF N
<1>8. a[n] = a[m]
  <2>1. n >= m \/ m >= n
    BY <1>2 DEF N
  <2>2. QED
    BY <1>3, <1>6, <1>7, <2>1 DEF N
<1>9. QED
  BY <1>5, <1>7, <1>8 DEF Final, NANOCBOR_OK, r, a

\* A skip that succeeds never failed on the way, and each round before the last
\* is a step of the nested calls.
LEMMA SkipGoesOn ==
  ASSUME NEW d \in Buffers, NEW v \in Iterators(d), v.cur <= Len(d) + 10,
         skip(d, v).res = 0
  PROVE  LET a == skip_limited(d, v)
         IN  /\ \A n \in 0 .. SkipRounds(d) : a[n].res >= 0
             /\ \A n \in 0 .. SkipRounds(d) :
                  Len(a[n].levels) > 1 =>
                    n + 1 \in 0 .. SkipRounds(d) /\ a[n + 1] = skip_step(d, a[n].levels)
             /\ Len(a[SkipRounds(d)].levels) = 1
<1> DEFINE a == skip_limited(d, v)
           N == SkipRounds(d)
           Over(n) == Len(a[n].levels) = 1
           Final(s) == [res |-> IF s.res < 0 THEN s.res ELSE NANOCBOR_OK, it |-> Head(s.levels)]
<1>1. skip(d, v) = IF \E n \in DOMAIN a : Over(n) THEN Final(a[CHOOSE n \in DOMAIN a : Over(n)])
                   ELSE [res |-> ENDLESS, it |-> v]
  BY DEF skip
<1>2. N \in Nat /\ DOMAIN a = 0 .. N /\ \A n \in 0 .. N - 1 : a[n + 1] = skip_round(d, a[n])
  BY SkipLimitedIs
<1>3. ASSUME NEW n \in 0 .. N, NEW k \in 0 .. N, n >= k, Over(k) PROVE a[n] = a[k]
  BY <1>3, OverStays
<1>4. ASSUME NEW n \in 0 .. N, NEW k \in 0 .. N, n >= k, a[k].res < 0 PROVE a[n].res < 0
  BY <1>4, FailStays
<1>5. \E n \in DOMAIN a : Over(n)
  <2> SUFFICES ASSUME ~ \E n \in DOMAIN a : Over(n) PROVE FALSE
    OBVIOUS
  <2> HIDE DEF Over, Final, a
  <2>1. skip(d, v) = [res |-> ENDLESS, it |-> v]
    BY <1>1
  <2>2. skip(d, v).res = -6
    BY <2>1 DEF ENDLESS
  <2>3. QED
    BY <2>2
<1>6. PICK m \in 0 .. N : Over(m)
  BY <1>2, <1>5
<1>7. N \in 0 .. N /\ m \in Nat /\ N >= m
  BY <1>2, <1>6
<1>8. Over(N) /\ a[N] = a[m]
  BY <1>3, <1>6, <1>7
<1>9. \A n \in 0 .. N : a[n].res \in Int /\ Len(a[n].levels) \in Nat
  BY RunIs
<1>10. a[N].res >= 0
  <2>1. skip(d, v).res = IF a[N].res < 0 THEN a[N].res ELSE 0
    <3>1. Len(a[N].levels) = 1 /\ N \in 0 .. N
      BY <1>7, <1>8
    <3>2. QED
      BY <3>1, SkipDone
  <2>2. a[N].res \in Int
    BY <1>7, <1>9
  <2>3. QED
    BY <2>1, <2>2
<1> HIDE DEF a, N
<1>11. ASSUME NEW n \in 0 .. N PROVE a[n].res >= 0
  <2>1. N >= n /\ a[n].res \in Int /\ a[N].res \in Int
    BY <1>2, <1>7, <1>9
  <2>2. a[n].res < 0 => a[N].res < 0
    BY <1>4, <1>7, <2>1
  <2>3. QED
    BY <1>10, <2>1, <2>2
<1>12. ASSUME NEW n \in 0 .. N, Len(a[n].levels) > 1
       PROVE  n + 1 \in 0 .. N /\ a[n + 1] = skip_step(d, a[n].levels)
  <2> DEFINE x == Len(a[n].levels)
             y == a[n].res
  <2>1. Len(a[n].levels) # 1 /\ ~(a[n].res < 0)
    <3>1. x \in Nat /\ x > 1 /\ y \in Int /\ y >= 0
      BY <1>9, <1>11, <1>12
    <3> HIDE DEF x, y
    <3>2. x # 1 /\ ~(y < 0)
      BY <3>1
    <3>3. QED
      BY <3>2 DEF x, y
  <2> HIDE DEF x, y
  <2>2. n # N
    BY <1>8, <2>1
  <2>3. n \in 0 .. N - 1 /\ n + 1 \in 0 .. N
    BY <1>2, <2>2
  <2>4. QED
    BY <1>2, <2>1, <2>3 DEF skip_round
<1>13. QED
  BY <1>8, <1>11, <1>12 DEF a, N

-----------------------------------------------------------------------------
\* A stack of iterators below one more.
Under(r, s) == <<r>> \o s

\* What such a stack is made of.
LEMMA UnderIs ==
  ASSUME NEW S, NEW r \in S, NEW s \in Seq(S)
  PROVE  LET u == Under(r, s)
         IN  /\ u \in Seq(S) /\ Len(u) = Len(s) + 1 /\ Len(s) \in Nat
             /\ u[1] = r
             /\ \A k \in 1 .. Len(s) : u[k + 1] = s[k]
<1> DEFINE u == Under(r, s)
           o == <<r>>
<1>1. o \in Seq(S) /\ Len(o) = 1 /\ o[1] = r
  OBVIOUS
<1>2. Len(s) \in Nat
  BY LenProperties
<1>3. u = o \o s
  BY DEF Under
<1> HIDE DEF o, u
<1>4. /\ o \o s \in Seq(S) /\ Len(o \o s) = Len(o) + Len(s)
      /\ \A i \in 1 .. Len(o) + Len(s) : (o \o s)[i] = IF i <= Len(o) THEN o[i] ELSE s[i - Len(o)]
  BY <1>1, ConcatProperties
<1>5. u[1] = r
  <2>1. 1 \in 1 .. Len(o) + Len(s) /\ 1 <= Len(o)
    BY <1>1, <1>2
  <2>2. QED
    BY <1>1, <1>3, <1>4, <2>1
<1>6. ASSUME NEW k \in 1 .. Len(s) PROVE u[k + 1] = s[k]
  <2>1. k + 1 \in 1 .. Len(o) + Len(s) /\ ~(k + 1 <= Len(o)) /\ k + 1 - Len(o) = k
    BY <1>1, <1>2
  <2>2. QED
    BY <1>3, <1>4, <2>1
<1>7. QED
  BY <1>1, <1>2, <1>3, <1>4, <1>5, <1>6 DEF u

\* A stack is told by its elements.
LEMMA UnderFrom ==
  ASSUME NEW S, NEW r \in S, NEW s \in Seq(S), NEW t \in Seq(S),
         Len(t) = Len(s) + 1, t[1] = r, \A k \in 1 .. Len(s) : t[k + 1] = s[k]
  PROVE  t = Under(r, s)
<1> DEFINE u == Under(r, s)
<1>1. /\ u \in Seq(S) /\ Len(u) = Len(s) + 1 /\ Len(s) \in Nat /\ u[1] = r
      /\ \A k \in 1 .. Len(s) : u[k + 1] = s[k]
  BY UnderIs
<1> HIDE DEF u
<1>2. ASSUME NEW k \in 1 .. Len(t) PROVE t[k] = u[k]
  <2>1. k = 1 \/ (k - 1 \in 1 .. Len(s) /\ (k - 1) + 1 = k)
    BY <1>1
  <2>2. QED
    BY <1>1, <2>1
<1>3. QED
  BY <1>1, <1>2, SeqEqual DEF u

\* What the innermost call does to its stack, it does to the one below another.
LEMMA UnderMoves ==
  ASSUME NEW S, NEW r \in S, NEW s \in Seq(S), Len(s) >= 1, NEW e \in S
  PROVE  LET u == Under(r, s)
         IN  /\ Last(u) = Last(s)
             /\ Append(u, e) = Under(r, Append(s, e))
             /\ Append(Front(u), e) = Under(r, Append(Front(s), e))
             /\ Len(s) > 1 => Last(Front(u)) = Last(Front(s))
             /\ Len(s) > 1 => Append(Front(Front(u)), e) = Under(r, Append(Front(Front(s)), e))
<1> DEFINE u == Under(r, s)
<1>0. /\ u \in Seq(S) /\ Len(u) = Len(s) + 1 /\ Len(s) \in Nat /\ u[1] = r
      /\ \A k \in 1 .. Len(s) : u[k + 1] = s[k]
  <2>1. u \in Seq(S) /\ Len(u) = Len(s) + 1
    BY UnderIs
  <2>2. Len(s) \in Nat /\ u[1] = r
    BY UnderIs
  <2>3. \A k \in 1 .. Len(s) : u[k + 1] = s[k]
    BY UnderIs
  <2>4. QED
    BY <2>1, <2>2, <2>3
<1> HIDE DEF u
<1> DEFINE n == Len(s)
<1>1. /\ u \in Seq(S) /\ Len(u) = n + 1 /\ n \in Nat /\ u[1] = r
      /\ \A k \in 1 .. n : u[k + 1] = s[k]
  BY <1>0
<1>2. n >= 1 /\ s \in Seq(S)
  OBVIOUS
<1>3. Len(u) >= 1 /\ Len(u) \in Nat
  BY <1>1, <1>2
<1>4. Last(u) = u[n + 1] /\ Last(s) = s[n] /\ n \in 1 .. n
  <2>1. Last(u) = u[Len(u)] /\ Last(s) = s[Len(s)]
    BY <1>1, <1>3, FrontIs
  <2> HIDE DEF n
  <2>2. n \in 1 .. n
    BY <1>1, <1>2
  <2>3. QED
    BY <1>1, <2>1, <2>2 DEF n
<1>5. Last(u) = Last(s)
  BY <1>1, <1>4
<1>6. Append(u, e) = Under(r, Append(s, e))
  <2> DEFINE t == Append(u, e)
             w == Append(s, e)
  <2>1. t \in Seq(S) /\ Len(t) = n + 2 /\ (\A k \in 1 .. n + 1 : t[k] = u[k]) /\ t[n + 2] = e
    <3>1. n + 1 + 1 = n + 2
      BY <1>1
    <3>2. QED
      BY <1>1, <3>1, AppendProperties
  <2>2. w \in Seq(S) /\ Len(w) = n + 1 /\ (\A k \in 1 .. n : w[k] = s[k]) /\ w[n + 1] = e
    BY <1>2, AppendProperties
  <2> HIDE DEF t, w, n
  <2>3. t[1] = r /\ Len(t) = Len(w) + 1
    BY <1>1, <2>1, <2>2
  <2>4. ASSUME NEW k \in 1 .. Len(w) PROVE t[k + 1] = w[k]
    <3>1. CASE k \in 1 .. n
      BY <1>1, <2>1, <2>2, <3>1
    <3>2. CASE k = n + 1
      BY <1>1, <2>1, <2>2, <3>2
    <3>3. QED
      BY <1>1, <2>2, <3>1, <3>2
  <2>5. QED
    BY <2>1, <2>2, <2>3, <2>4, UnderFrom DEF t, w
<1>7. Append(Front(u), e) = Under(r, Append(Front(s), e))
  <2> DEFINE t == Append(Front(u), e)
             w == Append(Front(s), e)
  <2>1. t \in Seq(S) /\ Len(t) = n + 1 /\ (\A k \in 1 .. n + 1 : t[k] = IF k = n + 1 THEN e ELSE u[k])
    BY <1>1, <1>3, ReplacedIs
  <2>2. w \in Seq(S) /\ Len(w) = n /\ (\A k \in 1 .. n : w[k] = IF k = n THEN e ELSE s[k])
    BY <1>2, ReplacedIs
  <2> HIDE DEF t, w, n
  <2>3. t[1] = r /\ Len(t) = Len(w) + 1
    BY <1>1, <1>2, <2>1, <2>2
  <2>4. ASSUME NEW k \in 1 .. Len(w) PROVE t[k + 1] = w[k]
    <3>1. k \in 1 .. n /\ k + 1 \in 1 .. n + 1 /\ (k + 1 = n + 1 <=> k = n)
      BY <1>1, <2>2
    <3>2. u[k + 1] = s[k]
      BY <1>1, <3>1
    <3>3. QED
      BY <2>1, <2>2, <3>1, <3>2
  <2>5. QED
    BY <2>1, <2>2, <2>3, <2>4, UnderFrom DEF t, w
<1>8. ASSUME n > 1
      PROVE  /\ Last(Front(u)) = Last(Front(s))
             /\ Append(Front(Front(u)), e) = Under(r, Append(Front(Front(s)), e))
  <2> DEFINE f == Front(u)
             g == Front(s)
  <2>1. f \in Seq(S) /\ Len(f) = n /\ (\A k \in 1 .. n : f[k] = u[k]) /\ g \in Seq(S) /\ Len(g) = n - 1
        /\ \A k \in 1 .. n - 1 : g[k] = s[k]
    <3>1. n + 1 - 1 = n
      BY <1>1
    <3>2. f \in Seq(S) /\ Len(f) = Len(u) - 1 /\ \A k \in 1 .. Len(u) - 1 : f[k] = u[k]
      BY <1>1, <1>3, FrontIs
    <3>3. g \in Seq(S) /\ Len(g) = Len(s) - 1 /\ \A k \in 1 .. Len(s) - 1 : g[k] = s[k]
      BY <1>2, FrontIs
    <3> HIDE DEF f, g
    <3>4. QED
      BY <1>1, <3>1, <3>2, <3>3
  <2> HIDE DEF f, g, n
  <2>2. Len(f) >= 1 /\ Len(g) >= 1 /\ n - 1 \in 1 .. n - 1 /\ n \in 1 .. n /\ n - 1 \in 1 .. n /\ (n - 1) + 1 = n
    BY <1>1, <1>8, <2>1
  <2>3. Last(f) = f[n] /\ Last(g) = g[n - 1]
    BY <2>1, <2>2, FrontIs
  <2>4. Last(f) = Last(g)
    <3>1. f[n] = u[n] /\ g[n - 1] = s[n - 1] /\ u[(n - 1) + 1] = s[n - 1]
      BY <1>1, <2>1, <2>2
    <3>2. QED
      BY <2>2, <2>3, <3>1
  <2> DEFINE t == Append(Front(f), e)
             w == Append(Front(g), e)
  <2>5. t \in Seq(S) /\ Len(t) = n /\ (\A k \in 1 .. n : t[k] = IF k = n THEN e ELSE f[k])
    <3>1. t \in Seq(S) /\ Len(t) = Len(f) /\ (\A k \in 1 .. Len(f) : t[k] = IF k = Len(f) THEN e ELSE f[k])
      BY <2>1, <2>2, ReplacedIs
    <3> HIDE DEF t
    <3>2. QED
      BY <2>1, <3>1
  <2>6. w \in Seq(S) /\ Len(w) = n - 1 /\ (\A k \in 1 .. n - 1 : w[k] = IF k = n - 1 THEN e ELSE g[k])
    <3>1. w \in Seq(S) /\ Len(w) = Len(g) /\ (\A k \in 1 .. Len(g) : w[k] = IF k = Len(g) THEN e ELSE g[k])
      BY <2>1, <2>2, ReplacedIs
    <3> HIDE DEF w
    <3>2. QED
      BY <2>1, <3>1
  <2> HIDE DEF t, w
  <2>7. t[1] = r /\ Len(t) = Len(w) + 1
    <3>1. 1 \in 1 .. n /\ 1 # n /\ n = (n - 1) + 1
      BY <1>1, <1>8
    <3>2. t[1] = f[1] /\ f[1] = u[1]
      BY <2>1, <2>5, <3>1
    <3>3. QED
      BY <1>1, <2>5, <2>6, <3>1, <3>2
  <2>8. ASSUME NEW k \in 1 .. Len(w) PROVE t[k + 1] = w[k]
    <3>1. k \in 1 .. n - 1 /\ k \in 1 .. n /\ k + 1 \in 1 .. n /\ (k + 1 = n <=> k = n - 1)
      BY <1>1, <2>6
    <3>2. f[k + 1] = g[k]
      BY <1>1, <2>1, <3>1
    <3>3. QED
      BY <2>5, <2>6, <3>1, <3>2
  <2>9. t = Under(r, w)
    BY <2>5, <2>6, <2>7, <2>8, UnderFrom
  <2>10. QED
    BY <2>4, <2>9 DEF t, w, f, g
<1>9. QED
  BY <1>5, <1>6, <1>7, <1>8 DEF u, n

\* A step of the nested calls of a skip, done below one more call.
Lifted(r, s) == [res |-> s.res, levels |-> Under(r, s.levels)]

\* A nested call that reads, enters, leaves or fails does so whoever called it,
\* as long as the one more call does not pass the limit of the recursion.
LEMMA StepUnder ==
  ASSUME NEW d \in Buffers, NEW r \in Iterators(d), NEW s \in Stacks(d),
         ~(Len(s) = 1 /\ at_end(d, Last(s))),
         skip_step(d, Under(r, s)).res >= 0
  PROVE  skip_step(d, Under(r, s)) = Lifted(r, skip_step(d, s))
<1> DEFINE u == Under(r, s)
           v == Last(s)
           type == get_type(d, v)
           m == enter_map(d, v)
           a == enter_array(d, v)
           str == get_str(d, v, type)
           simple == skip_simple(d, v)
<1>1. s \in Seq(Iterators(d)) /\ Len(s) \in Nat /\ Len(s) >= 1
  BY StackIs
<1>2. Len(u) = Len(s) + 1
  BY <1>1, UnderIs
<1>3. v \in Iterators(d) /\ Last(u) = v
  BY <1>1, FrontIs, UnderMoves
<1>4. \A e \in Iterators(d) : Append(u, e) = Under(r, Append(s, e)) /\ Append(Front(u), e) = Under(r, Append(Front(s), e))
  BY <1>1, UnderMoves
<1>5. ASSUME Len(s) > 1 PROVE Returned(u) = Under(r, Returned(s))
  <2> DEFINE e == leave_container(Last(Front(s)), v)
  <2>1. Front(s) \in Seq(Iterators(d)) /\ Len(Front(s)) = Len(s) - 1
    BY <1>1, FrontIs
  <2>2. Len(Front(s)) >= 1
    BY <1>1, <1>5, <2>1
  <2>3. Last(Front(s)) \in Iterators(d)
    BY <2>1, <2>2, FrontIs
  <2>4. e \in Iterators(d)
    BY <1>3, <2>3, LeaveIs
  <2> HIDE DEF e
  <2>5. /\ Last(Front(u)) = Last(Front(s))
        /\ Append(Front(Front(u)), e) = Under(r, Append(Front(Front(s)), e))
    BY <1>1, <1>5, <2>4, UnderMoves
  <2>6. QED
    BY <1>3, <2>5 DEF Returned, e
<1>6. Len(u) > 1 /\ (Len(s) > 1 \/ Len(s) = 1)
  <2> DEFINE x == Len(s)
             y == Len(u)
  <2>1. x \in Nat /\ x >= 1 /\ y = x + 1
    BY <1>1, <1>2
  <2> HIDE DEF x, y
  <2>2. y > 1 /\ (x > 1 \/ x = 1)
    BY <2>1
  <2>3. QED
    BY <2>2 DEF x, y
<1>7. CASE at_end(d, v)
  <2>1. Len(s) > 1
    BY <1>6, <1>7
  <2>2. skip_step(d, u) = [res |-> 0, levels |-> Returned(u)] /\ skip_step(d, s) = [res |-> 0, levels |-> Returned(s)]
    BY <1>3, <1>6, <1>7, <2>1 DEF skip_step, NANOCBOR_OK
  <2>3. QED
    BY <1>5, <2>1, <2>2 DEF Lifted
<1>8. CASE ~at_end(d, v)
  <2>1. ~TooDeep(u)
    <3> SUFFICES ASSUME TooDeep(u) PROVE FALSE
      OBVIOUS
    <3>1. skip_step(d, u) = [res |-> -4, levels |-> u]
      BY <1>3, <1>8 DEF skip_step, NANOCBOR_ERR_RECURSION
    <3>2. skip_step(d, u).res = -4
      BY <3>1
    <3>3. QED
      BY <3>2
  <2>2. ~TooDeep(s)
    BY <1>1, <1>2, <2>1 DEF TooDeep, NANOCBOR_RECURSION_MAX
  <2>3. type \in 0 .. 7
    BY <1>3, <1>8, TypeIs
  <2>4. ~(type < 0)
    BY <2>3
  <2>5. Near(d, v, str.it, 0) /\ Near(d, v, simple.it, 0) /\ Opened(d, m) /\ Opened(d, a)
    BY <1>3, StrIs, SimpleIs, MapIs, ArrayIs
  <2>6. str.it \in Iterators(d) /\ simple.it \in Iterators(d)
    BY <2>5 DEF Near
  <2>7. (m.res < 0 \/ m.it \in Iterators(d)) /\ (a.res < 0 \/ a.it \in Iterators(d))
    BY <2>5 DEF Opened
  <2> DEFINE Enter(c, t) == IF c.res < 0 THEN [res |-> c.res, levels |-> t]
                            ELSE [res |-> c.res, levels |-> Append(t, c.it)]
             Over(i, t) == [res |-> i.res, levels |-> Append(Front(t), i.it)]
             Step(t) == CASE type < 0 -> [res |-> type, levels |-> t]
                          [] type = MAP -> Enter(m, t)
                          [] type = ARR -> Enter(a, t)
                          [] type \in {BSTR, TSTR} -> Over(str, t)
                          [] OTHER -> Over(simple, t)
  <2>8. skip_step(d, u) = Step(u) /\ skip_step(d, s) = Step(s)
    BY <1>3, <1>8, <2>1, <2>2 DEF skip_step
  <2>9. Enter(m, u) = Lifted(r, Enter(m, s)) /\ Enter(a, u) = Lifted(r, Enter(a, s))
    <3> HIDE DEF m, a
    <3>1. QED
      BY <1>4, <2>7 DEF Lifted
  <2>10. Over(str, u) = Lifted(r, Over(str, s)) /\ Over(simple, u) = Lifted(r, Over(simple, s))
    <3> HIDE DEF str, simple
    <3>1. QED
      BY <1>4, <2>6 DEF Lifted
  <2> HIDE DEF Enter, Over, type
  <2>11. Step(u) = Lifted(r, Step(s))
    BY <2>4, <2>9, <2>10
  <2>12. QED
    BY <2>8, <2>11
<1>9. QED
  BY <1>7, <1>8

\* A stack of two.
LEMMA PairIs ==
  ASSUME NEW d \in Buffers, NEW r \in Iterators(d), NEW w \in Iterators(d)
  PROVE  /\ <<r, w>> = Under(r, <<w>>) /\ <<r, w>> \in Seq(Iterators(d)) /\ <<w>> \in Seq(Iterators(d))
         /\ Len(<<r, w>>) = 2 /\ Len(<<w>>) = 1 /\ <<w>>[1] = w /\ <<r, w>>[1] = r /\ <<r, w>>[2] = w
         /\ Last(<<w>>) = w /\ Last(<<r, w>>) = w
         /\ Returned(<<r, w>>) = <<leave_container(r, w)>>
<1> DEFINE p == <<r, w>>
           o == <<w>>
<1>1. p \in Seq(Iterators(d)) /\ o \in Seq(Iterators(d)) /\ Len(p) = 2 /\ Len(o) = 1
      /\ o[1] = w /\ p[1] = r /\ p[2] = w
  OBVIOUS
<1> HIDE DEF p, o
<1>2. p = Under(r, o)
  <2>1. \A k \in 1 .. Len(o) : p[k + 1] = o[k]
    <3>1. \A k \in 1 .. Len(o) : k = 1
      BY <1>1
    <3>2. 1 + 1 = 2
      OBVIOUS
    <3>3. QED
      BY <1>1, <3>1, <3>2
  <2>2. Len(p) = Len(o) + 1
    BY <1>1
  <2>3. QED
    BY <1>1, <2>1, <2>2, UnderFrom
<1>3. Last(o) = w /\ Last(p) = w
  BY <1>1 DEF Last
<1>4. Returned(p) = <<leave_container(r, w)>>
  <2> DEFINE f == Front(p)
             g == Front(f)
             e == leave_container(r, w)
  <2>1. f \in Seq(Iterators(d)) /\ Len(f) = 1 /\ f[1] = r
    <3>1. Len(p) >= 1 /\ Len(p) - 1 = 1 /\ 1 \in 1 .. Len(p) - 1
      BY <1>1
    <3>2. f \in Seq(Iterators(d)) /\ Len(f) = Len(p) - 1 /\ \A k \in 1 .. Len(p) - 1 : f[k] = p[k]
      BY <1>1, <3>1, FrontIs
    <3> HIDE DEF f
    <3>3. QED
      BY <1>1, <3>1, <3>2
  <2>2. Last(f) = r
    BY <2>1 DEF Last
  <2> HIDE DEF f
  <2>3. g \in Seq(Iterators(d)) /\ Len(g) = 0
    <3>1. Len(f) >= 1 /\ Len(f) - 1 = 0
      BY <2>1
    <3>2. g \in Seq(Iterators(d)) /\ Len(g) = Len(f) - 1
      BY <2>1, <3>1, FrontIs
    <3> HIDE DEF g
    <3>3. QED
      BY <3>1, <3>2
  <2> HIDE DEF g
  <2>4. g = <<>>
    BY <2>3, EmptySeq
  <2>5. e \in Iterators(d)
    BY LeaveIs
  <2>6. Append(<<>>, e) = <<e>>
    OBVIOUS
  <2>7. QED
    BY <1>3, <2>2, <2>4, <2>6 DEF Returned, f, g, e
<1>5. QED
  BY <1>1, <1>2, <1>3, <1>4 DEF p, o

\* The first round tells all of a skip over an item that is no container.
LEMMA SkipOne ==
  ASSUME NEW d \in Buffers, NEW v \in Iterators(d), v.cur <= Len(d) + 10,
         NEW i, NEW code, skip_step(d, <<v>>) = [res |-> code, levels |-> <<i>>]
  PROVE  skip(d, v).it = i /\ skip(d, v).res = IF code < 0 THEN code ELSE 0
<1>1. 0 \in 0 .. SkipRounds(d) /\ skip_limited(d, v)[0] = skip_step(d, <<v>>)
  BY SkipLimitedIs
<1>2. skip_limited(d, v)[0].levels = <<i>> /\ skip_limited(d, v)[0].res = code
  BY <1>1
<1>3. Len(<<i>>) = 1 /\ <<i>>[1] = i
  OBVIOUS
<1>4. QED
  BY <1>1, <1>2, <1>3, SkipDone

\* What a skip comes by is an iterator, and no further than a level may be.
LEMMA ReachesIs ==
  ASSUME NEW d \in Buffers, NEW r \in Iterators(d), r.cur <= Len(d) + 10, NEW w, Reaches(d, r, w)
  PROVE  w \in Iterators(d) /\ w.cur <= Len(d) + 10 /\ w.cur \in Nat
<1> DEFINE a == skip_limited(d, r)
<1>1. PICK n \in 0 .. SkipRounds(d) : a[n].levels = <<r, w>>
  BY DEF Reaches
<1>2. a[n].levels \in Stacks(d)
  BY RunIs
<1> DEFINE p == <<r, w>>
<1>3. Len(p) = 2 /\ p[2] = w
  OBVIOUS
<1>4. p \in Stacks(d)
  BY <1>1, <1>2
<1> HIDE DEF p
<1>5. 2 \in 1 .. Len(p)
  BY <1>3
<1>6. w \in Iterators(d) /\ w.cur \in Nat /\ w.cur <= Len(d) + (11 - 2) /\ Len(d) \in Nat
  BY <1>3, <1>4, <1>5, StackIs
<1>7. QED
  BY <1>6

\* A container that a skip comes to is stepped over, like by a skip of its own.
LEMMA ReachSkip ==
  ASSUME NEW d \in Buffers, NEW r \in Iterators(d), r.cur <= Len(d) + 10, skip(d, r).res = 0,
         NEW w, Reaches(d, r, w), ~at_end(d, w)
  PROVE  skip(d, w).res = 0 /\ Reaches(d, r, skip(d, w).it)
<1> DEFINE a == skip_limited(d, r)
           b == skip_limited(d, w)
           N == SkipRounds(d)
<1>1. w \in Iterators(d) /\ w.cur <= Len(d) + 10
  BY ReachesIs
<1>2. PICK m \in 0 .. N : a[m].levels = <<r, w>>
  BY DEF Reaches
<1>3. /\ \A n \in 0 .. N : a[n].res >= 0
      /\ \A n \in 0 .. N : Len(a[n].levels) > 1 => n + 1 \in 0 .. N /\ a[n + 1] = skip_step(d, a[n].levels)
  BY SkipGoesOn
<1>4. N \in Nat /\ b[0] = skip_step(d, <<w>>) /\ \A n \in 0 .. N - 1 : b[n + 1] = skip_round(d, b[n])
  BY <1>1, SkipLimitedIs
<1>5. \A n \in 0 .. N : b[n].res \in Int /\ b[n].levels \in Stacks(d) /\ Len(b[n].levels) \in Nat /\ Len(b[n].levels) >= 1
  BY <1>1, RunIs
<1>6. <<w>> \in Stacks(d) /\ Len(<<w>>) = 1 /\ Last(<<w>>) = w /\ <<r, w>> = Under(r, <<w>>) /\ Len(<<r, w>>) = 2
  <2>1. /\ <<r, w>> = Under(r, <<w>>) /\ <<w>> \in Seq(Iterators(d))
        /\ Len(<<r, w>>) = 2 /\ Len(<<w>>) = 1 /\ <<w>>[1] = w /\ Last(<<w>>) = w
    BY <1>1, PairIs
  <2> DEFINE o == <<w>>
  <2>2. o \in Seq(Iterators(d)) /\ Len(o) = 1 /\ o[1] = w
    BY <2>1
  <2> HIDE DEF o
  <2>3. \A k \in 1 .. Len(o) : o[k].cur <= Len(d) + (11 - k)
    <3>1. \A k \in 1 .. Len(o) : k = 1
      BY <2>2
    <3>2. 11 - 1 = 10
      OBVIOUS
    <3>3. QED
      BY <1>1, <2>2, <3>1, <3>2
  <2>4. Len(o) \in Nat /\ Len(o) >= 1 /\ Len(o) <= 11
    BY <2>2
  <2>5. o \in Stacks(d)
    BY <2>2, <2>3, <2>4, StackFrom
  <2>6. QED
    BY <2>1, <2>5 DEF o
<1> HIDE DEF a, b, N
<1> DEFINE Match(k) == m + 1 + k \in 0 .. N /\ a[m + 1 + k] = Lifted(r, b[k])
           Over(k) == Match(k) /\ Len(b[k].levels) = 1
           T == { n \in Nat : n \in 0 .. N => Match(n) \/ \E k \in 0 .. N : Over(k) }
<1>7. 0 \in T
  <2>1. Len(a[m].levels) > 1
    BY <1>2, <1>6
  <2>2. m + 1 \in 0 .. N /\ a[m + 1] = skip_step(d, Under(r, <<w>>)) /\ a[m + 1].res >= 0
    BY <1>2, <1>3, <1>6, <2>1
  <2>3. a[m + 1] = Lifted(r, b[0])
    <3>1. ~(Len(<<w>>) = 1 /\ at_end(d, Last(<<w>>)))
      BY <1>6
    <3>2. QED
      BY <1>4, <1>6, <2>2, <3>1, StepUnder
  <2>4. m + 1 + 0 = m + 1
    BY <1>4 DEF N
  <2>5. QED
    BY <2>2, <2>3, <2>4
<1>8. ASSUME NEW n \in Nat, n \in T PROVE n + 1 \in T
  <2> SUFFICES ASSUME n + 1 \in 0 .. N, ~ \E k \in 0 .. N : Over(k) PROVE Match(n + 1)
    OBVIOUS
  <2>1. n \in 0 .. N /\ n \in 0 .. N - 1
    BY <1>4
  <2>2. Match(n) /\ ~Over(n)
    BY <1>8, <2>1
  <2>3. a[m + 1 + n].levels = Under(r, b[n].levels) /\ a[m + 1 + n].res = b[n].res
    BY <2>2 DEF Lifted
  <2>4. Len(Under(r, b[n].levels)) = Len(b[n].levels) + 1
    <3> DEFINE l == b[n].levels
    <3>1. l \in Seq(Iterators(d))
      BY <1>5, <2>1, StackIs
    <3> HIDE DEF l
    <3>2. Len(Under(r, l)) = Len(l) + 1
      BY <3>1, UnderIs
    <3>3. QED
      BY <3>2 DEF l
  <2> DEFINE x == Len(b[n].levels)
  <2>5. x \in Nat /\ x >= 1 /\ x # 1
    BY <1>5, <2>1, <2>2
  <2>6. Len(a[m + 1 + n].levels) = x + 1
    BY <2>3, <2>4
  <2> HIDE DEF x
  <2>7. Len(a[m + 1 + n].levels) > 1
    BY <2>5, <2>6
  <2>8. (m + 1 + n) + 1 \in 0 .. N /\ a[(m + 1 + n) + 1] = skip_step(d, Under(r, b[n].levels))
        /\ a[(m + 1 + n) + 1].res >= 0
    BY <1>3, <2>2, <2>3, <2>7
  <2>9. b[n + 1] = skip_step(d, b[n].levels)
    <3>1. a[m + 1 + n].res >= 0
      BY <1>3, <2>2
    <3>2. b[n].res \in Int /\ b[n].res >= 0
      BY <1>5, <2>1, <2>3, <3>1
    <3>3. ~(b[n].res < 0)
      BY <3>2
    <3>4. Len(b[n].levels) # 1
      BY <2>5 DEF x
    <3>5. QED
      BY <1>4, <2>1, <3>3, <3>4 DEF skip_round
  <2>10. a[(m + 1 + n) + 1] = Lifted(r, b[n + 1])
    <3>1. b[n].levels \in Stacks(d) /\ Len(b[n].levels) # 1
      BY <1>5, <2>1, <2>5 DEF x
    <3>2. QED
      BY <2>8, <2>9, <3>1, StepUnder
  <2>11. (m + 1 + n) + 1 = m + 1 + (n + 1)
    BY <1>4 DEF N
  <2>12. QED
    BY <2>8, <2>10, <2>11
<1>9. \A n \in Nat : n \in T
  <2> HIDE DEF T
  <2>1. QED
    BY <1>7, <1>8, AllNumbers
<1>10. PICK k \in 0 .. N : Over(k)
  <2>1. N \in 0 .. N /\ m + 1 + N \notin 0 .. N
    BY <1>4
  <2>2. N \in T
    BY <1>4, <1>9
  <2>3. ~Match(N)
    BY <2>1
  <2> HIDE DEF Match, Over
  <2>4. QED
    BY <2>1, <2>2, <2>3
<1>11. b[k].res >= 0 /\ b[k].res \in Int
  <2>1. a[m + 1 + k].res = b[k].res /\ a[m + 1 + k].res >= 0
    BY <1>3, <1>10 DEF Lifted
  <2>2. QED
    BY <1>5, <2>1
<1>12. skip(d, w).res = 0 /\ skip(d, w).it = b[k].levels[1]
  <2>1. skip(d, w).it = b[k].levels[1] /\ skip(d, w).res = IF b[k].res < 0 THEN b[k].res ELSE 0
    BY <1>1, <1>10, SkipDone DEF b, N
  <2>2. ~(b[k].res < 0)
    BY <1>11
  <2>3. QED
    BY <2>1, <2>2
<1>13. a[m + 1 + k].levels = <<r, skip(d, w).it>>
  <2> DEFINE l == b[k].levels
             x == l[1]
  <2>1. l \in Seq(Iterators(d)) /\ Len(l) = 1
    BY <1>5, <1>10, StackIs
  <2>2. x \in Iterators(d)
    <3>1. 1 \in 1 .. Len(l)
      BY <2>1
    <3>2. QED
      BY <2>1, <3>1, ElementOfSeq
  <2> HIDE DEF l, x
  <2>3. <<x>> \in Seq(Iterators(d)) /\ Len(<<x>>) = 1 /\ <<x>>[1] = x /\ <<r, x>> = Under(r, <<x>>)
    BY <2>2, PairIs
  <2>4. l = <<x>>
    <3>1. \A i \in 1 .. Len(l) : i = 1
      BY <2>1
    <3>2. \A i \in 1 .. Len(l) : l[i] = <<x>>[i]
      BY <2>3, <3>1 DEF x
    <3>3. QED
      BY <2>1, <2>3, <3>2, SeqEqual
  <2>5. a[m + 1 + k].levels = Under(r, l)
    BY <1>10 DEF Lifted, l
  <2>6. QED
    BY <1>12, <2>3, <2>4, <2>5 DEF x, l
<1>14. QED
  BY <1>10, <1>12, <1>13 DEF Reaches, a, N

-----------------------------------------------------------------------------
\* _get_uint64, with the head's parts named.
LEMMA HeadForm ==
  ASSUME NEW d \in Buffers, NEW v \in Iterators(d), NEW max \in 24 .. 27, NEW type
  PROVE  LET ctype == get_type(d, v)
             info == Byte(d, v.cur) % 32
             bytes == NumberLen(info)
         IN  get_uint64(d, v, max, type) =
               IF ctype < 0 THEN [res |-> ctype, value |-> 0]
               ELSE IF type # ctype THEN [res |-> -2, value |-> 0]
               ELSE IF info < 24 THEN [res |-> 1, value |-> info]
               ELSE IF info > max THEN [res |-> -1, value |-> 0]
               ELSE IF v.cur + bytes >= v.end THEN [res |-> -3, value |-> 0]
               ELSE [res |-> 1 + bytes, value |-> NumberAt(d, v.cur + 1, bytes)]
BY DEF get_uint64, NANOCBOR_ERR_INVALID_TYPE, NANOCBOR_ERR_OVERFLOW, NANOCBOR_ERR_END, SIZE_BYTE

\* A head that is read with a narrower limit is the one that is read with the
\* widest.
LEMMA HeadWider ==
  ASSUME NEW d \in Buffers, NEW v \in Iterators(d), NEW max \in 24 .. 27, NEW type,
         get_uint64(d, v, max, type).res > 0
  PROVE  /\ get_uint64(d, v, SIZE_LONG, type) = get_uint64(d, v, max, type)
         /\ get_type(d, v) = type /\ ~at_end(d, v)
<1> DEFINE h == get_uint64(d, v, max, type)
           g == get_uint64(d, v, SIZE_LONG, type)
           ctype == get_type(d, v)
           info == Byte(d, v.cur) % 32
           bytes == NumberLen(info)
<1>1. SIZE_LONG \in 24 .. 27
  BY DEF SIZE_LONG
<1>2. h = IF ctype < 0 THEN [res |-> ctype, value |-> 0]
          ELSE IF type # ctype THEN [res |-> -2, value |-> 0]
          ELSE IF info < 24 THEN [res |-> 1, value |-> info]
          ELSE IF info > max THEN [res |-> -1, value |-> 0]
          ELSE IF v.cur + bytes >= v.end THEN [res |-> -3, value |-> 0]
          ELSE [res |-> 1 + bytes, value |-> NumberAt(d, v.cur + 1, bytes)]
  BY HeadForm
<1>3. g = IF ctype < 0 THEN [res |-> ctype, value |-> 0]
          ELSE IF type # ctype THEN [res |-> -2, value |-> 0]
          ELSE IF info < 24 THEN [res |-> 1, value |-> info]
          ELSE IF info > SIZE_LONG THEN [res |-> -1, value |-> 0]
          ELSE IF v.cur + bytes >= v.end THEN [res |-> -3, value |-> 0]
          ELSE [res |-> 1 + bytes, value |-> NumberAt(d, v.cur + 1, bytes)]
  BY <1>1, HeadForm
<1>4. ~at_end(d, v)
  BY HeadIs
<1>5. ctype \in 0 .. 7 /\ Byte(d, v.cur) \in 0 .. 255
  BY <1>4, TypeIs
<1>6. info \in Int
  <2> DEFINE b == Byte(d, v.cur)
  <2>1. b \in 0 .. 255
    BY <1>5
  <2> HIDE DEF b
  <2>2. b % 32 \in Int
    BY <2>1
  <2>3. QED
    BY <2>2 DEF b
<1>7. h.res > 0
  OBVIOUS
<1> HIDE DEF h, g, ctype, info, bytes
<1>8. ~(ctype < 0)
  BY <1>5
<1>9. type = ctype
  <2> SUFFICES ASSUME type # ctype PROVE FALSE
    OBVIOUS
  <2>1. h.res = -2
    BY <1>2, <1>8
  <2>2. QED
    BY <1>7, <2>1
<1>10. g = h
  <2>1. CASE info < 24
    BY <1>2, <1>3, <1>8, <1>9, <2>1
  <2>2. CASE ~(info < 24)
    <3>1. ~(info > max)
      <4> SUFFICES ASSUME info > max PROVE FALSE
        OBVIOUS
      <4>1. h.res = -1
        BY <1>2, <1>8, <1>9, <2>2
      <4>2. QED
        BY <1>7, <4>1
    <3>2. ~(info > SIZE_LONG)
      BY <1>6, <3>1 DEF SIZE_LONG
    <3>3. QED
      BY <1>2, <1>3, <1>8, <1>9, <2>2, <3>1, <3>2
  <2>3. QED
    BY <2>1, <2>2
<1>11. QED
  BY <1>4, <1>9, <1>10 DEF h, g, ctype

\* A container that is entered has its head at the iterator.
LEMMA ContainerHead ==
  ASSUME NEW d \in Buffers, NEW v \in Iterators(d), NEW type \in 0 .. 7,
         enter_container(d, v, type).res = 0
  PROVE  LET c == enter_container(d, v, type)
         IN  /\ v.cur < Len(d) /\ Byte(d, v.cur) \div 32 = type
             /\ c.it \in Iterators(d) /\ c.it.cur \in Nat /\ c.it.cur <= Len(d) /\ c.it.cur >= v.cur + 1
             /\ \/ c.it.flags = "container" /\ ~at_end(d, v) /\ c.it.remaining = HeadValue(d, v.cur)
                \/ c.it.flags = "indefinite" /\ c.it.cur = v.cur + 1 /\ c.it.remaining = 0
<1> DEFINE h == get_uint64(d, v, SIZE_WORD, type)
           c == enter_container(d, v, type)
           open == ~OverEnd(v) /\ Byte(d, v.cur) = type * 32 + SIZE_INDEFINITE
<1>0. SIZE_WORD \in 24 .. 27
  BY DEF SIZE_WORD
<1>1. c = IF open
          THEN [res |-> 0, it |-> [cur |-> v.cur + 1, end |-> v.end, remaining |-> 0,
                                   flags |-> "indefinite"]]
          ELSE IF h.res < 0 THEN [res |-> h.res, it |-> v]
          ELSE [res |-> 0, it |-> [cur |-> v.cur + h.res, end |-> v.end, remaining |-> h.value,
                                   flags |-> "container"]]
  BY DEF enter_container, NANOCBOR_OK
<1>2. v.cur \in Nat /\ v.end = Len(d) /\ Len(d) \in Nat
  BY IteratorIs, LenProperties
<1>3. c.res = 0 /\ Opened(d, c)
  BY ContainerIs
<1>4. c.it \in Iterators(d) /\ c.it.cur <= Len(d) /\ c.it.cur \in Nat
  BY <1>3, IteratorIs DEF Opened
<1>5. open => v.cur < Len(d) /\ Byte(d, v.cur) \div 32 = type
  <2> SUFFICES ASSUME open PROVE v.cur < Len(d) /\ Byte(d, v.cur) \div 32 = type
    OBVIOUS
  <2>1. Byte(d, v.cur) = type * 32 + 31 /\ v.cur < Len(d)
    BY <1>2 DEF OverEnd, SIZE_INDEFINITE
  <2>2. (type * 32 + 31) \div 32 = type
    OBVIOUS
  <2>3. QED
    BY <2>1, <2>2
<1>6. \/ h.res \in {-1, -2, -3} /\ h.value = 0
      \/ /\ h.res \in 1 .. 9 /\ h.value \in Int
         /\ ~at_end(d, v)
         /\ v.cur + h.res <= Len(d)
         /\ Byte(d, v.cur) \div 32 = type
         /\ HeadValue(d, v.cur) = h.value
  BY <1>0, HeadIs
<1> HIDE DEF c, open, h
<1>7. CASE open
  <2>1. c.it = [cur |-> v.cur + 1, end |-> v.end, remaining |-> 0, flags |-> "indefinite"]
    BY <1>1, <1>7
  <2>2. c.it.cur = v.cur + 1 /\ c.it.flags = "indefinite" /\ c.it.remaining = 0
    BY <2>1
  <2>3. c.it.cur >= v.cur + 1
    BY <1>2, <2>2
  <2>4. QED
    BY <1>4, <1>5, <1>7, <2>2, <2>3 DEF c
<1>8. CASE ~open
  <2>1. ~(h.res < 0)
    <3> SUFFICES ASSUME h.res < 0 PROVE FALSE
      OBVIOUS
    <3>1. c.res = h.res
      BY <1>1, <1>8
    <3>2. QED
      BY <1>3, <3>1
  <2>2. /\ h.res \in 1 .. 9 /\ h.value \in Int
        /\ ~at_end(d, v)
        /\ v.cur + h.res <= Len(d)
        /\ Byte(d, v.cur) \div 32 = type
        /\ HeadValue(d, v.cur) = h.value
    BY <1>6, <2>1
  <2>3. c.it = [cur |-> v.cur + h.res, end |-> v.end, remaining |-> h.value, flags |-> "container"]
    BY <1>1, <1>8, <2>1
  <2>4. c.it.cur = v.cur + h.res /\ c.it.flags = "container" /\ c.it.remaining = h.value
    BY <2>3
  <2>5. c.it.cur >= v.cur + 1 /\ v.cur < Len(d)
    <3> DEFINE x == v.cur
               n == h.res
               e == Len(d)
    <3>1. x \in Nat /\ n \in 1 .. 9 /\ e \in Nat /\ x + n <= e
      BY <1>2, <2>2
    <3> HIDE DEF x, n, e
    <3>2. x + n >= x + 1 /\ x < e
      BY <3>1
    <3>3. QED
      BY <2>4, <3>2 DEF x, n, e
  <2>6. c.it.remaining = HeadValue(d, v.cur)
    BY <2>2, <2>4
  <2>7. QED
    BY <1>4, <2>2, <2>4, <2>5, <2>6 DEF c
<1>9. QED
  BY <1>7, <1>8

\* nanocbor_enter_map enters where _enter_container does, and counts twice.
LEMMA MapForm ==
  ASSUME NEW d \in Buffers, NEW v \in Iterators(d), enter_map(d, v).res = 0
  PROVE  LET c == enter_container(d, v, MAP)
             m == enter_map(d, v)
         IN  /\ c.res = 0 /\ m.it \in Iterators(d) /\ m.it.cur = c.it.cur /\ m.it.flags = c.it.flags
             /\ m.it.remaining = IF c.it.remaining = BIG THEN BIG ELSE c.it.remaining * 2
             /\ c.it.remaining \in Int
<1> DEFINE c == enter_container(d, v, MAP)
           m == enter_map(d, v)
<1>1. Opened(d, c) /\ m.res = 0
  BY ContainerIs
<1>2. m = IF c.res < 0 THEN c
          ELSE IF c.it.remaining = HUGE THEN [c EXCEPT !.res = -1]
          ELSE [c EXCEPT !.it.remaining = IF @ = BIG THEN BIG ELSE @ * 2]
  BY DEF enter_map, NANOCBOR_ERR_OVERFLOW
<1>3. \E r, i : c = [res |-> r, it |-> i]
  BY DEF enter_container
<1> HIDE DEF c, m
<1>4. ~(c.res < 0)
  BY <1>1, <1>2
<1>5. c.res = 0 /\ c.it \in Iterators(d)
  BY <1>1, <1>4 DEF Opened
<1>6. c.it.remaining # HUGE
  BY <1>1, <1>2, <1>3, <1>4
<1> DEFINE n == IF c.it.remaining = BIG THEN BIG ELSE c.it.remaining * 2
<1>7. n \in Int /\ c.it.remaining \in Int
  <2>1. c.it.remaining \in Int /\ BIG \in Int
    BY <1>5, IteratorIs DEF BIG
  <2>2. QED
    BY <2>1
<1>8. m = [c EXCEPT !.it.remaining = n]
  BY <1>2, <1>4, <1>6
<1> HIDE DEF n
<1>9. m.it = [c.it EXCEPT !.remaining = n]
  BY <1>3, <1>8
<1>10. m.it \in Iterators(d) /\ m.it.cur = c.it.cur /\ m.it.flags = c.it.flags /\ m.it.remaining = n
  BY <1>5, <1>7, <1>9 DEF Iterators
<1>11. QED
  BY <1>5, <1>7, <1>10 DEF n, m, c
-----------------------------------------------------------------------------
\* A sequence of two.
LEMMA AppendOne ==
  ASSUME NEW S, NEW x \in S, NEW e \in S
  PROVE  Append(<<x>>, e) = <<x, e>>
<1> DEFINE o == <<x>>
           p == <<x, e>>
           q == Append(o, e)
<1>1. /\ p \in Seq(S) /\ Len(p) = 2 /\ p[1] = x /\ p[2] = e
      /\ o \in Seq(S) /\ Len(o) = 1 /\ o[1] = x
  OBVIOUS
<1> HIDE DEF o, p
<1>2. q \in Seq(S) /\ Len(q) = Len(o) + 1 /\ (\A i \in 1 .. Len(o) : q[i] = o[i]) /\ q[Len(o) + 1] = e
  <2>1. o \in Seq(S)
    BY <1>1
  <2>2. QED
    BY <2>1, AppendProperties
<1> HIDE DEF q
<1>3. 1 \in 1 .. Len(o) /\ Len(o) + 1 = 2
  BY <1>1
<1>4. Len(q) = 2 /\ q[1] = x /\ q[2] = e
  BY <1>1, <1>2, <1>3
<1>5. \A i \in 1 .. Len(q) : i = 1 \/ i = 2
  BY <1>4
<1>6. q = p
  BY <1>1, <1>2, <1>4, <1>5, SeqEqual
<1>7. QED
  BY <1>6 DEF p, q, o

\* The first step of a skip in front of an item.
LEMMA FirstStep ==
  ASSUME NEW d \in Buffers, NEW v \in Iterators(d)
  PROVE  LET type == get_type(d, v)
             m == enter_map(d, v)
             a == enter_array(d, v)
             s == skip_step(d, <<v>>)
         IN  /\ type < 0 => s = [res |-> type, levels |-> <<v>>]
             /\ type = MAP /\ m.res = 0 => s = [res |-> 0, levels |-> <<v, m.it>>]
             /\ type = ARR /\ a.res = 0 => s = [res |-> 0, levels |-> <<v, a.it>>]
             /\ type = MAP /\ m.res < 0 => s = [res |-> m.res, levels |-> <<v>>]
             /\ type = ARR /\ a.res < 0 => s = [res |-> a.res, levels |-> <<v>>]
             /\ type \in {BSTR, TSTR} =>
                  s = [res |-> get_str(d, v, type).res, levels |-> <<get_str(d, v, type).it>>]
             /\ type \in {UINT, NINT, TAG, FLOAT} =>
                  s = [res |-> skip_simple(d, v).res, levels |-> <<skip_simple(d, v).it>>]
<1> DEFINE o == <<v>>
           type == get_type(d, v)
           m == enter_map(d, v)
           a == enter_array(d, v)
           str == get_str(d, v, type)
           simple == skip_simple(d, v)
           s == skip_step(d, o)
<1>1. o \in Seq(Iterators(d)) /\ Len(o) = 1 /\ Last(o) = v
  BY PairIs
<1>2. Front(o) = <<>>
  <2> HIDE DEF o
  <2>1. Len(o) >= 1 /\ Len(o) - 1 = 0
    BY <1>1
  <2>2. Front(o) \in Seq(Iterators(d)) /\ Len(Front(o)) = Len(o) - 1
    BY <1>1, <2>1, FrontIs
  <2>3. QED
    BY <2>1, <2>2, EmptySeq
<1>3. ASSUME NEW e PROVE Append(<<>>, e) = <<e>>
  OBVIOUS
<1>3a. ASSUME NEW e \in Iterators(d) PROVE Append(o, e) = <<v, e>>
  BY AppendOne
<1>3b. /\ ~(m.res < 0) => Append(o, m.it) = <<v, m.it>>
       /\ ~(a.res < 0) => Append(o, a.it) = <<v, a.it>>
  <2>1. Opened(d, m) /\ Opened(d, a)
    BY MapIs, ArrayIs
  <2> HIDE DEF m, a, o
  <2>2. (~(m.res < 0) => m.it \in Iterators(d)) /\ (~(a.res < 0) => a.it \in Iterators(d))
    BY <2>1 DEF Opened
  <2>3. QED
    BY <1>3a, <2>2
<1>4. ~(Len(o) > 1) /\ ~TooDeep(o)
  BY <1>1 DEF TooDeep, NANOCBOR_RECURSION_MAX
<1>5. s = CASE type < 0 -> [res |-> type, levels |-> o]
            [] type = MAP -> IF m.res < 0 THEN [res |-> m.res, levels |-> o]
                             ELSE [res |-> m.res, levels |-> <<v, m.it>>]
            [] type = ARR -> IF a.res < 0 THEN [res |-> a.res, levels |-> o]
                             ELSE [res |-> a.res, levels |-> <<v, a.it>>]
            [] type \in {BSTR, TSTR} -> [res |-> str.res, levels |-> <<str.it>>]
            [] OTHER -> [res |-> simple.res, levels |-> <<simple.it>>]
  <2> HIDE DEF o
  <2> DEFINE t == CASE type < 0 -> [res |-> type, levels |-> o]
                    [] type = MAP -> IF m.res < 0 THEN [res |-> m.res, levels |-> o]
                                     ELSE [res |-> m.res, levels |-> Append(o, m.it)]
                    [] type = ARR -> IF a.res < 0 THEN [res |-> a.res, levels |-> o]
                                     ELSE [res |-> a.res, levels |-> Append(o, a.it)]
                    [] type \in {BSTR, TSTR} -> [res |-> str.res, levels |-> Append(<<>>, str.it)]
                    [] OTHER -> [res |-> simple.res, levels |-> Append(<<>>, simple.it)]
  <2>1. s = t
    BY <1>1, <1>2, <1>4 DEF skip_step
  <2> HIDE DEF s, type, m, a, str, simple
  <2>2. QED
    BY <1>3, <1>3b, <2>1
<1>6. type \in Int
  BY TypeIs
<1> HIDE DEF s, type, m, a, str, simple
<1>7. type < 0 => s = [res |-> type, levels |-> o]
  BY <1>5, <1>6 DEF MAP, ARR, BSTR, TSTR
<1>8. /\ type = MAP /\ m.res = 0 => s = [res |-> 0, levels |-> <<v, m.it>>]
      /\ type = ARR /\ a.res = 0 => s = [res |-> 0, levels |-> <<v, a.it>>]
      /\ type = MAP /\ m.res < 0 => s = [res |-> m.res, levels |-> o]
      /\ type = ARR /\ a.res < 0 => s = [res |-> a.res, levels |-> o]
  <2> HIDE DEF o
  <2>1. CASE type = MAP
    <3>1. s = IF m.res < 0 THEN [res |-> m.res, levels |-> o] ELSE [res |-> m.res, levels |-> <<v, m.it>>]
      BY <1>5, <2>1 DEF MAP, ARR, BSTR, TSTR
    <3>2. QED
      BY <2>1, <3>1 DEF MAP, ARR
  <2>2. CASE type = ARR
    <3>1. s = IF a.res < 0 THEN [res |-> a.res, levels |-> o] ELSE [res |-> a.res, levels |-> <<v, a.it>>]
      BY <1>5, <2>2 DEF MAP, ARR, BSTR, TSTR
    <3>2. QED
      BY <2>2, <3>1 DEF MAP, ARR
  <2>3. QED
    BY <2>1, <2>2
<1>9. type \in {BSTR, TSTR} => s = [res |-> str.res, levels |-> <<str.it>>]
  BY <1>5, <1>6 DEF MAP, ARR, BSTR, TSTR
<1>10. type \in {UINT, NINT, TAG, FLOAT} => s = [res |-> simple.res, levels |-> <<simple.it>>]
  BY <1>5, <1>6 DEF MAP, ARR, BSTR, TSTR, UINT, NINT, TAG, FLOAT
<1>11. QED
  BY <1>7, <1>8, <1>9, <1>10 DEF s, type, m, a, str, simple

-----------------------------------------------------------------------------
\* nanocbor_enter_array and _enter_map go where the skip of the container begins.
LEMMA ReachEnter ==
  ASSUME NEW d \in Buffers, NEW v \in Iterators(d), ~at_end(d, v)
  PROVE  /\ enter_array(d, v).res = 0 => Reaches(d, v, enter_array(d, v).it)
         /\ enter_map(d, v).res = 0 => Reaches(d, v, enter_map(d, v).it)
<1>1. v.cur \in Nat /\ v.cur < Len(d) /\ Len(d) \in Nat /\ get_type(d, v) = Byte(d, v.cur) \div 32
  BY TypeIs, IteratorIs, LenProperties
<1>2. v.cur <= Len(d) + 10
  BY <1>1
<1>3. 0 \in 0 .. SkipRounds(d) /\ skip_limited(d, v)[0] = skip_step(d, <<v>>)
  BY <1>2, SkipLimitedIs
<1>4. ARR \in 0 .. 7 /\ MAP \in 0 .. 7
  BY DEF ARR, MAP
<1>5. ASSUME enter_array(d, v).res = 0 PROVE Reaches(d, v, enter_array(d, v).it)
  <2>1. get_type(d, v) = ARR
    BY <1>1, <1>4, <1>5, ContainerHead DEF enter_array
  <2>2. skip_step(d, <<v>>) = [res |-> 0, levels |-> <<v, enter_array(d, v).it>>]
    BY <1>5, <2>1, FirstStep
  <2>3. skip_limited(d, v)[0].levels = <<v, enter_array(d, v).it>>
    BY <1>3, <2>2
  <2>4. QED
    BY <1>3, <2>3 DEF Reaches
<1>6. ASSUME enter_map(d, v).res = 0 PROVE Reaches(d, v, enter_map(d, v).it)
  <2>1. enter_container(d, v, MAP).res = 0
    BY <1>6, MapForm
  <2>2. get_type(d, v) = MAP
    BY <1>1, <1>4, <2>1, ContainerHead
  <2>3. skip_step(d, <<v>>) = [res |-> 0, levels |-> <<v, enter_map(d, v).it>>]
    BY <1>6, <2>2, FirstStep
  <2>4. skip_limited(d, v)[0].levels = <<v, enter_map(d, v).it>>
    BY <1>3, <2>3
  <2>5. QED
    BY <1>3, <2>4 DEF Reaches
<1>7. QED
  BY <1>5, <1>6

\* A container that the skip is at the end of is left, and the skip is over.
LEMMA ReachLeave ==
  ASSUME NEW d \in Buffers, NEW r \in Iterators(d), r.cur <= Len(d) + 10, skip(d, r).res = 0,
         NEW w, Reaches(d, r, w), at_end(d, w)
  PROVE  skip(d, r).it = leave_container(r, w)
<1> DEFINE a == skip_limited(d, r)
           N == SkipRounds(d)
           e == leave_container(r, w)
<1>1. w \in Iterators(d)
  BY ReachesIs
<1>2. PICK m \in 0 .. N : a[m].levels = <<r, w>>
  BY DEF Reaches
<1>3. \A n \in 0 .. N : Len(a[n].levels) > 1 => n + 1 \in 0 .. N /\ a[n + 1] = skip_step(d, a[n].levels)
  BY SkipGoesOn
<1>4. Len(<<r, w>>) = 2 /\ Last(<<r, w>>) = w /\ Returned(<<r, w>>) = <<e>>
  <2>1. Len(<<r, w>>) = 2 /\ Last(<<r, w>>) = w
    BY DEF Last
  <2>2. Returned(<<r, w>>) = <<leave_container(r, w)>>
    BY <1>1, PairIs
  <2>3. QED
    BY <2>1, <2>2
<1> DEFINE p == <<r, w>>
<1>5. a[m].levels = p /\ Len(p) = 2 /\ Last(p) = w /\ Returned(p) = <<e>>
  BY <1>2, <1>4
<1> HIDE DEF a, N, e, p
<1>6. m + 1 \in 0 .. N /\ a[m + 1] = skip_step(d, p)
  <2>1. Len(a[m].levels) > 1
    BY <1>5
  <2>2. QED
    BY <1>2, <1>3, <1>5, <2>1
<1>7. a[m + 1].levels = <<e>>
  <2>1. Len(p) > 1
    BY <1>5
  <2>2. skip_step(d, p) = [res |-> 0, levels |-> <<e>>]
    BY <1>5, <2>1 DEF skip_step, NANOCBOR_OK
  <2>3. QED
    BY <1>6, <2>2
<1>8. Len(<<e>>) = 1 /\ <<e>>[1] = e
  OBVIOUS
<1>9. QED
  BY <1>6, <1>7, <1>8, SkipDone DEF a, N, e

\* A getter moved the iterator: as the skip of the item would have, or not at all.
Stepped(d, v, i) == i = v \/ (skip(d, v).res = 0 /\ i = skip(d, v).it)

\* Such a getter, in front of an item, keeps to what the skip comes by.
LEMMA ReachOn ==
  ASSUME NEW d \in Buffers, NEW r \in Iterators(d), r.cur <= Len(d) + 10, skip(d, r).res = 0,
         NEW w, Reaches(d, r, w), NEW i, Stepped(d, w, i), ~at_end(d, w)
  PROVE  Reaches(d, r, i)
BY ReachSkip DEF Stepped

\* _advance_if behind any head of a value that is nothing but its head.
LEMMA SteppedHead ==
  ASSUME NEW d \in Buffers, NEW v \in Iterators(d), NEW max \in 24 .. 27,
         NEW type \in {UINT, NINT, TAG, FLOAT}
  PROVE  Stepped(d, v, AdvanceIf(v, get_uint64(d, v, max, type).res))
<1> DEFINE h == get_uint64(d, v, max, type)
           i == AdvanceIf(v, h.res)
<1>1. CASE ~(h.res > 0)
  BY <1>1 DEF AdvanceIf, Stepped
<1>2. CASE h.res > 0
  <2>1. get_uint64(d, v, SIZE_LONG, type) = h /\ get_type(d, v) = type /\ ~at_end(d, v)
    BY <1>2, HeadWider
  <2>2. skip_simple(d, v) = [res |-> h.res, it |-> i]
    BY <2>1 DEF skip_simple
  <2>3. skip_step(d, <<v>>) = [res |-> h.res, levels |-> <<i>>]
    <3>1. skip_step(d, <<v>>) = [res |-> skip_simple(d, v).res, levels |-> <<skip_simple(d, v).it>>]
      BY <2>1, FirstStep
    <3>2. QED
      BY <2>2, <3>1
  <2>4. v.cur <= Len(d) + 10 /\ h.res \in Int
    <3>1. v.cur \in Nat /\ v.cur < Len(d) /\ Len(d) \in Nat
      BY <2>1, TypeIs, IteratorIs, LenProperties
    <3>2. QED
      BY <3>1, HeadFits
  <2> HIDE DEF h, i
  <2>5. skip(d, v).it = i /\ skip(d, v).res = 0
    BY <1>2, <2>3, <2>4, SkipOne
  <2>6. QED
    BY <2>5 DEF Stepped, h, i
<1>3. QED
  BY <1>1, <1>2

\* nanocbor_get_uint and nanocbor_get_int.
LEMMA SteppedUint ==
  ASSUME NEW d \in Buffers, NEW v \in Iterators(d), NEW max \in 24 .. 27
  PROVE  Stepped(d, v, get_uint(d, v, max).it)
BY SteppedHead DEF get_uint

LEMMA SteppedInt ==
  ASSUME NEW d \in Buffers, NEW v \in Iterators(d), NEW max \in 24 .. 27
  PROVE  /\ Stepped(d, v, get_int(d, v, max).it)
         /\ get_int(d, v, max).res > 0 =>
              /\ get_type(d, v) \in {UINT, NINT} /\ ~at_end(d, v)
              /\ skip(d, v).res = 0 /\ get_int(d, v, max).it = skip(d, v).it
              /\ get_int(d, v, max).it = Advance(v, get_int(d, v, max).res)
              /\ v.cur + get_int(d, v, max).res <= Len(d)
<1> DEFINE type == get_type(d, v)
           h == get_uint64(d, v, max, type)
           r == get_int(d, v, max)
           code == IF type < 0 THEN type
                   ELSE IF type \notin {UINT, NINT} THEN NANOCBOR_ERR_INVALID_TYPE
                   ELSE IF h.value > IntBound(max) THEN NANOCBOR_ERR_OVERFLOW
                   ELSE h.res
<1>1. r.res = code /\ r.it = AdvanceIf(v, code)
  BY DEF get_int
<1>2. type \in Int /\ h.res \in Int /\ (h.res >= 0 => h.res > 0 /\ v.cur + h.res <= Len(d))
  BY TypeIs, HeadFits
<1>3. CASE ~(code > 0)
  BY <1>1, <1>3 DEF AdvanceIf, Stepped
<1>4. CASE code > 0
  <2>1. type \in {UINT, NINT} /\ code = h.res
    <3> HIDE DEF type, h
    <3>1. QED
      BY <1>2, <1>4 DEF NANOCBOR_ERR_INVALID_TYPE, NANOCBOR_ERR_OVERFLOW
  <2>2. h.res > 0
    BY <1>4, <2>1
  <2>3. Stepped(d, v, AdvanceIf(v, h.res)) /\ ~at_end(d, v) /\ AdvanceIf(v, h.res) = Advance(v, h.res)
    BY <2>1, <2>2, SteppedHead, HeadWider DEF AdvanceIf
  <2>4. Advance(v, h.res) # v
    <3>1. v.cur \in Nat
      BY IteratorIs
    <3>2. Advance(v, h.res).cur = v.cur + h.res
      <4>1. v.cur + h.res >= 0
        BY <1>2, <2>2, <3>1
      <4>2. QED
        BY <1>2, <4>1, Moves
    <3> HIDE DEF h
    <3>3. v.cur + h.res # v.cur
      BY <1>2, <2>2, <3>1
    <3>4. QED
      BY <3>2, <3>3
  <2> HIDE DEF r, code, h, type
  <2>5. r.it = Advance(v, h.res) /\ r.res = h.res
    BY <1>1, <2>1, <2>3
  <2>6. skip(d, v).res = 0 /\ r.it = skip(d, v).it
    BY <2>3, <2>4, <2>5 DEF Stepped
  <2>7. v.cur + h.res <= Len(d)
    BY <1>2, <2>2
  <2>8. QED
    BY <2>1, <2>3, <2>5, <2>6, <2>7 DEF r, type, Stepped
<1>5. QED
  BY <1>3, <1>4, <1>1

-----------------------------------------------------------------------------
\* nanocbor_skip_simple.
LEMMA SteppedSimple ==
  ASSUME NEW d \in Buffers, NEW v \in Iterators(d), get_type(d, v) \in {UINT, NINT, TAG, FLOAT}
  PROVE  Stepped(d, v, skip_simple(d, v).it)
<1>1. SIZE_LONG \in 24 .. 27
  BY DEF SIZE_LONG
<1>2. QED
  BY <1>1, SteppedHead DEF skip_simple

\* nanocbor_get_null and nanocbor_get_bool.
LEMMA SteppedMatch ==
  ASSUME NEW d \in Buffers, NEW v \in Iterators(d), ~at_end(d, v), NEW byte \in 244 .. 246
  PROVE  Stepped(d, v, value_match_exact(d, v, byte).it)
<1> DEFINE m == value_match_exact(d, v, byte)
           h == get_uint64(d, v, SIZE_LONG, FLOAT)
<1>0. SIZE_LONG \in 24 .. 27 /\ FLOAT \in {UINT, NINT, TAG, FLOAT} /\ FLOAT = 7
  BY DEF SIZE_LONG, FLOAT
<1>1. CASE Byte(d, v.cur) = byte
  <2>1. m.it \in {v, Advance(v, 1)}
    BY DEF value_match_exact
  <2>2. byte \div 32 = 7 /\ byte % 32 < 24
    OBVIOUS
  <2>3. get_type(d, v) = 7
    BY <1>1, <2>2, TypeIs
  <2>4. h = [res |-> 1, value |-> Byte(d, v.cur) % 32]
    <3>1. ~(get_type(d, v) < 0)
      BY <2>3
    <3>2. QED
      BY <1>0, <1>1, <2>2, <2>3, <3>1, HeadForm
  <2>5. Stepped(d, v, AdvanceIf(v, h.res))
    BY <1>0, SteppedHead
  <2> HIDE DEF h, m
  <2>6. AdvanceIf(v, h.res) = Advance(v, 1)
    BY <2>4 DEF AdvanceIf
  <2>7. m.it = v \/ m.it = Advance(v, 1)
    BY <2>1
  <2>8. QED
    BY <2>5, <2>6, <2>7 DEF Stepped, m
<1>2. CASE Byte(d, v.cur) # byte
  BY <1>2 DEF value_match_exact, Stepped
<1>3. QED
  BY <1>1, <1>2

LEMMA SteppedBool ==
  ASSUME NEW d \in Buffers, NEW v \in Iterators(d), ~at_end(d, v)
  PROVE  Stepped(d, v, get_null(d, v).it) /\ Stepped(d, v, get_bool(d, v).it)
<1>1. NULL_BYTE \in 244 .. 246 /\ FALSE_BYTE \in 244 .. 246 /\ TRUE_BYTE \in 244 .. 246
  BY DEF NULL_BYTE, FALSE_BYTE, TRUE_BYTE
<1>2. get_bool(d, v) \in {value_match_exact(d, v, FALSE_BYTE), value_match_exact(d, v, TRUE_BYTE)}
  BY DEF get_bool
<1>3. /\ Stepped(d, v, value_match_exact(d, v, NULL_BYTE).it)
      /\ Stepped(d, v, value_match_exact(d, v, FALSE_BYTE).it)
      /\ Stepped(d, v, value_match_exact(d, v, TRUE_BYTE).it)
  BY <1>1, SteppedMatch
<1>4. QED
  BY <1>2, <1>3 DEF get_null

\* nanocbor_get_bstr and nanocbor_get_tstr.
LEMMA SteppedStr ==
  ASSUME NEW d \in Buffers, NEW v \in Iterators(d), ~at_end(d, v), NEW type \in {BSTR, TSTR}
  PROVE  /\ Stepped(d, v, get_str(d, v, type).it)
         /\ get_str(d, v, type).res = 0 => skip(d, v).res = 0 /\ get_str(d, v, type).it = skip(d, v).it
<1> DEFINE r == get_str(d, v, type)
           h == get_uint64(d, v, SIZE_LONG, type)
<1>1. r.res \in {0, -3}
  BY StrIs
<1>2. r = IF StrFits(v, h.value, h.res)
          THEN [res |-> 0, it |-> Advance(v, h.res + h.value),
                buf |-> v.cur + h.res, len |-> h.value]
          ELSE [res |-> -3, it |-> v, buf |-> -1, len |-> h.value]
  BY DEF get_str, NANOCBOR_OK, NANOCBOR_ERR_END
<1>3. CASE r.res = -3
  <2> HIDE DEF h, r
  <2>1. r.it = v
    BY <1>2, <1>3
  <2>2. QED
    BY <1>3, <2>1 DEF Stepped, r
<1>4. CASE r.res = 0
  <2>1. get_type(d, v) = type
    BY <1>4, StrIs, TypeIs
  <2>2. skip_step(d, <<v>>) = [res |-> r.res, levels |-> <<r.it>>]
    BY <2>1, FirstStep
  <2>3. v.cur <= Len(d) + 10
    <3>1. v.cur \in Nat /\ v.cur < Len(d) /\ Len(d) \in Nat
      BY TypeIs, IteratorIs, LenProperties
    <3>2. QED
      BY <3>1
  <2>4. skip(d, v).it = r.it /\ skip(d, v).res = 0
    BY <1>4, <2>2, <2>3, SkipOne
  <2>5. QED
    BY <2>4 DEF Stepped
<1>5. QED
  BY <1>1, <1>3, <1>4

\* A skip at the end of its container goes nowhere.
LEMMA SkipAtEnd ==
  ASSUME NEW d \in Buffers, NEW v \in Iterators(d), v.cur <= Len(d) + 10, at_end(d, v)
  PROVE  skip(d, v).it = v /\ skip(d, v).res = -3
<1>1. get_type(d, v) = -3
  BY TypeIs
<1>2. skip_step(d, <<v>>) = [res |-> -3, levels |-> <<v>>]
  <2>1. -3 < 0
    OBVIOUS
  <2>2. QED
    BY <1>1, <2>1, FirstStep
<1>3. QED
  BY <1>2, SkipOne

\* Whatever nanocbor_skip returns, it keeps to what the outer skip comes by.
LEMMA ReachAnySkip ==
  ASSUME NEW d \in Buffers, NEW r \in Iterators(d), r.cur <= Len(d) + 10, skip(d, r).res = 0,
         NEW w, Reaches(d, r, w)
  PROVE  Reaches(d, r, skip(d, w).it) /\ (skip(d, w).res = 0 \/ (at_end(d, w) /\ skip(d, w).it = w))
<1>1. w \in Iterators(d) /\ w.cur <= Len(d) + 10
  BY ReachesIs
<1>2. QED
  BY <1>1, SkipAtEnd, ReachSkip

\* So does nanocbor_get_key_tstr.
LEMMA ReachKey ==
  ASSUME NEW d \in Buffers, NEW key \in Buffers, NEW r \in Iterators(d), r.cur <= Len(d) + 10,
         skip(d, r).res = 0, NEW w, Reaches(d, r, w)
  PROVE  Reaches(d, r, get_key_tstr(d, w, key).it)
<1> DEFINE a == key_loop(d, w, key)
           N == KeyRounds(d)
           T == { n \in Nat : n <= N => Reaches(d, r, a[n].it) }
<1>1. w \in Iterators(d) /\ w.cur <= Len(d) + 10
  BY ReachesIs
<1>2. /\ N \in Nat /\ DOMAIN a = 0 .. N
      /\ a[0] = [res |-> NANOCBOR_NOT_FOUND, it |-> w, more |-> TRUE]
      /\ \A n \in 0 .. N - 1 : a[n + 1] = key_round(d, key, a[n])
  BY <1>1, KeyLoopIs
<1>3. ASSUME NEW s, Reaches(d, r, s.it) PROVE Reaches(d, r, key_round(d, key, s).it)
  <2> DEFINE str == get_tstr(d, s.it)
             val == skip(d, str.it)
             k == key_round(d, key, s)
  <2>1. k = IF ~s.more THEN s
            ELSE IF at_end(d, s.it) THEN [res |-> s.res, it |-> s.it, more |-> FALSE]
            ELSE IF str.res < 0 THEN [res |-> str.res, it |-> str.it, more |-> FALSE]
            ELSE IF SameKey(d, str, key) THEN [res |-> 0, it |-> str.it, more |-> FALSE]
            ELSE IF val.res < 0 THEN [res |-> val.res, it |-> val.it, more |-> FALSE]
            ELSE [res |-> val.res, it |-> val.it, more |-> TRUE]
    BY DEF key_round, NANOCBOR_OK
  <2>2. s.it \in Iterators(d)
    BY <1>3, ReachesIs
  <2>3. ~at_end(d, s.it) => Reaches(d, r, str.it)
    <3>1. TSTR \in {BSTR, TSTR}
      OBVIOUS
    <3>2. QED
      BY <1>3, <2>2, <3>1, SteppedStr, ReachOn DEF get_tstr
  <2>4. ~at_end(d, s.it) => Reaches(d, r, val.it)
    BY <2>3, ReachAnySkip
  <2> HIDE DEF str, val, k
  <2>5. \/ k = s \/ k.it = s.it
        \/ ~at_end(d, s.it) /\ (k.it = str.it \/ k.it = val.it)
    BY <2>1
  <2>6. QED
    BY <1>3, <2>3, <2>4, <2>5 DEF k
<1>4. get_key_tstr(d, w, key).it = w \/ \E n \in DOMAIN a : get_key_tstr(d, w, key).it = a[n].it
  BY DEF get_key_tstr, Stopped
<1> HIDE DEF a, N
<1>5. 0 \in T
  BY <1>2
<1>6. ASSUME NEW n \in Nat, n \in T PROVE n + 1 \in T
  <2> SUFFICES ASSUME n + 1 <= N PROVE Reaches(d, r, a[n + 1].it)
    OBVIOUS
  <2>1. n <= N /\ n \in 0 .. N - 1
    BY <1>2
  <2>2. Reaches(d, r, a[n].it) /\ a[n + 1] = key_round(d, key, a[n])
    BY <1>2, <1>6, <2>1
  <2>3. QED
    BY <1>3, <2>2
<1>7. \A n \in Nat : n \in T
  <2> HIDE DEF T
  <2>1. QED
    BY <1>5, <1>6, AllNumbers
<1>8. \A n \in 0 .. N : Reaches(d, r, a[n].it)
  <2>1. \A n \in 0 .. N : n \in Nat /\ n <= N
    BY <1>2
  <2>2. QED
    BY <1>7, <2>1
<1>9. QED
  BY <1>2, <1>4, <1>8

-----------------------------------------------------------------------------
\* The walk and the skips.

\* Moving from v to i keeps to what any skip around v comes by.
Keeps(d, v, i) ==
  \A r \in Iterators(d) : r.cur <= Len(d) + 10 /\ skip(d, r).res = 0 /\ Reaches(d, r, v) => Reaches(d, r, i)

LEMMA SteppedKeeps ==
  ASSUME NEW d \in Buffers, NEW v \in Iterators(d), ~at_end(d, v), NEW i, Stepped(d, v, i)
  PROVE  Keeps(d, v, i)
BY ReachOn DEF Keeps

\* A parent, being in front of a byte, is not behind the end.
LEMMA ParentIs ==
  ASSUME NEW d \in Buffers, NEW s \in Seq(Iterators(d)), AlongSkips(d, s), NEW k \in 1 .. Len(s) - 1
  PROVE  /\ k \in 1 .. Len(s) /\ k + 1 \in 1 .. Len(s)
         /\ s[k] \in Iterators(d) /\ s[k].cur <= Len(d) + 10 /\ ~at_end(d, s[k])
         /\ skip(d, s[k]).res = 0 => Reaches(d, s[k], s[k + 1])
<1>1. Len(s) \in Nat /\ Len(d) \in Nat
  BY LenProperties
<1>2. k \in 1 .. Len(s) /\ k + 1 \in 1 .. Len(s)
  BY <1>1
<1>3. s[k] \in Iterators(d)
  BY <1>2, ElementOfSeq
<1>4. ~at_end(d, s[k]) /\ (skip(d, s[k]).res = 0 => Reaches(d, s[k], s[k + 1]))
  BY DEF AlongSkips, NANOCBOR_OK
<1>5. s[k].cur < Len(d) /\ s[k].cur \in Nat
  BY <1>3, <1>4, NotAtEnd, IteratorIs
<1>6. s[k].cur <= Len(d) + 10
  BY <1>1, <1>5
<1>7. QED
  BY <1>2, <1>3, <1>4, <1>6

\* The innermost iterator moves.
LEMMA AlongMoved ==
  ASSUME NEW d \in Buffers, NEW s \in Seq(Iterators(d)), AlongSkips(d, s),
         NEW t, Len(t) = Len(s), \A k \in 1 .. Len(s) - 1 : t[k] = s[k],
         Keeps(d, s[Len(s)], t[Len(s)])
  PROVE  AlongSkips(d, t)
<1> DEFINE n == Len(s)
<1>1. n \in Nat
  BY LenProperties
<1> HIDE DEF n
<1> SUFFICES ASSUME NEW k \in 1 .. n - 1
             PROVE  ~at_end(d, t[k]) /\ (skip(d, t[k]).res = 0 => Reaches(d, t[k], t[k + 1]))
  BY DEF AlongSkips, NANOCBOR_OK, n
<1>2. /\ k \in 1 .. n /\ k + 1 \in 1 .. n
      /\ s[k] \in Iterators(d) /\ s[k].cur <= Len(d) + 10 /\ ~at_end(d, s[k])
      /\ skip(d, s[k]).res = 0 => Reaches(d, s[k], s[k + 1])
  BY ParentIs DEF n
<1>3. t[k] = s[k]
  BY DEF n
<1>4. CASE k + 1 = n
  BY <1>2, <1>3, <1>4 DEF Keeps, n
<1>5. CASE k + 1 # n
  <2>1. k + 1 \in 1 .. n - 1
    BY <1>1, <1>2, <1>5
  <2>2. t[k + 1] = s[k + 1]
    BY <2>1 DEF n
  <2>3. QED
    BY <1>2, <1>3, <2>2
<1>6. QED
  BY <1>4, <1>5

\* A container is entered in front of an item.
LEMMA AlongEntered ==
  ASSUME NEW d \in Buffers, NEW s \in Seq(Iterators(d)), AlongSkips(d, s), Len(s) >= 1,
         ~at_end(d, s[Len(s)]), NEW i \in Iterators(d), Reaches(d, s[Len(s)], i)
  PROVE  AlongSkips(d, Append(s, i))
<1> DEFINE n == Len(s)
           t == Append(s, i)
<1>1. n \in Nat /\ n >= 1
  BY LenProperties
<1>2. Len(t) = n + 1 /\ t[n + 1] = i /\ \A k \in 1 .. n : t[k] = s[k]
  BY AppendProperties
<1> HIDE DEF t, n
<1> SUFFICES ASSUME NEW k \in 1 .. n
             PROVE  ~at_end(d, t[k]) /\ (skip(d, t[k]).res = 0 => Reaches(d, t[k], t[k + 1]))
  <2>1. Len(t) - 1 = n
    BY <1>1, <1>2
  <2>2. QED
    BY <2>1 DEF AlongSkips, NANOCBOR_OK, t
<1>3. CASE k = n
  BY <1>2, <1>3 DEF n
<1>4. CASE k # n
  <2>1. k \in 1 .. n - 1 /\ k + 1 \in 1 .. n
    BY <1>1, <1>4
  <2>2. ~at_end(d, s[k]) /\ (skip(d, s[k]).res = 0 => Reaches(d, s[k], s[k + 1]))
    BY <2>1, ParentIs DEF n
  <2>3. QED
    BY <1>2, <2>1, <2>2
<1>5. QED
  BY <1>3, <1>4

\* A container that is exhausted is left for where its skip ends.
LEMMA AlongLeft ==
  ASSUME NEW d \in Buffers, NEW s \in Seq(Iterators(d)), AlongSkips(d, s), Len(s) > 1,
         at_end(d, s[Len(s)])
  PROVE  LET p == s[Len(s) - 1]
             t == Returned(s)
         IN  /\ skip(d, p).res = 0 => skip(d, p).it = t[Len(s) - 1]
             /\ AlongSkips(d, t)
<1> DEFINE n == Len(s)
           t == Returned(s)
           w == s[n]
           p == s[n - 1]
<1>1. n \in Nat /\ n >= 1 /\ n > 1
  BY LenProperties
<1>2. n - 1 \in 1 .. n - 1 /\ n - 1 \in Nat /\ n \in 1 .. n /\ (n - 1) + 1 = n /\ n - 1 \in 1 .. n
  <2> HIDE DEF n
  <2>1. QED
    BY <1>1
<1>3. /\ p \in Iterators(d) /\ p.cur <= Len(d) + 10 /\ ~at_end(d, p)
      /\ skip(d, p).res = 0 => Reaches(d, p, w)
  <2>1. /\ p \in Iterators(d) /\ p.cur <= Len(d) + 10 /\ ~at_end(d, p)
        /\ skip(d, p).res = 0 => Reaches(d, p, s[(n - 1) + 1])
    BY <1>2, ParentIs
  <2>2. QED
    BY <1>2, <2>1
<1>4. w \in Iterators(d)
  BY <1>2, ElementOfSeq
<1>5. /\ Len(t) = n - 1
      /\ \A k \in 1 .. n - 1 : k # n - 1 => t[k] = s[k]
  BY ReturnedTo
<1>6. t[n - 1] = leave_container(p, w)
  <2> DEFINE f == Front(s)
             e == leave_container(Last(f), Last(s))
  <2>1. f \in Seq(Iterators(d)) /\ Len(f) = n - 1 /\ (\A k \in 1 .. n - 1 : f[k] = s[k]) /\ Last(s) = w
    BY <1>1, FrontIs
  <2> HIDE DEF f, n
  <2>2. Len(f) >= 1
    BY <1>1, <2>1
  <2>3. Last(f) = p
    <3>1. Last(f) = f[Len(f)]
      BY DEF Last
    <3>2. QED
      BY <1>2, <2>1, <3>1
  <2>4. e \in Iterators(d) /\ e = leave_container(p, w)
    BY <1>3, <1>4, <2>1, <2>3, LeaveIs
  <2> HIDE DEF e
  <2>5. /\ Len(Append(Front(f), e)) = Len(f)
        /\ \A k \in 1 .. Len(f) : Append(Front(f), e)[k] = IF k = Len(f) THEN e ELSE f[k]
    BY <2>1, <2>2, <2>4, ReplacedIs
  <2>6. t = Append(Front(f), e)
    BY DEF Returned, f, e
  <2>7. Len(f) \in 1 .. Len(f)
    BY <1>2, <2>1
  <2>8. QED
    BY <2>1, <2>4, <2>5, <2>6, <2>7
<1>7. ASSUME skip(d, p).res = 0 PROVE skip(d, p).it = leave_container(p, w)
  BY <1>3, <1>7, ReachLeave
<1> HIDE DEF n, t, p, w
<1>8. AlongSkips(d, t)
  <2> SUFFICES ASSUME NEW k \in 1 .. (n - 1) - 1
               PROVE  ~at_end(d, t[k]) /\ (skip(d, t[k]).res = 0 => Reaches(d, t[k], t[k + 1]))
    BY <1>5 DEF AlongSkips, NANOCBOR_OK
  <2>1. k \in 1 .. n - 1 /\ k # n - 1 /\ k + 1 \in 1 .. n - 1
    BY <1>1
  <2>2. /\ s[k] \in Iterators(d) /\ s[k].cur <= Len(d) + 10 /\ ~at_end(d, s[k])
        /\ skip(d, s[k]).res = 0 => Reaches(d, s[k], s[k + 1])
    BY <2>1, ParentIs DEF n
  <2>3. t[k] = s[k]
    BY <1>5, <2>1
  <2>4. CASE k + 1 = n - 1
    <3> SUFFICES ASSUME skip(d, s[k]).res = 0 PROVE Reaches(d, s[k], t[n - 1])
      BY <2>2, <2>3, <2>4
    <3>1. Reaches(d, s[k], p)
      BY <2>2, <2>4 DEF p
    <3>2. skip(d, p).res = 0 /\ Reaches(d, s[k], skip(d, p).it)
      BY <1>3, <2>2, <3>1, ReachSkip
    <3>3. QED
      BY <1>6, <1>7, <3>2
  <2>5. CASE k + 1 # n - 1
    <3>1. t[k + 1] = s[k + 1]
      BY <1>5, <2>1, <2>5
    <3>2. QED
      BY <2>2, <2>3, <3>1
  <2>6. QED
    BY <2>4, <2>5
<1>9. QED
  BY <1>6, <1>7, <1>8 DEF n, t, p, w

-----------------------------------------------------------------------------
\* The walk.

\* The innermost iterator is one.
LEMMA InnermostIs ==
  ASSUME TypeOK
  PROVE  it \in Iterators(data) /\ Len(data) \in Nat
<1>1. data \in Buffers /\ levels \in Seq(Iterators(data)) /\ Len(levels) \in 1 .. MaxLevels
  BY DEF TypeOK
<1>2. it \in Iterators(data) /\ Len(data) \in Nat
  <2>1. Len(levels) \in Nat
    BY <1>1, LenProperties
  <2>2. Len(levels) >= 1
    BY <1>1, <2>1
  <2>3. QED
    BY <1>1, <2>2, FrontIs, LenProperties DEF it
<1>3. QED
  BY <1>2

\* _get_str never moves the iterator back.
LEMMA StrForward ==
  ASSUME NEW d \in Buffers, NEW v \in Iterators(d), NEW type
  PROVE  get_str(d, v, type).it.cur \in Nat /\ get_str(d, v, type).it.cur >= v.cur
<1> DEFINE h == get_uint64(d, v, SIZE_LONG, type)
           r == get_str(d, v, type)
<1>1. h.res \in Int /\ h.value \in Int /\ v.cur \in Nat /\ v.end \in Nat
  <2>1. SIZE_LONG \in 24 .. 27
    BY DEF SIZE_LONG
  <2>2. QED
    BY <2>1, HeadFits, IteratorIs
<1>2. r.it = IF StrFits(v, h.value, h.res) THEN Advance(v, h.res + h.value) ELSE v
  BY DEF get_str
<1> HIDE DEF h, r
<1>3. CASE StrFits(v, h.value, h.res)
  <2> DEFINE n == h.res + h.value
  <2>1. n \in Int /\ n >= 0
    BY <1>1, <1>3 DEF StrFits
  <2>2. r.it = Advance(v, n)
    BY <1>2, <1>3
  <2> HIDE DEF n
  <2>3. v.cur + n >= 0
    BY <1>1, <2>1
  <2>4. Advance(v, n).cur = v.cur + n
    BY <2>1, <2>3, Moves
  <2>5. QED
    BY <1>1, <2>1, <2>2, <2>4 DEF r
<1>4. CASE ~StrFits(v, h.value, h.res)
  BY <1>1, <1>2, <1>4 DEF r
<1>5. QED
  BY <1>3, <1>4

\* An operation that moves the innermost iterator.
LEMMA MovedKeeps ==
  ASSUME IndInv, NEW op, NEW next \in Iterators(data), NEW code, NEW str, NEW key,
         MovedKey(op, next, code, str, key),
         next.cur <= Len(data) + 10,
         op = "string" /\ code = 0 =>
           /\ next.cur = str.buf + str.len
           /\ it.cur <= next.cur /\ next.cur <= Len(data)
           /\ str.len >= -9,
         op = "key" /\ code = 0 => at_end(data, next) \/ TextBefore(data, next.cur, key)
  PROVE  IndInv'
<1>1. /\ data \in Buffers /\ levels \in Seq(Iterators(data)) /\ Len(levels) \in 1 .. MaxLevels
      /\ \A k \in 1 .. Len(levels) : levels[k].cur <= Len(data) + 10 + (MaxLevels - k)
  BY DEF IndInv, TypeOK, Overrun, NANOCBOR_RECURSION_MAX
<1>2. /\ levels' = [levels EXCEPT ![Len(levels)] = next]
      /\ last' = [op |-> op, before |-> it, res |-> code, buf |-> str.buf, len |-> str.len, key |-> key]
      /\ data' = data
  BY DEF MovedKey
<1>3. Len(levels) \in Nat /\ Len(data) \in Nat /\ MaxLevels \in Nat
  BY <1>1, LenProperties, LevelsAssumption
<1> DEFINE n == Len(levels)
<1>4. n \in Nat /\ n >= 1 /\ n <= MaxLevels /\ n \in 1 .. n
  BY <1>1, <1>3
<1>5. next.cur \in Nat
  BY <1>1, IteratorIs
<1>6. /\ levels' \in Seq(Iterators(data)) /\ Len(levels') = n /\ levels'[n] = next
      /\ \A k \in 1 .. n : k # n => levels'[k] = levels[k]
  BY <1>1, <1>2, <1>4, ExceptSeq
<1> HIDE DEF n
<1>7. TypeOK'
  <2>1. Len(levels') \in 1 .. MaxLevels
    BY <1>3, <1>4, <1>6
  <2>2. QED
    BY <1>1, <1>2, <1>6, <2>1 DEF TypeOK
<1>8. ASSUME NEW k \in 1 .. n PROVE levels'[k].cur <= Len(data) + 10 + (MaxLevels - k)
  <2>1. CASE k = n
    BY <1>3, <1>4, <1>5, <1>6, <2>1
  <2>2. CASE k # n
    BY <1>1, <1>6, <2>2 DEF n
  <2>3. QED
    BY <2>1, <2>2
<1>9. Overrun'
  BY <1>2, <1>6, <1>8 DEF Overrun, NANOCBOR_RECURSION_MAX
<1>10. it' = next
  BY <1>6 DEF it, Last
<1>11. /\ last'.op = op /\ last'.res = code /\ last'.buf = str.buf /\ last'.len = str.len
       /\ last'.key = key /\ last'.before = it
  BY <1>2
<1>12. StringInside'
  BY <1>2, <1>10, <1>11 DEF StringInside, NANOCBOR_OK
<1>13. Ended' = at_end(data, next)
  BY <1>2, <1>10 DEF Ended
<1>14. ValueOfKey'
  BY <1>2, <1>10, <1>11, <1>13 DEF ValueOfKey, NANOCBOR_OK
<1>15. QED
  BY <1>7, <1>9, <1>12, <1>14 DEF IndInv

\* An operation that neither reads a string nor looks for a key.
LEMMA PlainKeeps ==
  ASSUME IndInv, ~Ended, NEW op, op \notin {"string", "key"}, NEW next, NEW code, NEW str,
         Moved(op, next, code, str),
         \/ Near(data, it, next, 0)
         \/ Near(data, it, next, 1)
         \/ next \in Iterators(data) /\ next.cur <= Len(data) + 10
  PROVE  IndInv'
<1>1. data \in Buffers
  BY DEF IndInv, TypeOK
<1>2. it \in Iterators(data) /\ Len(data) \in Nat
  BY InnermostIs DEF IndInv
<1>3. it.cur < Len(data) /\ it.cur \in Nat
  BY <1>1, <1>2, NotAtEnd, IteratorIs DEF Ended
<1>4. next \in Iterators(data) /\ (next = it \/ next.cur <= Len(data) + 0 \/ next.cur <= Len(data) + 1 \/ next.cur <= Len(data) + 10)
  BY DEF Near
<1>5. next.cur \in Nat
  BY <1>1, <1>4, IteratorIs
<1>6. next.cur <= Len(data) + 10
  BY <1>2, <1>3, <1>4, <1>5
<1>7. MovedKey(op, next, code, str, <<>>)
  BY DEF Moved
<1>8. QED
  BY <1>4, <1>6, <1>7, MovedKeeps

\* A container is entered.
LEMMA EnteredKeeps ==
  ASSUME IndInv, NEW op, op \notin {"string", "key"}, NEW c, Opened(data, c), Entered(op, c)
  PROVE  IndInv'
<1>1. /\ data \in Buffers /\ levels \in Seq(Iterators(data)) /\ Len(levels) \in 1 .. MaxLevels
      /\ \A k \in 1 .. Len(levels) : levels[k].cur <= Len(data) + 10 + (MaxLevels - k)
  BY DEF IndInv, TypeOK, Overrun, NANOCBOR_RECURSION_MAX
<1>2. /\ levels' = IF c.res = 0 THEN Append(levels, c.it) ELSE levels
      /\ last'.op = op
      /\ data' = data
      /\ Len(levels) < MaxLevels
  BY DEF Entered, NANOCBOR_OK
<1>3. Len(levels) \in Nat /\ Len(data) \in Nat /\ MaxLevels \in Nat
  BY <1>1, LenProperties, LevelsAssumption
<1>4. StringInside' /\ ValueOfKey'
  BY <1>2 DEF StringInside, ValueOfKey
<1>5. CASE c.res # 0
  <2>1. levels' = levels
    BY <1>2, <1>5
  <2>2. QED
    BY <1>2, <1>4, <2>1 DEF IndInv, TypeOK, Overrun
<1>6. CASE c.res = 0
  <2>1. c.it \in Iterators(data) /\ c.it.cur <= Len(data)
    BY <1>6 DEF Opened
  <2>2. c.it.cur \in Nat
    BY <1>1, <2>1, IteratorIs
  <2> DEFINE n == Len(levels)
             t == Append(levels, c.it)
  <2>3. /\ t \in Seq(Iterators(data)) /\ Len(t) = n + 1 /\ t[n + 1] = c.it
        /\ \A k \in 1 .. n : t[k] = levels[k]
    BY <1>1, <2>1, AppendProperties
  <2>4. levels' = t /\ n \in Nat /\ n < MaxLevels
    BY <1>2, <1>3, <1>6
  <2> HIDE DEF t, n
  <2>5. Len(t) \in 1 .. MaxLevels
    BY <1>3, <2>3, <2>4
  <2>6. ASSUME NEW k \in 1 .. n + 1 PROVE t[k].cur <= Len(data) + 10 + (MaxLevels - k)
    <3>1. CASE k = n + 1
      <4>1. Len(data) + 10 + (MaxLevels - k) >= Len(data) /\ MaxLevels - k \in Int
        BY <1>3, <2>4, <3>1
      <4>2. c.it.cur <= Len(data) + 10 + (MaxLevels - k)
        BY <1>3, <2>1, <2>2, <4>1
      <4>3. QED
        BY <2>3, <3>1, <4>2
    <3>2. CASE k # n + 1
      <4>1. k \in 1 .. n
        BY <2>4, <3>2
      <4>2. QED
        BY <1>1, <2>3, <4>1 DEF n
    <3>3. QED
      BY <3>1, <3>2
  <2>7. TypeOK'
    BY <1>1, <1>2, <2>3, <2>4, <2>5 DEF TypeOK
  <2>8. Overrun'
    BY <1>2, <2>3, <2>4, <2>6 DEF Overrun, NANOCBOR_RECURSION_MAX
  <2>9. QED
    BY <1>4, <2>7, <2>8 DEF IndInv
<1>7. QED
  BY <1>5, <1>6

\* A container is left.
LEMMA LeaveKeeps ==
  ASSUME IndInv, LeaveContainer
  PROVE  IndInv'
<1>1. /\ data \in Buffers /\ levels \in Seq(Iterators(data)) /\ Len(levels) \in 1 .. MaxLevels
      /\ \A k \in 1 .. Len(levels) : levels[k].cur <= Len(data) + 10 + (MaxLevels - k)
  BY DEF IndInv, TypeOK, Overrun, NANOCBOR_RECURSION_MAX
<1>2. levels' = Returned(levels) /\ last'.op = "leave" /\ data' = data /\ Len(levels) > 1
  BY DEF LeaveContainer
<1>3. Len(levels) \in Nat /\ Len(data) \in Nat /\ MaxLevels \in Nat
  BY <1>1, LenProperties, LevelsAssumption
<1>4. StringInside' /\ ValueOfKey'
  BY <1>2 DEF StringInside, ValueOfKey
<1> DEFINE n == Len(levels)
           t == Returned(levels)
<1>5. /\ t \in Seq(Iterators(data)) /\ Len(t) = n - 1
      /\ \A k \in 1 .. n - 1 : k # n - 1 => t[k] = levels[k]
      /\ levels[n].cur \in Nat /\ t[n - 1].cur \in Nat
      /\ t[n - 1].cur <= levels[n].cur + 1
  BY <1>1, <1>2, ReturnedTo
<1>6. n \in Nat /\ n > 1 /\ n <= MaxLevels
  BY <1>1, <1>2, <1>3
<1>7. n \in 1 .. n
  BY <1>6
<1>8. levels[n].cur <= Len(data) + 10 + (MaxLevels - n)
  BY <1>1, <1>7
<1>9. levels' = t
  BY <1>2
<1> HIDE DEF n, t
<1>10. Len(t) \in 1 .. MaxLevels
  BY <1>3, <1>5, <1>6
<1>11. ASSUME NEW k \in 1 .. n - 1 PROVE t[k].cur <= Len(data) + 10 + (MaxLevels - k)
  <2>1. CASE k = n - 1
    <3> DEFINE x == levels[n].cur
               y == t[n - 1].cur
               e == Len(data) + 10
    <3>1. x \in Int /\ y \in Int /\ n \in Int /\ e \in Int /\ MaxLevels \in Int
      BY <1>3, <1>5, <1>6
    <3>2. y <= x + 1 /\ x <= e + (MaxLevels - n)
      BY <1>5, <1>8
    <3> HIDE DEF x, y, e
    <3>3. y <= e + (MaxLevels - (n - 1))
      BY <3>1, <3>2, OneUp
    <3>4. QED
      BY <2>1, <3>3 DEF y, e
  <2>2. CASE k # n - 1
    <3>1. k \in 1 .. n
      BY <1>6
    <3>2. QED
      BY <1>1, <1>5, <2>2, <3>1 DEF n
  <2>3. QED
    BY <2>1, <2>2
<1>12. TypeOK'
  BY <1>1, <1>2, <1>5, <1>9, <1>10 DEF TypeOK
<1>13. Overrun'
  BY <1>2, <1>5, <1>9, <1>11 DEF Overrun, NANOCBOR_RECURSION_MAX
<1>14. QED
  BY <1>4, <1>12, <1>13 DEF IndInv

\* nanocbor_get_bstr and nanocbor_get_tstr.
LEMMA StringKeeps ==
  ASSUME IndInv, ~Ended, NEW type,
         LET r == get_str(data, it, type) IN Moved("string", r.it, r.res, r)
  PROVE  IndInv'
<1> DEFINE r == get_str(data, it, type)
<1>1. data \in Buffers
  BY DEF IndInv, TypeOK
<1>2. it \in Iterators(data) /\ Len(data) \in Nat
  BY InnermostIs DEF IndInv
<1>3. it.cur < Len(data) /\ it.cur \in Nat
  BY <1>1, <1>2, NotAtEnd, IteratorIs DEF Ended
<1>4. /\ Near(data, it, r.it, 0)
      /\ r.res = 0 => /\ r.it.cur = r.buf + r.len /\ r.it.cur <= Len(data)
                      /\ r.buf \in Nat /\ r.len \in Int /\ r.buf - it.cur \in 1 .. 9
      /\ r.it.cur >= it.cur
  BY <1>1, <1>2, StrIs, StrForward
<1>5. MovedKey("string", r.it, r.res, r, <<>>)
  BY DEF Moved
<1> HIDE DEF r
<1>6. r.it \in Iterators(data) /\ (r.it = it \/ r.it.cur <= Len(data) + 0)
  BY <1>4 DEF Near
<1>7. r.it.cur \in Nat
  BY <1>1, <1>6, IteratorIs
<1>8. r.it.cur <= Len(data) + 10
  BY <1>2, <1>3, <1>6, <1>7
<1>9. r.res = 0 => it.cur <= r.it.cur /\ r.len >= -9
  BY <1>3, <1>4, <1>7
<1>10. QED
  BY <1>4, <1>5, <1>6, <1>8, <1>9, MovedKeeps

\* nanocbor_get_key_tstr.
LEMMA KeyKeeps ==
  ASSUME IndInv, NEW key \in Keys, GetKeyTstr(key)
  PROVE  IndInv'
<1> DEFINE r == get_key_tstr(data, it, key)
<1>1. data \in Buffers
  BY DEF IndInv, TypeOK
<1>2. it \in Iterators(data) /\ Len(data) \in Nat
  BY InnermostIs DEF IndInv
<1>3. it.cur <= Len(data) + 10
  <2>1. it.cur < Len(data) /\ it.cur \in Nat
    BY <1>1, <1>2, NotAtEnd, IteratorIs DEF Ended, GetKeyTstr
  <2>2. QED
    BY <1>2, <2>1
<1>4. key \in Buffers
  BY BuffersAssumption
<1>5. /\ r.it \in Iterators(data) /\ r.it.cur <= Len(data) + 10
      /\ r.res = 0 => at_end(data, r.it) \/ TextBefore(data, r.it.cur, key)
  BY <1>1, <1>2, <1>3, <1>4, KeyIs
<1>6. MovedKey("key", r.it, r.res, NoString, key)
  BY DEF GetKeyTstr
<1> HIDE DEF r
<1>7. QED
  BY <1>5, <1>6, MovedKeeps
-----------------------------------------------------------------------------
\* Every operation of the decoder keeps the invariant, whatever the bytes are.
LEMMA NextKeeps ==
  ASSUME IndInv, Next
  PROVE  IndInv'
<1>1. data \in Buffers /\ it \in Iterators(data) /\ Len(data) \in Nat
  BY InnermostIs DEF IndInv, TypeOK
<1>2. ASSUME NEW max \in {SIZE_BYTE, SIZE_SHORT, SIZE_WORD}, GetUint(max) PROVE IndInv'
  <2>1. max \in 24 .. 27
    BY DEF SIZE_BYTE, SIZE_SHORT, SIZE_WORD
  <2>2. Near(data, it, get_uint(data, it, max).it, 0)
    BY <1>1, <2>1, UintIs
  <2>3. QED
    BY <1>2, <2>2, PlainKeeps DEF GetUint
<1>3. ASSUME NEW max \in {SIZE_BYTE, SIZE_SHORT, SIZE_WORD}, GetInt(max) PROVE IndInv'
  <2>1. max \in 24 .. 27
    BY DEF SIZE_BYTE, SIZE_SHORT, SIZE_WORD
  <2>2. Near(data, it, get_int(data, it, max).it, 0)
    BY <1>1, <2>1, IntIs
  <2>3. QED
    BY <1>3, <2>2, PlainKeeps DEF GetInt
<1>4. CASE GetTag
  BY <1>1, <1>4, TagIs, PlainKeeps DEF GetTag
<1>5. CASE GetDecimalFrac
  BY <1>1, <1>5, DecimalFracIs, PlainKeeps DEF GetDecimalFrac
<1>6. CASE GetBstr
  BY <1>6, StringKeeps DEF GetBstr, get_bstr
<1>7. CASE GetTstr
  BY <1>7, StringKeeps DEF GetTstr, get_tstr
<1>8. CASE GetNull
  BY <1>1, <1>8, NullIs, PlainKeeps DEF GetNull
<1>9. CASE GetBool
  BY <1>1, <1>9, BoolIs, PlainKeeps DEF GetBool
<1>10. ~Ended => skip(data, it).it \in Iterators(data) /\ skip(data, it).it.cur <= Len(data) + 10
  <2>1. it.cur \in Nat /\ (~Ended => it.cur < Len(data))
    BY <1>1, NotAtEnd, IteratorIs DEF Ended
  <2>2. ~Ended => it.cur <= Len(data) + 10
    BY <1>1, <2>1
  <2>3. QED
    BY <1>1, <2>2, SkipIs
<1>11. CASE Skip
  BY <1>10, <1>11, PlainKeeps DEF Skip
<1>12. CASE SkipSimple
  <2>1. ~Ended
    BY <1>1, <1>12, TypeIs DEF SkipSimple, Ended, UINT, NINT, TAG, FLOAT
  <2>2. QED
    BY <1>1, <1>12, <2>1, SimpleIs, PlainKeeps DEF SkipSimple
<1>13. CASE GetSubcbor
  <2>1. get_subcbor(data, it).it = skip(data, it).it
    BY DEF get_subcbor
  <2>2. QED
    BY <1>10, <1>13, <2>1, PlainKeeps DEF GetSubcbor
<1>14. ASSUME NEW key \in Keys, GetKeyTstr(key) PROVE IndInv'
  BY <1>14, KeyKeeps
<1>15. CASE EnterArray
  BY <1>1, <1>15, ArrayIs, EnteredKeeps DEF EnterArray
<1>16. CASE EnterMap
  BY <1>1, <1>16, MapIs, EnteredKeeps DEF EnterMap
<1>17. CASE LeaveContainer
  BY <1>17, LeaveKeeps
<1>18. QED
  BY <1>2, <1>3, <1>4, <1>5, <1>6, <1>7, <1>8, <1>9, <1>11, <1>12, <1>13, <1>14, <1>15, <1>16, <1>17
     DEF Next

\* A fresh decoder satisfies the invariant.
LEMMA InitHolds ==
  ASSUME Init
  PROVE  IndInv
<1>1. data \in Buffers /\ Len(data) \in Nat /\ MaxLevels \in Nat /\ MaxLevels >= 1
  BY BuffersAssumption, LevelsAssumption, LenProperties DEF Init
<1> DEFINE v == decoder_init(data)
<1>2. v \in Iterators(data) /\ v.cur = 0
  BY <1>1 DEF decoder_init, Iterators, FLAGS
<1>3. levels = <<v>>
  BY DEF Init
<1> HIDE DEF v
<1>4. levels \in Seq(Iterators(data)) /\ Len(levels) = 1 /\ levels[1] = v
  BY <1>2, <1>3
<1>5. TypeOK
  BY <1>1, <1>4 DEF TypeOK
<1>6. Overrun
  <2>1. ASSUME NEW k \in 1 .. Len(levels)
        PROVE  levels[k].cur <= Len(data) + NANOCBOR_RECURSION_MAX + (MaxLevels - k)
    <3>1. k = 1 /\ 0 <= Len(data) + 10 + (MaxLevels - 1)
      BY <1>1, <1>4
    <3>2. QED
      BY <1>2, <1>4, <3>1 DEF NANOCBOR_RECURSION_MAX
  <2>2. QED
    BY <2>1 DEF Overrun
<1>7. StringInside /\ ValueOfKey
  BY DEF Init, StringInside, ValueOfKey
<1>8. QED
  BY <1>5, <1>6, <1>7 DEF IndInv

-----------------------------------------------------------------------------
\* The invariant of the walk holds always: entered containers form a stack of
\* iterators over the buffer, and how far one may be behind its end depends on
\* the containers that can still be left.
THEOREM Inductive == Spec => []IndInv
<1>1. Init => IndInv
  BY InitHolds
<1>2. IndInv /\ [Next]_vars => IndInv'
  <2>1. ASSUME IndInv, UNCHANGED vars PROVE IndInv'
    BY <2>1 DEF IndInv, vars, TypeOK, Overrun, StringInside, ValueOfKey, it, Ended
  <2>2. QED
    BY <2>1, NextKeeps
<1>3. QED
  BY <1>1, <1>2, PTL DEF Spec

\* Whatever the bytes of the buffer, a string that _get_str returns ends where
\* the walk goes on: in the buffer, and not before the head of the string.  Its
\* length is then one that fits, or one of the nine below 2^64 whose sum with
\* the bytes of the head wraps round (decoder.c:272-286).
THEOREM StringsInside == Spec => []StringInside
<1>1. IndInv => StringInside
  BY DEF IndInv
<1>2. QED
  BY <1>1, Inductive, PTL

\* No iterator is ever further behind the end of the buffer than the recursion
\* limit and the caller's levels allow (decoder.c:356-367, :392-425).
THEOREM OverrunBounded == Spec => []BoundedOverrun
<1>1. IndInv => BoundedOverrun
  <2> SUFFICES ASSUME IndInv, NEW k \in DOMAIN levels
               PROVE  levels[k].cur <= Len(data) + NANOCBOR_RECURSION_MAX + MaxLevels
    BY DEF BoundedOverrun
  <2>1. /\ data \in Buffers /\ levels \in Seq(Iterators(data))
        /\ \A j \in 1 .. Len(levels) : levels[j].cur <= Len(data) + 10 + (MaxLevels - j)
    BY DEF IndInv, TypeOK, Overrun, NANOCBOR_RECURSION_MAX
  <2>2. DOMAIN levels = 1 .. Len(levels) /\ Len(levels) \in Nat /\ Len(data) \in Nat /\ MaxLevels \in Nat
    BY <2>1, LenProperties, LevelsAssumption
  <2>3. k \in 1 .. Len(levels) /\ levels[k] \in Iterators(data)
    BY <2>1, <2>2, ElementOfSeq
  <2>4. levels[k].cur \in Nat /\ k \in Nat /\ levels[k].cur <= Len(data) + 10 + (MaxLevels - k)
    BY <2>1, <2>2, <2>3, IteratorIs
  <2>5. QED
    BY <2>2, <2>4 DEF NANOCBOR_RECURSION_MAX
<1>2. QED
  BY <1>1, Inductive, PTL

\* An item that nanocbor_get_key_tstr found stands behind a text string with
\* exactly the bytes of the key, however long the head that declares its length
\* is and whatever items were skipped before it (decoder.c:432-458).
THEOREM KeyBehind == Spec => []ValueOfKey
<1>1. IndInv => ValueOfKey
  BY DEF IndInv
<1>2. QED
  BY <1>1, Inductive, PTL

-----------------------------------------------------------------------------
\* In a buffer without tags none is read.
LEMMA NoTag ==
  ASSUME TagFree, data \in Buffers, NEW v \in Iterators(data)
  PROVE  get_tag(data, v).it = v /\ get_decimal_frac(data, v).it = v
<1> DEFINE h == get_uint64(data, v, SIZE_WORD, TAG)
<1>0. SIZE_WORD \in 24 .. 27
  BY DEF SIZE_WORD
<1>1. h.res < 0
  <2>1. \/ h.res \in {-1, -2, -3}
        \/ h.res \in 1 .. 9 /\ v.cur + h.res <= Len(data) /\ Byte(data, v.cur) \div 32 = TAG
    BY <1>0, HeadIs
  <2>2. v.cur \in Nat /\ Len(data) \in Nat
    BY IteratorIs, LenProperties
  <2> HIDE DEF h
  <2>3. CASE h.res \in 1 .. 9 /\ v.cur + h.res <= Len(data) /\ Byte(data, v.cur) \div 32 = TAG
    <3>1. v.cur + 1 \in 1 .. Len(data)
      BY <2>2, <2>3
    <3>2. v.cur + 1 \in DOMAIN data
      BY <3>1, LenProperties
    <3>3. QED
      BY <2>3, <3>2 DEF TagFree, Byte
  <2>4. CASE h.res \in {-1, -2, -3}
    BY <2>4
  <2>5. QED
    BY <2>1, <2>3, <2>4
<1>2. get_tag(data, v) = [res |-> h.res, it |-> v, value |-> 0]
  BY <1>1 DEF get_tag
<1>3. get_tag(data, v).it = v /\ get_tag(data, v).res # 0
  BY <1>1, <1>2
<1>4. QED
  BY <1>3 DEF get_decimal_frac, NANOCBOR_OK

\* An operation moves the innermost iterator.
LEMMA MovedAlong ==
  ASSUME IndInv, Along, NEW op, op # "leave", NEW next, NEW code, NEW str, NEW key,
         MovedKey(op, next, code, str, key),
         TagFree => Keeps(data, it, next)
  PROVE  Along' /\ WalkIsSkip'
<1>1. data \in Buffers /\ levels \in Seq(Iterators(data)) /\ Len(levels) \in 1 .. MaxLevels
  BY DEF IndInv, TypeOK
<1>2. levels' = [levels EXCEPT ![Len(levels)] = next] /\ last'.op = op /\ data' = data
  BY DEF MovedKey
<1>3. WalkIsSkip'
  BY <1>2 DEF WalkIsSkip
<1>4. ASSUME TagFree PROVE AlongSkips(data, levels')
  <2> DEFINE n == Len(levels)
             t == levels'
  <2>1. n \in Nat /\ n \in 1 .. n /\ DOMAIN levels = 1 .. n /\ it = levels[n]
    <3>1. n \in Nat /\ DOMAIN levels = 1 .. n /\ n \in 1 .. MaxLevels
      BY <1>1, LenProperties
    <3> HIDE DEF n
    <3>2. n \in 1 .. n
      BY <3>1
    <3>3. QED
      BY <3>1, <3>2 DEF it, Last, n
  <2>2. DOMAIN t = 1 .. n /\ t[n] = next /\ \A k \in 1 .. n - 1 : t[k] = levels[k]
    <3> HIDE DEF n
    <3>1. \A k \in 1 .. n - 1 : k \in 1 .. n /\ k # n
      BY <2>1
    <3>2. levels' = [levels EXCEPT ![n] = next]
      BY <1>2 DEF n
    <3>3. QED
      BY <2>1, <3>1, <3>2
  <2>3. Len(t) = n
    BY <2>1, <2>2
  <2>4. AlongSkips(data, levels) /\ Keeps(data, levels[n], t[n])
    BY <1>4, <2>1, <2>2 DEF Along
  <2> HIDE DEF t
  <2>5. QED
    BY <1>1, <2>2, <2>3, <2>4, AlongMoved DEF t
<1>5. TagFree' = TagFree
  BY <1>2 DEF TagFree
<1>6. QED
  BY <1>2, <1>3, <1>4, <1>5 DEF Along

\* A container is entered.
LEMMA EnteredAlong ==
  ASSUME IndInv, Along, NEW c \in {enter_array(data, it), enter_map(data, it)}, Entered("enter", c)
  PROVE  Along' /\ WalkIsSkip'
<1>1. data \in Buffers /\ levels \in Seq(Iterators(data)) /\ Len(levels) \in 1 .. MaxLevels /\ it \in Iterators(data)
  BY InnermostIs DEF IndInv, TypeOK
<1>2. /\ levels' = IF c.res = 0 THEN Append(levels, c.it) ELSE levels
      /\ last'.op = "enter" /\ data' = data /\ ~at_end(data, it)
  BY DEF Entered, NANOCBOR_OK, Ended
<1>3. WalkIsSkip'
  BY <1>2 DEF WalkIsSkip
<1>4. ASSUME TagFree PROVE AlongSkips(data, levels')
  <2>1. AlongSkips(data, levels)
    BY <1>4 DEF Along
  <2>2. CASE c.res = 0
    <3>1. Reaches(data, it, c.it)
      BY <1>1, <1>2, <2>2, ReachEnter
    <3>2. c.it \in Iterators(data)
      <4>1. Opened(data, c)
        BY <1>1, ArrayIs, MapIs
      <4>2. QED
        BY <2>2, <4>1 DEF Opened
    <3>3. Len(levels) >= 1 /\ it = levels[Len(levels)]
      <4> DEFINE n == Len(levels)
      <4>1. n \in Nat /\ n \in 1 .. MaxLevels
        BY <1>1, LenProperties
      <4> HIDE DEF n
      <4>2. n >= 1
        BY <4>1
      <4>3. QED
        BY <4>2 DEF n, it, Last
    <3>4. AlongSkips(data, Append(levels, c.it))
      BY <1>1, <1>2, <2>1, <3>1, <3>2, <3>3, AlongEntered
    <3>5. QED
      BY <1>2, <2>2, <3>4
  <2>3. CASE c.res # 0
    BY <1>2, <2>1, <2>3
  <2>4. QED
    BY <2>2, <2>3
<1>5. TagFree' = TagFree
  BY <1>2 DEF TagFree
<1>6. QED
  BY <1>2, <1>3, <1>4, <1>5 DEF Along

\* A container is left.
LEMMA LeaveAlong ==
  ASSUME IndInv, Along, LeaveContainer
  PROVE  Along' /\ WalkIsSkip'
<1>1. data \in Buffers /\ levels \in Seq(Iterators(data))
  BY DEF IndInv, TypeOK
<1>2. /\ levels' = Returned(levels) /\ last'.before = Last(Front(levels))
      /\ data' = data /\ Len(levels) > 1 /\ at_end(data, it)
  BY DEF LeaveContainer, Ended
<1> DEFINE n == Len(levels)
           t == Returned(levels)
<1>3. n \in Nat /\ n >= 1 /\ it = levels[n] /\ Len(t) = n - 1
  BY <1>1, <1>2, LenProperties, ReturnedTo DEF it, Last
<1>4. Last(Front(levels)) = levels[n - 1]
  <2> DEFINE f == Front(levels)
  <2>1. Len(f) = n - 1 /\ \A k \in 1 .. n - 1 : f[k] = levels[k]
    BY <1>1, <1>3, FrontIs
  <2>2. n > 1
    BY <1>2
  <2> HIDE DEF f, n
  <2>3. n - 1 \in 1 .. n - 1
    BY <1>3, <2>2
  <2>4. QED
    BY <2>1, <2>3 DEF Last, f
<1>5. it' = t[n - 1]
  BY <1>2, <1>3 DEF it, Last
<1>6. ASSUME TagFree
      PROVE  /\ skip(data, levels[n - 1]).res = 0 => skip(data, levels[n - 1]).it = t[n - 1]
             /\ AlongSkips(data, t)
  BY <1>1, <1>2, <1>3, <1>6, AlongLeft DEF Along
<1>7. TagFree' = TagFree
  BY <1>2 DEF TagFree
<1>8. Along'
  BY <1>2, <1>6, <1>7 DEF Along
<1>9. WalkIsSkip'
  <2> HIDE DEF t, n
  <2>1. QED
    BY <1>2, <1>4, <1>5, <1>6, <1>7 DEF WalkIsSkip, NANOCBOR_OK
<1>10. QED
  BY <1>8, <1>9

\* Every operation keeps the walk along its skips.
LEMMA NextAlong ==
  ASSUME IndInv, Along, Next
  PROVE  Along' /\ WalkIsSkip'
<1>1. data \in Buffers /\ it \in Iterators(data)
  BY InnermostIs DEF IndInv, TypeOK
<1>2. ASSUME NEW i, Stepped(data, it, i), ~Ended PROVE Keeps(data, it, i)
  BY <1>1, <1>2, SteppedKeeps DEF Ended
<1>3. ASSUME NEW max \in {SIZE_BYTE, SIZE_SHORT, SIZE_WORD}, GetUint(max) \/ GetInt(max) PROVE Along' /\ WalkIsSkip'
  <2>1. max \in 24 .. 27
    BY DEF SIZE_BYTE, SIZE_SHORT, SIZE_WORD
  <2>2. Stepped(data, it, get_uint(data, it, max).it) /\ Stepped(data, it, get_int(data, it, max).it)
    BY <1>1, <2>1, SteppedUint, SteppedInt
  <2>3. QED
    BY <1>2, <1>3, <2>2, MovedAlong DEF GetUint, GetInt, Moved
<1>4. CASE GetTag \/ GetDecimalFrac
  <2>1. TagFree => Keeps(data, it, get_tag(data, it).it) /\ Keeps(data, it, get_decimal_frac(data, it).it)
    BY <1>1, NoTag DEF Keeps
  <2>2. QED
    BY <1>4, <2>1, MovedAlong DEF GetTag, GetDecimalFrac, Moved
<1>5. CASE GetBstr \/ GetTstr
  <2>1. ~Ended => Stepped(data, it, get_bstr(data, it).it) /\ Stepped(data, it, get_tstr(data, it).it)
    BY <1>1, SteppedStr DEF get_bstr, get_tstr, Ended
  <2>2. QED
    BY <1>2, <1>5, <2>1, MovedAlong DEF GetBstr, GetTstr, Moved
<1>6. CASE GetNull \/ GetBool
  <2>1. ~Ended => Stepped(data, it, get_null(data, it).it) /\ Stepped(data, it, get_bool(data, it).it)
    BY <1>1, SteppedBool DEF Ended
  <2>2. QED
    BY <1>2, <1>6, <2>1, MovedAlong DEF GetNull, GetBool, Moved
<1>7. CASE SkipSimple
  <2>1. ~Ended
    BY <1>1, <1>7, TypeIs DEF SkipSimple, Ended, UINT, NINT, TAG, FLOAT
  <2>2. Stepped(data, it, skip_simple(data, it).it)
    BY <1>1, <1>7, SteppedSimple DEF SkipSimple
  <2>3. QED
    BY <1>2, <1>7, <2>1, <2>2, MovedAlong DEF SkipSimple, Moved
<1>8. CASE Skip \/ GetSubcbor
  <2>1. Keeps(data, it, skip(data, it).it)
    BY <1>1, ReachAnySkip DEF Keeps
  <2>2. get_subcbor(data, it).it = skip(data, it).it
    BY DEF get_subcbor
  <2>3. QED
    BY <1>8, <2>1, <2>2, MovedAlong DEF Skip, GetSubcbor, Moved
<1>9. ASSUME NEW key \in Keys, GetKeyTstr(key) PROVE Along' /\ WalkIsSkip'
  <2>1. key \in Buffers
    BY BuffersAssumption
  <2>2. Keeps(data, it, get_key_tstr(data, it, key).it)
    BY <1>1, <2>1, ReachKey DEF Keeps
  <2>3. QED
    BY <1>9, <2>2, MovedAlong DEF GetKeyTstr
<1>10. CASE EnterArray \/ EnterMap
  BY <1>10, EnteredAlong DEF EnterArray, EnterMap
<1>11. CASE LeaveContainer
  BY <1>11, LeaveAlong
<1>12. QED
  BY <1>3, <1>4, <1>5, <1>6, <1>7, <1>8, <1>9, <1>10, <1>11 DEF Next

\* A container that is read item by item, with any of the getters and however
\* deeply its items nest, is left where nanocbor_skip would have put its parent:
\* in any buffer without tags, for any keys and levels (decoder.c:356-430).
THEOREM WalkLikeSkip == Spec => []WalkIsSkip
<1>1. Init => Along /\ WalkIsSkip
  <2> SUFFICES ASSUME Init PROVE Along /\ WalkIsSkip
    OBVIOUS
  <2>1. levels = <<decoder_init(data)>> /\ last.op = "init"
    BY DEF Init
  <2>2. Len(levels) = 1
    BY <2>1
  <2>3. 1 .. Len(levels) - 1 = {}
    BY <2>2
  <2>4. AlongSkips(data, levels)
    BY <2>3 DEF AlongSkips
  <2>5. QED
    BY <2>1, <2>4 DEF Along, WalkIsSkip
<1>2. IndInv /\ Along /\ WalkIsSkip /\ [Next]_vars => Along' /\ WalkIsSkip'
  <2>1. ASSUME Along, WalkIsSkip, UNCHANGED vars PROVE Along' /\ WalkIsSkip'
    BY <2>1 DEF Along, WalkIsSkip, TagFree, vars, it
  <2>2. QED
    BY <2>1, NextAlong
<1>3. QED
  BY <1>1, <1>2, Inductive, PTL DEF Spec

-----------------------------------------------------------------------------
\* No step of a skip goes back.

LEMMA LastAppended ==
  ASSUME NEW S, NEW s \in Seq(S), NEW e \in S
  PROVE  Last(Append(s, e)) = e
<1>1. Len(Append(s, e)) = Len(s) + 1 /\ Append(s, e)[Len(s) + 1] = e
  BY AppendProperties
<1>2. QED
  BY <1>1 DEF Last

LEMMA AdvanceIfForward ==
  ASSUME NEW d \in Buffers, NEW v \in Iterators(d), NEW n \in Int
  PROVE  AdvanceIf(v, n).cur \in Nat /\ AdvanceIf(v, n).cur >= v.cur
<1>1. v.cur \in Nat
  BY IteratorIs
<1>2. CASE n > 0
  <2>1. v.cur + n >= 0
    BY <1>1, <1>2
  <2>2. Advance(v, n).cur = v.cur + n
    BY <2>1, Moves
  <2>3. QED
    BY <1>1, <1>2, <2>2 DEF AdvanceIf
<1>3. CASE ~(n > 0)
  BY <1>1, <1>3 DEF AdvanceIf
<1>4. QED
  BY <1>2, <1>3

LEMMA SimpleForward ==
  ASSUME NEW d \in Buffers, NEW v \in Iterators(d)
  PROVE  skip_simple(d, v).it.cur \in Nat /\ skip_simple(d, v).it.cur >= v.cur
<1> DEFINE h == get_uint64(d, v, SIZE_LONG, get_type(d, v))
<1>1. h.res \in Int
  <2>1. SIZE_LONG \in 24 .. 27
    BY DEF SIZE_LONG
  <2>2. QED
    BY <2>1, HeadFits
<1>2. skip_simple(d, v).it = AdvanceIf(v, h.res)
  BY DEF skip_simple
<1> HIDE DEF h
<1>3. QED
  BY <1>1, <1>2, AdvanceIfForward

LEMMA EnterForward ==
  ASSUME NEW d \in Buffers, NEW v \in Iterators(d)
  PROVE  /\ enter_array(d, v).res = 0 =>
              /\ enter_array(d, v).it \in Iterators(d) /\ enter_array(d, v).it.cur \in Nat
              /\ enter_array(d, v).it.cur >= v.cur + 1 /\ enter_array(d, v).it.cur <= Len(d)
              /\ v.cur < Len(d) /\ Byte(d, v.cur) \div 32 = ARR
         /\ enter_map(d, v).res = 0 =>
              /\ enter_map(d, v).it \in Iterators(d) /\ enter_map(d, v).it.cur \in Nat
              /\ enter_map(d, v).it.cur >= v.cur + 1 /\ enter_map(d, v).it.cur <= Len(d)
              /\ v.cur < Len(d) /\ Byte(d, v.cur) \div 32 = MAP
<1>1. ARR \in 0 .. 7 /\ MAP \in 0 .. 7
  BY DEF ARR, MAP
<1>2. ASSUME enter_array(d, v).res = 0
      PROVE  /\ enter_array(d, v).it \in Iterators(d) /\ enter_array(d, v).it.cur \in Nat
             /\ enter_array(d, v).it.cur >= v.cur + 1 /\ enter_array(d, v).it.cur <= Len(d)
             /\ v.cur < Len(d) /\ Byte(d, v.cur) \div 32 = ARR
  BY <1>1, <1>2, ContainerHead DEF enter_array
<1>3. ASSUME enter_map(d, v).res = 0
      PROVE  /\ enter_map(d, v).it \in Iterators(d) /\ enter_map(d, v).it.cur \in Nat
             /\ enter_map(d, v).it.cur >= v.cur + 1 /\ enter_map(d, v).it.cur <= Len(d)
             /\ v.cur < Len(d) /\ Byte(d, v.cur) \div 32 = MAP
  <2>1. /\ enter_container(d, v, MAP).res = 0 /\ enter_map(d, v).it \in Iterators(d)
        /\ enter_map(d, v).it.cur = enter_container(d, v, MAP).it.cur
    BY <1>3, MapForm
  <2>2. QED
    BY <1>1, <2>1, ContainerHead
<1>4. QED
  BY <1>2, <1>3

LEMMA LeaveForward ==
  ASSUME NEW d \in Buffers, NEW v \in Iterators(d), NEW w \in Iterators(d)
  PROVE  leave_container(v, w).cur \in Nat /\ leave_container(v, w).cur >= w.cur
<1>1. w.cur \in Nat
  BY IteratorIs
<1>2. leave_container(v, w).cur = IF w.flags = "indefinite" THEN w.cur + 1 ELSE w.cur
  BY DEF leave_container, Iterators
<1>3. QED
  BY <1>1, <1>2

LEMMA ReturnedForward ==
  ASSUME NEW d \in Buffers, NEW s \in Stacks(d), Len(s) > 1
  PROVE  Last(Returned(s)).cur \in Nat /\ Last(Returned(s)).cur >= Last(s).cur
<1> DEFINE f == Front(s)
           l == leave_container(Last(f), Last(s))
<1>1. s \in Seq(Iterators(d)) /\ Len(s) \in Nat /\ Len(s) >= 1
  BY StackIs
<1>2. f \in Seq(Iterators(d)) /\ Len(f) = Len(s) - 1 /\ Last(s) \in Iterators(d)
  BY <1>1, FrontIs
<1>3. Len(f) >= 1
  BY <1>1, <1>2
<1> HIDE DEF f
<1>4. Front(f) \in Seq(Iterators(d)) /\ Last(f) \in Iterators(d)
  BY <1>2, <1>3, FrontIs
<1>5. l \in Iterators(d)
  BY <1>2, <1>4, LeaveIs
<1>6. Returned(s) = Append(Front(f), l)
  BY DEF Returned, f
<1>7. l.cur \in Nat /\ l.cur >= Last(s).cur
  BY <1>2, <1>4, LeaveForward
<1> HIDE DEF l
<1>8. Last(Returned(s)) = l
  BY <1>4, <1>5, <1>6, LastAppended
<1>9. QED
  BY <1>7, <1>8

\* One step of the nested calls.
LEMMA StepForward ==
  ASSUME NEW d \in Buffers, NEW s \in Stacks(d)
  PROVE  Last(skip_step(d, s).levels).cur \in Nat /\ Last(skip_step(d, s).levels).cur >= Last(s).cur
<1> DEFINE v == Last(s)
           r == skip_step(d, s)
           type == get_type(d, v)
           m == enter_map(d, v)
           a == enter_array(d, v)
           str == get_str(d, v, type)
           simple == skip_simple(d, v)
<1>1. /\ v \in Iterators(d) /\ Front(s) \in Seq(Iterators(d)) /\ s \in Seq(Iterators(d))
      /\ Len(s) \in Nat /\ v.cur \in Nat
  <2>1. s \in Seq(Iterators(d)) /\ Len(s) \in Nat /\ Len(s) >= 1
    BY StackIs
  <2>2. v \in Iterators(d) /\ Front(s) \in Seq(Iterators(d))
    BY <2>1, FrontIs
  <2>3. v.cur \in Nat
    BY <2>2, IteratorIs
  <2>4. QED
    BY <2>1, <2>2, <2>3
<1>2. /\ str.it \in Iterators(d) /\ str.it.cur \in Nat /\ str.it.cur >= v.cur
      /\ simple.it \in Iterators(d) /\ simple.it.cur \in Nat /\ simple.it.cur >= v.cur
  <2>1. str.it \in Iterators(d) /\ simple.it \in Iterators(d)
    BY <1>1, StrIs, SimpleIs DEF Near
  <2>2. QED
    BY <1>1, <2>1, StrForward, SimpleForward
<1>3. type \in Int
  BY <1>1, TypeIs
<1>4. /\ m.res \in Int /\ (m.res >= 0 => m.it \in Iterators(d) /\ m.it.cur \in Nat /\ m.it.cur >= v.cur)
      /\ a.res \in Int /\ (a.res >= 0 => a.it \in Iterators(d) /\ a.it.cur \in Nat /\ a.it.cur >= v.cur)
  <2>1. Opened(d, m) /\ Opened(d, a)
    BY <1>1, MapIs, ArrayIs
  <2>2. /\ m.res \in Int /\ (m.res >= 0 => m.res = 0)
        /\ a.res \in Int /\ (a.res >= 0 => a.res = 0)
    BY <2>1 DEF Opened
  <2>3. /\ m.res = 0 => m.it \in Iterators(d) /\ m.it.cur \in Nat /\ m.it.cur >= v.cur + 1
        /\ a.res = 0 => a.it \in Iterators(d) /\ a.it.cur \in Nat /\ a.it.cur >= v.cur + 1
    BY <1>1, EnterForward
  <2> HIDE DEF m, a, v
  <2>4. QED
    BY <1>1, <2>2, <2>3
<1>5. CASE Len(s) > 1 /\ at_end(d, v)
  <2>1. r = [res |-> 0, levels |-> Returned(s)]
    BY <1>5 DEF skip_step, NANOCBOR_OK
  <2>2. QED
    BY <1>5, <2>1, ReturnedForward
<1>6. CASE ~(Len(s) > 1 /\ at_end(d, v)) /\ TooDeep(s)
  <2>1. r = [res |-> -4, levels |-> s]
    BY <1>6 DEF skip_step, NANOCBOR_ERR_RECURSION
  <2>2. QED
    BY <1>1, <2>1
<1>7. CASE ~(Len(s) > 1 /\ at_end(d, v)) /\ ~TooDeep(s)
  <2>1. r = CASE type < 0 -> [res |-> type, levels |-> s]
              [] type = MAP -> IF m.res < 0 THEN [res |-> m.res, levels |-> s]
                               ELSE [res |-> m.res, levels |-> Append(s, m.it)]
              [] type = ARR -> IF a.res < 0 THEN [res |-> a.res, levels |-> s]
                               ELSE [res |-> a.res, levels |-> Append(s, a.it)]
              [] type \in {BSTR, TSTR} -> [res |-> str.res, levels |-> Append(Front(s), str.it)]
              [] OTHER -> [res |-> simple.res, levels |-> Append(Front(s), simple.it)]
    BY <1>7 DEF skip_step
  <2> HIDE DEF r, type, m, a, str, simple
  <2>2. \/ r.levels = s
        \/ m.res >= 0 /\ r.levels = Append(s, m.it)
        \/ a.res >= 0 /\ r.levels = Append(s, a.it)
        \/ r.levels = Append(Front(s), str.it)
        \/ r.levels = Append(Front(s), simple.it)
    <3>1. /\ m.res \in Int /\ a.res \in Int /\ MAP \in Int /\ ARR \in Int /\ MAP >= 0 /\ ARR >= 0
          /\ MAP # ARR /\ MAP \notin {BSTR, TSTR} /\ ARR \notin {BSTR, TSTR}
          /\ \A w \in {BSTR, TSTR} : w \in Int /\ w >= 0
      BY <1>4 DEF MAP, ARR, BSTR, TSTR
    <3>2. CASE type < 0
      <4>1. type # MAP /\ type # ARR /\ type \notin {BSTR, TSTR}
        BY <1>3, <3>1, <3>2
      <4>2. r = [res |-> type, levels |-> s]
        BY <2>1, <3>2, <4>1
      <4>3. QED
        BY <4>2
    <3>3. CASE type = MAP
      <4>1. r = IF m.res < 0 THEN [res |-> m.res, levels |-> s]
                ELSE [res |-> m.res, levels |-> Append(s, m.it)]
        BY <2>1, <3>1, <3>3
      <4>2. QED
        BY <3>1, <4>1
    <3>4. CASE type = ARR
      <4>1. r = IF a.res < 0 THEN [res |-> a.res, levels |-> s]
                ELSE [res |-> a.res, levels |-> Append(s, a.it)]
        BY <2>1, <3>1, <3>4
      <4>2. QED
        BY <3>1, <4>1
    <3>5. CASE type \in {BSTR, TSTR}
      <4>1. r = [res |-> str.res, levels |-> Append(Front(s), str.it)]
        BY <2>1, <3>1, <3>5
      <4>2. QED
        BY <4>1
    <3>6. CASE ~(type < 0) /\ type # MAP /\ type # ARR /\ type \notin {BSTR, TSTR}
      <4>1. r = [res |-> simple.res, levels |-> Append(Front(s), simple.it)]
        BY <2>1, <3>6
      <4>2. QED
        BY <4>1
    <3>7. QED
      BY <3>2, <3>3, <3>4, <3>5, <3>6
  <2> HIDE DEF v
  <2>3. \/ Last(r.levels) = Last(s)
        \/ m.res >= 0 /\ Last(r.levels) = m.it
        \/ a.res >= 0 /\ Last(r.levels) = a.it
        \/ Last(r.levels) = str.it
        \/ Last(r.levels) = simple.it
    <3>1. /\ m.res >= 0 => Last(Append(s, m.it)) = m.it
          /\ a.res >= 0 => Last(Append(s, a.it)) = a.it
      BY <1>1, <1>4, LastAppended
    <3>2. Last(Append(Front(s), str.it)) = str.it /\ Last(Append(Front(s), simple.it)) = simple.it
      BY <1>1, <1>2, LastAppended
    <3>3. QED
      BY <2>2, <3>1, <3>2
  <2>4. QED
    BY <1>1, <1>2, <1>4, <2>3 DEF v, r
<1>8. QED
  BY <1>5, <1>6, <1>7

LEMMA RoundForward ==
  ASSUME NEW d \in Buffers, NEW s \in SkipStates(d)
  PROVE  Last(skip_round(d, s).levels).cur >= Last(s.levels).cur
<1>1. s.res \in Int /\ s.levels \in Stacks(d)
  BY DEF SkipStates
<1> DEFINE n == Len(s.levels)
<1>2. n \in Nat /\ n >= 1 /\ s.levels \in Seq(Iterators(d))
  BY <1>1, StackIs
<1>3. Last(s.levels).cur \in Nat
  <2>1. Last(s.levels) \in Iterators(d)
    BY <1>2, FrontIs
  <2>2. QED
    BY <2>1, IteratorIs
<1>4. CASE n = 1
  <2>1. skip_round(d, s) = s
    BY <1>4 DEF skip_round
  <2>2. QED
    BY <1>3, <2>1
<1>5. CASE n # 1 /\ s.res < 0
  <2>1. skip_round(d, s) = [s EXCEPT !.levels = Returned(s.levels)]
    BY <1>5 DEF skip_round
  <2>2. skip_round(d, s).levels = Returned(s.levels)
    BY <2>1 DEF SkipStates
  <2>3. n > 1
    <3> HIDE DEF n
    <3>1. QED
      BY <1>2, <1>5
  <2>4. QED
    BY <1>1, <2>2, <2>3, ReturnedForward
<1>6. CASE n # 1 /\ ~(s.res < 0)
  <2>1. skip_round(d, s) = skip_step(d, s.levels)
    BY <1>6 DEF skip_round
  <2>2. QED
    BY <1>1, <2>1, StepForward
<1>7. QED
  BY <1>4, <1>5, <1>6

\* From one round of a skip to any later one.
LEMMA RunForward ==
  ASSUME NEW d \in Buffers, NEW v \in Iterators(d), v.cur <= Len(d) + 10,
         NEW m \in 0 .. SkipRounds(d), NEW n \in 0 .. SkipRounds(d), n >= m
  PROVE  Last(skip_limited(d, v)[n].levels).cur >= Last(skip_limited(d, v)[m].levels).cur
<1> DEFINE a == skip_limited(d, v)
           N == SkipRounds(d)
           p(k) == Last(a[k].levels).cur
           T == { k \in Nat : m + k <= N => p(m + k) >= p(m) }
<1>1. /\ N \in Nat /\ \A k \in 0 .. N - 1 : a[k + 1] = skip_round(d, a[k])
      /\ \A k \in 0 .. N : a[k] \in SkipStates(d)
  BY SkipLimitedIs
<1>2. m \in 0 .. N /\ n \in 0 .. N
  OBVIOUS
<1> HIDE DEF a, N
<1>3. ASSUME NEW k \in 0 .. N PROVE p(k) \in Nat
  <2>1. a[k].levels \in Stacks(d)
    BY <1>1 DEF SkipStates
  <2>2. a[k].levels \in Seq(Iterators(d)) /\ Len(a[k].levels) >= 1
    BY <2>1, StackIs
  <2>3. Last(a[k].levels) \in Iterators(d)
    BY <2>2, FrontIs
  <2>4. QED
    BY <2>3, IteratorIs
<1>4. \A k \in 0 .. N - 1 : p(k + 1) >= p(k)
  <2>1. ASSUME NEW k \in 0 .. N - 1 PROVE p(k + 1) >= p(k)
    <3>1. k \in 0 .. N
      BY <1>1
    <3>2. QED
      BY <1>1, <3>1, RoundForward
  <2>2. QED
    BY <2>1
<1> HIDE DEF p
<1>5. 0 \in T
  BY <1>1, <1>2, <1>3
<1>6. ASSUME NEW k \in Nat, k \in T PROVE k + 1 \in T
  <2> SUFFICES ASSUME m + (k + 1) <= N PROVE p(m + (k + 1)) >= p(m)
    OBVIOUS
  <2>1. m + k <= N /\ m + k \in 0 .. N - 1 /\ m + k \in 0 .. N /\ (m + k) + 1 = m + (k + 1) /\ m + (k + 1) \in 0 .. N
    BY <1>1, <1>2
  <2>2. p(m + k) >= p(m) /\ p(m + (k + 1)) >= p(m + k)
    BY <1>4, <1>6, <2>1
  <2>3. QED
    BY <1>2, <1>3, <2>1, <2>2
<1>7. \A k \in Nat : k \in T
  <2> HIDE DEF T
  <2>1. QED
    BY <1>5, <1>6, AllNumbers
<1>8. n - m \in Nat /\ m + (n - m) = n /\ n <= N
  BY <1>1, <1>2
<1>9. n - m \in T
  BY <1>7, <1>8
<1>10. p(n) >= p(m)
  BY <1>8, <1>9
<1>11. QED
  BY <1>10 DEF p, a

\* A skip that ends is nowhere further than where it ends.
LEMMA SkipPast ==
  ASSUME NEW d \in Buffers, NEW v \in Iterators(d), v.cur <= Len(d) + 10,
         NEW k \in 0 .. SkipRounds(d), Len(skip_limited(d, v)[k].levels) = 1,
         NEW m \in 0 .. SkipRounds(d)
  PROVE  skip(d, v).it.cur >= Last(skip_limited(d, v)[m].levels).cur
<1> DEFINE a == skip_limited(d, v)
           N == SkipRounds(d)
<1>1. N \in Nat
  BY SkipLimitedIs
<1>2. PICK n \in 0 .. N : n >= m /\ Len(a[n].levels) = 1
  <2>1. CASE k >= m
    BY <2>1
  <2>2. CASE ~(k >= m)
    <3>1. m >= k /\ m >= m
      BY <1>1, <2>2
    <3>2. a[m] = a[k]
      BY <3>1, OverStays
    <3>3. QED
      BY <3>1, <3>2
  <2>3. QED
    BY <2>1, <2>2
<1>3. skip(d, v).it = a[n].levels[1]
  BY <1>2, SkipDone
<1>4. Last(a[n].levels) = a[n].levels[1]
  BY <1>2 DEF Last
<1>5. QED
  BY <1>2, <1>3, <1>4, RunForward

\* One that returns a code of the decoder ends.
LEMMA SkipEnds ==
  ASSUME NEW d \in Buffers, NEW v \in Iterators(d), v.cur <= Len(d) + 10, skip(d, v).res # ENDLESS
  PROVE  \E k \in 0 .. SkipRounds(d) : Len(skip_limited(d, v)[k].levels) = 1
<1> DEFINE a == skip_limited(d, v)
<1>1. DOMAIN a = 0 .. SkipRounds(d)
  BY SkipLimitedIs
<1>2. \E n \in DOMAIN a : Len(a[n].levels) = 1
  <2> SUFFICES ASSUME ~ \E n \in DOMAIN a : Len(a[n].levels) = 1 PROVE FALSE
    OBVIOUS
  <2>1. skip(d, v) = [res |-> ENDLESS, it |-> v]
    BY DEF skip
  <2>2. QED
    BY <2>1
<1>3. QED
  BY <1>1, <1>2

\* A skip does not go back.
LEMMA SkipForward ==
  ASSUME NEW d \in Buffers, NEW v \in Iterators(d), v.cur <= Len(d) + 10
  PROVE  skip(d, v).it.cur \in Nat /\ skip(d, v).it.cur >= v.cur
<1> DEFINE a == skip_limited(d, v)
<1>1. v.cur \in Nat /\ Len(d) \in Nat
  BY IteratorIs, LenProperties
<1>2. skip(d, v).it.cur \in Nat
  BY SkipIs, IteratorIs
<1>3. DOMAIN a = 0 .. SkipRounds(d) /\ a[0] = skip_step(d, <<v>>) /\ 0 \in 0 .. SkipRounds(d)
  BY SkipLimitedIs
<1>4. CASE \E n \in DOMAIN a : Len(a[n].levels) = 1
  <2>1. skip(d, v).it.cur >= Last(a[0].levels).cur
    BY <1>3, <1>4, SkipPast
  <2>2. <<v>> \in Stacks(d) /\ Last(<<v>>) = v
    <3> DEFINE s == <<v>>
    <3>1. s \in Seq(Iterators(d)) /\ Len(s) = 1 /\ s[1] = v
      OBVIOUS
    <3>2. /\ \A k \in 1 .. Len(s) : s[k].cur <= Len(d) + (11 - k)
          /\ Len(s) \in Nat /\ Len(s) >= 1 /\ Len(s) <= 11
      BY <1>1, <3>1
    <3> HIDE DEF s
    <3>3. s \in Stacks(d)
      BY <3>1, <3>2, StackFrom
    <3>4. QED
      BY <3>1, <3>3 DEF s, Last
  <2>3. Last(a[0].levels).cur \in Nat /\ Last(a[0].levels).cur >= v.cur
    BY <1>3, <2>2, StepForward
  <2>4. QED
    BY <1>1, <1>2, <2>1, <2>3
<1>5. CASE ~ \E n \in DOMAIN a : Len(a[n].levels) = 1
  <2>1. skip(d, v).it = v
    BY <1>5 DEF skip
  <2>2. QED
    BY <1>1, <2>1
<1>6. QED
  BY <1>4, <1>5

\* What a skip comes by is in front of where it ends.
LEMMA ReachBefore ==
  ASSUME NEW d \in Buffers, NEW r \in Iterators(d), r.cur <= Len(d) + 10,
         skip(d, r).res # ENDLESS, NEW w, Reaches(d, r, w)
  PROVE  skip(d, r).it.cur >= w.cur
<1>1. w \in Iterators(d)
  BY ReachesIs
<1>2. PICK m \in 0 .. SkipRounds(d) : skip_limited(d, r)[m].levels = <<r, w>>
  BY DEF Reaches
<1>3. Last(<<r, w>>) = w
  BY <1>1, PairIs
<1>4. QED
  BY <1>2, <1>3, SkipEnds, SkipPast

-----------------------------------------------------------------------------
\* get_item_by_key

LEMMA IntForward ==
  ASSUME NEW d \in Buffers, NEW v \in Iterators(d), v.cur <= Len(d) + 10
  PROVE  LET k == get_int(d, v, SIZE_WORD)
         IN  /\ k.res \in Int /\ k.it \in Iterators(d) /\ k.it.cur \in Nat
             /\ k.it.cur >= v.cur /\ k.it.cur <= Len(d) + 10
             /\ k.res > 0 => k.it.cur = v.cur + k.res /\ k.it.cur <= Len(d)
<1> DEFINE k == get_int(d, v, SIZE_WORD)
<1>1. SIZE_WORD \in 24 .. 27
  BY DEF SIZE_WORD
<1>2. /\ k.res \in Int /\ Near(d, v, k.it, 0)
      /\ k.res > 0 => k.it = Advance(v, k.res) /\ v.cur + k.res <= Len(d)
  BY <1>1, IntIs, SteppedInt
<1>3. k.it = AdvanceIf(v, k.res)
  BY DEF get_int
<1>4. v.cur \in Nat /\ Len(d) \in Nat
  BY IteratorIs, LenProperties
<1> HIDE DEF k
<1>5. k.it \in Iterators(d)
  BY <1>2 DEF Near
<1>6. k.it.cur \in Nat /\ k.it.cur >= v.cur
  BY <1>2, <1>3, AdvanceIfForward
<1>7. k.it.cur <= Len(d) + 10
  BY <1>2, <1>4, <1>6 DEF Near
<1>8. ASSUME k.res > 0 PROVE k.it.cur = v.cur + k.res /\ k.it.cur <= Len(d)
  <2>1. v.cur + k.res >= 0
    BY <1>2, <1>4, <1>8
  <2>2. Advance(v, k.res).cur = v.cur + k.res
    BY <1>2, <2>1, Moves
  <2>3. QED
    BY <1>2, <1>8, <2>2
<1>9. QED
  BY <1>2, <1>5, <1>6, <1>7, <1>8 DEF k

\* The states of the loop from offset x on.
ItemStates(d, x) ==
  { s \in [res : Int, it : Iterators(d), more : BOOLEAN] :
      /\ s.it.cur >= x /\ s.it.cur <= Len(d) + 10
      /\ s.more => s.res = NANOCBOR_NOT_FOUND
      /\ s.res = 0 => s.it.cur >= x + 1 /\ s.it.cur <= Len(d) }

LEMMA ItemRoundIs ==
  ASSUME NEW d \in Buffers, NEW x \in Nat, NEW key, NEW s \in ItemStates(d, x)
  PROVE  item_round(d, key, s) \in ItemStates(d, x)
<1> DEFINE k == get_int(d, s.it, SIZE_WORD)
           val == skip(d, k.it)
           r == item_round(d, key, s)
<1>1. /\ s.res \in Int /\ s.it \in Iterators(d) /\ s.more \in BOOLEAN
      /\ s.it.cur >= x /\ s.it.cur <= Len(d) + 10
      /\ s.more => s.res = -5
      /\ s = [res |-> s.res, it |-> s.it, more |-> s.more] /\ Len(d) \in Nat
  BY LenProperties DEF ItemStates, NANOCBOR_NOT_FOUND
<1>2. r = IF ~s.more THEN s
          ELSE IF at_end(d, s.it) THEN [res |-> -5, it |-> s.it, more |-> FALSE]
          ELSE IF k.res <= 0 THEN [res |-> -5, it |-> k.it, more |-> FALSE]
          ELSE IF k.value = key THEN [res |-> 0, it |-> k.it, more |-> FALSE]
          ELSE IF val.res < 0 THEN [res |-> val.res, it |-> val.it, more |-> FALSE]
          ELSE [s EXCEPT !.it = val.it]
  BY DEF item_round, NANOCBOR_OK, NANOCBOR_NOT_FOUND
<1>3. /\ k.res \in Int /\ k.it \in Iterators(d) /\ k.it.cur \in Nat
      /\ k.it.cur >= s.it.cur /\ k.it.cur <= Len(d) + 10
      /\ k.res > 0 => k.it.cur = s.it.cur + k.res /\ k.it.cur <= Len(d)
  BY <1>1, IntForward
<1>4. /\ val.it \in Iterators(d) /\ val.it.cur \in Nat /\ val.it.cur <= Len(d) + 10
      /\ val.res \in Int /\ val.it.cur >= k.it.cur
  BY <1>3, SkipIs, SkipForward
<1>5. s.it.cur \in Nat
  BY <1>1, IteratorIs
<1> HIDE DEF k, val, r
<1>6. k.it.cur >= x /\ val.it.cur >= x /\ (k.res > 0 => k.it.cur >= x + 1 /\ k.it.cur <= Len(d))
  BY <1>1, <1>3, <1>4, <1>5
<1>7. CASE ~s.more
  BY <1>2, <1>7 DEF r
<1>8. CASE s.more /\ at_end(d, s.it)
  <2>1. r = [res |-> -5, it |-> s.it, more |-> FALSE]
    BY <1>2, <1>8
  <2>2. QED
    BY <1>1, <2>1 DEF ItemStates, r
<1>9. CASE s.more /\ ~at_end(d, s.it) /\ k.res <= 0
  <2>1. r = [res |-> -5, it |-> k.it, more |-> FALSE]
    BY <1>2, <1>9
  <2>2. QED
    BY <1>3, <1>6, <2>1 DEF ItemStates, r
<1>10. CASE s.more /\ ~at_end(d, s.it) /\ ~(k.res <= 0) /\ k.value = key
  <2>1. r = [res |-> 0, it |-> k.it, more |-> FALSE]
    BY <1>2, <1>10
  <2>2. k.res > 0
    BY <1>3, <1>10
  <2>3. QED
    BY <1>3, <1>6, <2>1, <2>2 DEF ItemStates, r
<1>11. CASE s.more /\ ~at_end(d, s.it) /\ ~(k.res <= 0) /\ k.value # key /\ val.res < 0
  <2>1. r = [res |-> val.res, it |-> val.it, more |-> FALSE]
    BY <1>2, <1>11
  <2>2. val.res # 0
    BY <1>4, <1>11
  <2>3. QED
    BY <1>4, <1>6, <2>1, <2>2 DEF ItemStates, r
<1>12. CASE s.more /\ ~at_end(d, s.it) /\ ~(k.res <= 0) /\ k.value # key /\ ~(val.res < 0)
  <2>1. r = [s EXCEPT !.it = val.it]
    BY <1>2, <1>12
  <2>2. r = [res |-> -5, it |-> val.it, more |-> TRUE]
    BY <1>1, <1>12, <2>1
  <2>3. QED
    BY <1>4, <1>6, <2>2 DEF ItemStates, r, NANOCBOR_NOT_FOUND
<1>13. QED
  BY <1>1, <1>7, <1>8, <1>9, <1>10, <1>11, <1>12

LEMMA ItemLoopIs ==
  ASSUME NEW d \in Buffers, NEW key, NEW v \in Iterators(d), v.cur <= Len(d) + 10
  PROVE  LET a == item_loop(d, v, key)
             N == KeyRounds(d)
         IN  /\ N \in Nat /\ DOMAIN a = 0 .. N
             /\ \A n \in DOMAIN a : a[n] \in ItemStates(d, v.cur)
             /\ a[0] = [res |-> NANOCBOR_NOT_FOUND, it |-> v, more |-> TRUE]
             /\ \A n \in 0 .. N - 1 : a[n + 1] = item_round(d, key, a[n])
<1> DEFINE S == ItemStates(d, v.cur)
           N == KeyRounds(d)
           z == [res |-> NANOCBOR_NOT_FOUND, it |-> v, more |-> TRUE]
           F == [s \in S |-> item_round(d, key, s)]
           a == item_loop(d, v, key)
<1>1. N \in Nat
  <2>1. Len(d) \in Nat
    BY LenProperties
  <2>2. QED
    BY <2>1 DEF KeyRounds
<1>2. v.cur \in Nat
  BY IteratorIs
<1>3. z \in S
  BY <1>2 DEF ItemStates, NANOCBOR_NOT_FOUND
<1>4. F \in [S -> S]
  BY <1>2, ItemRoundIs
<1>5. a = CHOOSE f : f = [n \in 0 .. N |-> IF n = 0 THEN z ELSE item_round(d, key, f[n - 1])]
  BY DEF item_loop
<1>6. \E f \in [0 .. N -> S] : LoopOf(f, z, F, N)
  <2> HIDE DEF S, N, z, F
  <2>1. QED
    BY <1>1, <1>3, <1>4, LoopIs
<1>7. \E f : f = [n \in 0 .. N |-> IF n = 0 THEN z ELSE item_round(d, key, f[n - 1])]
  <2>1. PICK f \in [0 .. N -> S] : f = [n \in 0 .. N |-> IF n = 0 THEN z ELSE F[f[n - 1]]]
    BY <1>6 DEF LoopOf
  <2> HIDE DEF N, z, S
  <2>2. ASSUME NEW n \in 0 .. N, n # 0 PROVE F[f[n - 1]] = item_round(d, key, f[n - 1])
    <3>1. n - 1 \in 0 .. N
      BY <1>1, <2>2
    <3>2. f[n - 1] \in S
      BY <3>1
    <3>3. QED
      BY <3>2
  <2> HIDE DEF F
  <2>3. f = [n \in 0 .. N |-> IF n = 0 THEN z ELSE item_round(d, key, f[n - 1])]
    BY <2>1, <2>2
  <2>4. QED
    BY <2>3
<1> HIDE DEF N, z, F, a
<1>8. a = [n \in 0 .. N |-> IF n = 0 THEN z ELSE item_round(d, key, a[n - 1])]
  BY <1>5, <1>7
<1> DEFINE T == { n \in Nat : n <= N => a[n] \in S }
<1>9. 0 \in T
  BY <1>1, <1>3, <1>8
<1>10. ASSUME NEW n \in Nat, n \in T PROVE n + 1 \in T
  <2>1. CASE n + 1 <= N
    <3>1. n <= N /\ n + 1 \in 0 .. N /\ n + 1 # 0 /\ (n + 1) - 1 = n
      BY <1>1, <2>1
    <3>2. a[n] \in S /\ a[n + 1] = item_round(d, key, a[n])
      BY <1>8, <1>10, <3>1
    <3>3. a[n + 1] \in S
      BY <1>2, <3>2, ItemRoundIs
    <3>4. QED
      BY <3>3
  <2>2. CASE ~(n + 1 <= N)
    BY <2>2
  <2>3. QED
    BY <2>1, <2>2
<1>11. \A n \in Nat : n \in T
  <2> HIDE DEF T
  <2>1. QED
    BY <1>9, <1>10, AllNumbers
<1>12. DOMAIN a = 0 .. N /\ a[0] = z
  BY <1>1, <1>8
<1>13. ASSUME NEW n \in 0 .. N - 1 PROVE a[n + 1] = item_round(d, key, a[n])
  <2>1. n + 1 \in 0 .. N /\ n + 1 # 0 /\ (n + 1) - 1 = n
    BY <1>1
  <2>2. QED
    BY <1>8, <2>1
<1>14. QED
  BY <1>1, <1>11, <1>12, <1>13 DEF a, z, N

\* get_item_by_key: the value found lies behind a key.
LEMMA ItemIs ==
  ASSUME NEW d \in Buffers, NEW key, NEW v \in Iterators(d), v.cur <= Len(d) + 10
  PROVE  LET r == get_item_by_key(d, v, key)
         IN  r.res = 0 => r.it \in Iterators(d) /\ r.it.cur >= v.cur + 1 /\ r.it.cur <= Len(d)
<1> DEFINE a == item_loop(d, v, key)
           Over(n) == ~a[n].more
           Final(s) == [res |-> s.res, it |-> s.it]
           r == get_item_by_key(d, v, key)
<1>1. r = IF \E n \in DOMAIN a : Over(n) THEN Final(a[CHOOSE n \in DOMAIN a : Over(n)])
          ELSE [res |-> ENDLESS, it |-> v]
  BY DEF get_item_by_key, Stopped
<1>2. \A n \in DOMAIN a : a[n] \in ItemStates(d, v.cur)
  BY ItemLoopIs
<1> HIDE DEF a, Final, r
<1>3. CASE \E n \in DOMAIN a : Over(n)
  <2>1. PICK n \in DOMAIN a : r = Final(a[n])
    BY <1>1, <1>3
  <2> DEFINE s == a[n]
  <2>2. s \in ItemStates(d, v.cur)
    BY <1>2, <2>1
  <2>3. r.it = s.it /\ r.res = s.res
    BY <2>1 DEF Final
  <2> HIDE DEF s
  <2>4. QED
    BY <2>2, <2>3 DEF ItemStates, r
<1>4. CASE ~ \E n \in DOMAIN a : Over(n)
  <2>1. r.res = -6
    BY <1>1, <1>4 DEF ENDLESS
  <2>2. QED
    BY <2>1 DEF r
<1>5. QED
  BY <1>3, <1>4

\* The search keeps to what a skip around it comes by.
LEMMA ReachItem ==
  ASSUME NEW d \in Buffers, NEW key, NEW r \in Iterators(d), r.cur <= Len(d) + 10,
         skip(d, r).res = 0, NEW w, Reaches(d, r, w)
  PROVE  Reaches(d, r, get_item_by_key(d, w, key).it)
<1> DEFINE a == item_loop(d, w, key)
           N == KeyRounds(d)
           T == { n \in Nat : n <= N => Reaches(d, r, a[n].it) }
<1>1. w \in Iterators(d) /\ w.cur <= Len(d) + 10
  BY ReachesIs
<1>2. /\ N \in Nat /\ DOMAIN a = 0 .. N
      /\ a[0] = [res |-> NANOCBOR_NOT_FOUND, it |-> w, more |-> TRUE]
      /\ \A n \in 0 .. N : a[n] \in ItemStates(d, w.cur)
      /\ \A n \in 0 .. N - 1 : a[n + 1] = item_round(d, key, a[n])
  BY <1>1, ItemLoopIs
<1>3. ASSUME NEW s \in ItemStates(d, w.cur), Reaches(d, r, s.it) PROVE Reaches(d, r, item_round(d, key, s).it)
  <2> DEFINE k == get_int(d, s.it, SIZE_WORD)
             val == skip(d, k.it)
             t == item_round(d, key, s)
  <2>1. t = IF ~s.more THEN s
            ELSE IF at_end(d, s.it) THEN [res |-> -5, it |-> s.it, more |-> FALSE]
            ELSE IF k.res <= 0 THEN [res |-> -5, it |-> k.it, more |-> FALSE]
            ELSE IF k.value = key THEN [res |-> 0, it |-> k.it, more |-> FALSE]
            ELSE IF val.res < 0 THEN [res |-> val.res, it |-> val.it, more |-> FALSE]
            ELSE [s EXCEPT !.it = val.it]
    BY DEF item_round, NANOCBOR_OK, NANOCBOR_NOT_FOUND
  <2>2. s.it \in Iterators(d)
    BY <1>3, ReachesIs
  <2>3. ~at_end(d, s.it) => Reaches(d, r, k.it)
    <3>1. SIZE_WORD \in 24 .. 27
      BY DEF SIZE_WORD
    <3>2. QED
      BY <1>3, <2>2, <3>1, SteppedInt, ReachOn
  <2>4. ~at_end(d, s.it) => Reaches(d, r, val.it)
    BY <2>3, ReachAnySkip
  <2> HIDE DEF k, val, t
  <2>5. \/ t = s \/ t.it = s.it
        \/ ~at_end(d, s.it) /\ (t.it = k.it \/ t.it = val.it)
    BY <1>3, <2>1
  <2>6. QED
    BY <1>3, <2>3, <2>4, <2>5 DEF t
<1>4. get_item_by_key(d, w, key).it = w \/ \E n \in DOMAIN a : get_item_by_key(d, w, key).it = a[n].it
  BY DEF get_item_by_key, Stopped
<1> HIDE DEF a, N
<1>5. 0 \in T
  BY <1>2
<1>6. ASSUME NEW n \in Nat, n \in T PROVE n + 1 \in T
  <2> SUFFICES ASSUME n + 1 <= N PROVE Reaches(d, r, a[n + 1].it)
    OBVIOUS
  <2>1. n <= N /\ n \in 0 .. N - 1 /\ n \in 0 .. N
    BY <1>2
  <2>2. a[n] \in ItemStates(d, w.cur) /\ Reaches(d, r, a[n].it) /\ a[n + 1] = item_round(d, key, a[n])
    BY <1>2, <1>6, <2>1
  <2>3. QED
    BY <1>3, <2>2
<1>7. \A n \in Nat : n \in T
  <2> HIDE DEF T
  <2>1. QED
    BY <1>5, <1>6, AllNumbers
<1>8. \A n \in 0 .. N : Reaches(d, r, a[n].it)
  <2>1. \A n \in 0 .. N : n \in Nat /\ n <= N
    BY <1>2
  <2>2. QED
    BY <1>7, <2>1
<1>9. QED
  BY <1>2, <1>4, <1>8

\* The arrays behind key 0.
LEMMA FirstIs ==
  ASSUME NEW d \in Buffers, NEW m \in Iterators(d), m.cur <= Len(d) + 10,
         FirstOfKeyZero(d, m).res = 0
  PROVE  LET val == get_item_by_key(d, m, 0)
             arr == enter_array(d, val.it)
             inner == enter_array(d, arr.it)
         IN  /\ val.res = 0 /\ val.it \in Iterators(d) /\ val.it.cur >= m.cur + 1
             /\ arr.res = 0 /\ arr.it \in Iterators(d) /\ arr.it.cur >= val.it.cur + 1
             /\ inner.res = 0 /\ inner.it \in Iterators(d) /\ inner.it.cur >= arr.it.cur + 1
             /\ FirstOfKeyZero(d, m) = inner
             /\ inner.it.cur <= Len(d) /\ inner.it.cur >= m.cur + 3
<1> DEFINE val == get_item_by_key(d, m, 0)
           arr == enter_array(d, val.it)
           inner == enter_array(d, arr.it)
<1>1. FirstOfKeyZero(d, m) = IF val.res # 0 THEN val ELSE IF arr.res # 0 THEN arr ELSE inner
  BY DEF FirstOfKeyZero, NANOCBOR_OK
<1>2. val.res = 0 => val.it \in Iterators(d) /\ val.it.cur >= m.cur + 1 /\ val.it.cur <= Len(d)
  BY ItemIs
<1> HIDE DEF val
<1>3. val.res = 0
  BY <1>1
<1>4. arr.res = 0 => arr.it \in Iterators(d) /\ arr.it.cur >= val.it.cur + 1
  BY <1>2, <1>3, EnterForward
<1> HIDE DEF arr
<1>5. arr.res = 0
  BY <1>1, <1>3
<1>6. inner.res = 0 => inner.it \in Iterators(d) /\ inner.it.cur >= arr.it.cur + 1 /\ inner.it.cur <= Len(d)
  BY <1>4, <1>5, EnterForward
<1> HIDE DEF inner
<1>7. inner.res = 0 /\ FirstOfKeyZero(d, m) = inner
  BY <1>1, <1>3, <1>5
<1>8. m.cur \in Nat /\ val.it.cur \in Nat /\ arr.it.cur \in Nat /\ inner.it.cur \in Nat
  BY <1>2, <1>3, <1>4, <1>5, <1>6, <1>7, IteratorIs
<1>9. inner.it.cur >= m.cur + 3
  <2>1. \A i, j, k, n \in Nat : j >= i + 1 /\ k >= j + 1 /\ n >= k + 1 => n >= i + 3
    OBVIOUS
  <2>2. val.it.cur >= m.cur + 1 /\ arr.it.cur >= val.it.cur + 1 /\ inner.it.cur >= arr.it.cur + 1
    BY <1>2, <1>3, <1>4, <1>5, <1>6, <1>7
  <2>3. QED
    BY <1>8, <2>1, <2>2
<1>10. QED
  BY <1>2, <1>3, <1>4, <1>5, <1>6, <1>7, <1>9 DEF val, arr, inner

-----------------------------------------------------------------------------
\* The parts of the signature.

\* nanocbor_get_int32 reads a number from a byte of its own.
LEMMA IntRead ==
  ASSUME NEW d \in Buffers, NEW v \in Iterators(d), get_int(d, v, SIZE_WORD).res >= 0
  PROVE  /\ get_int(d, v, SIZE_WORD).res > 0 /\ ~at_end(d, v)
         /\ v.cur < Len(d) /\ Byte(d, v.cur) \div 32 \in {0, 1}
<1> DEFINE type == get_type(d, v)
           h == get_uint64(d, v, SIZE_WORD, type)
           k == get_int(d, v, SIZE_WORD)
<1>1. SIZE_WORD \in 24 .. 27
  BY DEF SIZE_WORD
<1>2. /\ h.res \in Int /\ (h.res >= 0 => h.res > 0) /\ type \in Int /\ k.res \in Int
      /\ k.res > 0 => ~at_end(d, v) /\ type \in {UINT, NINT}
  BY <1>1, HeadFits, TypeIs, IntIs, SteppedInt
<1>3. k.res = IF type < 0 THEN type
              ELSE IF type \notin {UINT, NINT} THEN -2
              ELSE IF h.value > IntBound(SIZE_WORD) THEN -1
              ELSE h.res
  BY DEF get_int, NANOCBOR_ERR_INVALID_TYPE, NANOCBOR_ERR_OVERFLOW
<1> HIDE DEF type, h, k
<1>4. k.res > 0
  BY <1>2, <1>3 DEF k
<1>5. v.cur < Len(d) /\ type = Byte(d, v.cur) \div 32
  BY <1>2, <1>4, TypeIs DEF type
<1>6. QED
  BY <1>2, <1>4, <1>5 DEF k, UINT, NINT

\* A head that declares 24 or more has a number behind its first byte.
LEMMA LongHead ==
  ASSUME NEW d \in Buffers, NEW v \in Iterators(d), NEW type,
         get_str(d, v, type).res = 0, get_str(d, v, type).len >= 24
  PROVE  LET r == get_str(d, v, type)
         IN  /\ r.buf \in Nat /\ r.buf >= v.cur + 2 /\ r.len \in Int
             /\ r.it \in Iterators(d) /\ r.it.cur = r.buf + r.len /\ r.it.cur <= Len(d)
             /\ Byte(d, v.cur) \div 32 = type
<1> DEFINE h == get_uint64(d, v, SIZE_LONG, type)
           r == get_str(d, v, type)
           info == Byte(d, v.cur) % 32
           bytes == NumberLen(info)
<1>1. /\ r.buf \in Nat /\ r.len \in Int /\ r.it.cur = r.buf + r.len /\ r.it.cur <= Len(d)
      /\ Byte(d, v.cur) \div 32 = type /\ r.it \in Iterators(d)
  BY StrIs DEF Near
<1>2. r.buf = v.cur + h.res /\ r.len = h.value
  BY DEF get_str, NANOCBOR_OK, NANOCBOR_ERR_END
<1>3. SIZE_LONG \in 24 .. 27 /\ SIZE_LONG = 27
  BY DEF SIZE_LONG
<1>4. h.value # 0
  BY <1>2
<1>5. h.res \in 1 .. 9 /\ ~at_end(d, v)
  BY <1>3, <1>4, HeadIs
<1>6. v.cur \in Nat /\ Byte(d, v.cur) \in 0 .. 255 /\ get_type(d, v) \in 0 .. 7
  BY <1>5, TypeIs, IteratorIs
<1>7. info \in 0 .. 31
  <2> DEFINE b == Byte(d, v.cur)
  <2>1. b \in 0 .. 255 /\ info = b % 32
    BY <1>6
  <2> HIDE DEF b, info
  <2>2. QED
    BY <2>1
<1>8. h = IF get_type(d, v) < 0 THEN [res |-> get_type(d, v), value |-> 0]
          ELSE IF type # get_type(d, v) THEN [res |-> -2, value |-> 0]
          ELSE IF info < 24 THEN [res |-> 1, value |-> info]
          ELSE IF info > 27 THEN [res |-> -1, value |-> 0]
          ELSE IF v.cur + bytes >= v.end THEN [res |-> -3, value |-> 0]
          ELSE [res |-> 1 + bytes, value |-> NumberAt(d, v.cur + 1, bytes)]
  BY <1>3, HeadForm
<1>9. info \in 24 .. 27 => bytes \in {1, 2, 4, 8}
  BY SizeIs
<1> HIDE DEF h, r, info, bytes
<1>10. h.value >= 24
  BY <1>2 DEF r
<1>11. ~(info < 24)
  <2> SUFFICES ASSUME info < 24 PROVE FALSE
    OBVIOUS
  <2>1. h.value \in {0, info}
    BY <1>8
  <2>2. QED
    BY <1>7, <1>10, <2>1
<1>12. h.res >= 2
  <2>1. info \in 24 .. 27
    <3>1. ~(info > 27)
      BY <1>4, <1>8, <1>11
    <3>2. QED
      BY <1>7, <1>11, <3>1
  <2>2. h.res = 1 + bytes
    <3>1. h.res # -2 /\ h.res # -1 /\ h.res # -3
      BY <1>5
    <3>2. ~(get_type(d, v) < 0)
      BY <1>6
    <3>3. QED
      BY <1>8, <1>11, <3>1, <3>2
  <2>3. QED
    BY <1>9, <2>1, <2>2
<1>13. r.buf >= v.cur + 2
  BY <1>2, <1>5, <1>6, <1>12
<1>14. QED
  BY <1>1, <1>13 DEF r

\* The hash is read although the result of reading it is not looked at: the
\* index behind it could not be read otherwise.
LEMMA HashIs ==
  ASSUME NEW d \in Buffers, NEW v \in Iterators(d), v.cur <= Len(d) + 10,
         get_bstr(d, v).len = 32, get_int(d, get_bstr(d, v).it, SIZE_WORD).res >= 0
  PROVE  LET hash == get_bstr(d, v)
         IN  /\ hash.res = 0 /\ hash.buf \in Nat /\ hash.buf >= v.cur + 2
             /\ hash.it \in Iterators(d) /\ hash.it.cur = hash.buf + 32 /\ hash.it.cur <= Len(d)
             /\ ~at_end(d, v)
<1> DEFINE h == get_uint64(d, v, SIZE_LONG, BSTR)
           hash == get_bstr(d, v)
<1>1. hash = IF StrFits(v, h.value, h.res)
             THEN [res |-> 0, it |-> Advance(v, h.res + h.value), buf |-> v.cur + h.res, len |-> h.value]
             ELSE [res |-> -3, it |-> v, buf |-> -1, len |-> h.value]
  BY DEF get_bstr, get_str, NANOCBOR_OK, NANOCBOR_ERR_END
<1>2. SIZE_LONG \in 24 .. 27
  BY DEF SIZE_LONG
<1>3. h.value # 0
  BY <1>1
<1>4. ~at_end(d, v) /\ Byte(d, v.cur) \div 32 = BSTR
  BY <1>2, <1>3, HeadIs
<1>5. hash.res = 0
  <2> SUFFICES ASSUME hash.res # 0 PROVE FALSE
    OBVIOUS
  <2>1. hash.it = v
    BY <1>1
  <2>2. Byte(d, v.cur) \div 32 \in {0, 1}
    BY <2>1, IntRead
  <2>3. QED
    BY <1>4, <2>2 DEF BSTR
<1>6. hash = get_str(d, v, BSTR) /\ hash.len = 32
  BY DEF get_bstr
<1> HIDE DEF hash
<1>7. hash.len >= 24
  BY <1>6
<1>8. /\ hash.buf \in Nat /\ hash.buf >= v.cur + 2
      /\ hash.it \in Iterators(d) /\ hash.it.cur = hash.buf + hash.len /\ hash.it.cur <= Len(d)
  BY <1>5, <1>6, <1>7, LongHead
<1>9. QED
  BY <1>4, <1>5, <1>6, <1>8 DEF hash

\* The witness set is 104 bytes at least.
LEMMA WitnessLength ==
  ASSUME NEW d \in Buffers, NEW v \in Iterators(d), v.cur <= Len(d) + 10,
         enter_map(d, v).res = 0, FirstOfKeyZero(d, enter_map(d, v).it).res = 0,
         LET first == FirstOfKeyZero(d, enter_map(d, v).it)
             key == get_bstr(d, first.it)
             sig == get_bstr(d, key.it)
         IN  key.res = 0 /\ key.len = 32 /\ sig.res = 0 /\ sig.len = 64
  PROVE  LET first == FirstOfKeyZero(d, enter_map(d, v).it)
             key == get_bstr(d, first.it)
             sig == get_bstr(d, key.it)
         IN  /\ v.cur + 104 <= Len(d)
             /\ key.buf \in Nat /\ key.buf + 32 <= Len(d)
             /\ sig.buf \in Nat /\ sig.buf + 64 <= Len(d)
             /\ Byte(d, key.it.cur) \div 32 = BSTR
<1> DEFINE m == enter_map(d, v)
           first == FirstOfKeyZero(d, m.it)
           key == get_bstr(d, first.it)
           sig == get_bstr(d, key.it)
<1>1. m.it \in Iterators(d) /\ m.it.cur \in Nat /\ m.it.cur >= v.cur + 1 /\ m.it.cur <= Len(d) /\ v.cur \in Nat
  BY EnterForward, IteratorIs
<1>2. m.it.cur <= Len(d) + 10 /\ Len(d) \in Nat
  <2>1. Len(d) \in Nat
    BY LenProperties
  <2> HIDE DEF m
  <2>2. QED
    BY <1>1, <2>1
<1>3. first.it \in Iterators(d) /\ first.it.cur >= m.it.cur + 3
  BY <1>1, <1>2, FirstIs
<1>4. key.res = 0 /\ key.len = 32 /\ sig.res = 0 /\ sig.len = 64 /\ key.len >= 24 /\ sig.len >= 24
  OBVIOUS
<1>5. key = get_str(d, first.it, BSTR) /\ sig = get_str(d, key.it, BSTR)
  BY DEF get_bstr
<1> HIDE DEF key, sig, first, m
<1>6. /\ key.buf \in Nat /\ key.buf >= first.it.cur + 2 /\ key.it \in Iterators(d)
      /\ key.it.cur = key.buf + key.len /\ key.it.cur <= Len(d)
  BY <1>3, <1>4, <1>5, LongHead
<1>7. /\ sig.buf \in Nat /\ sig.buf >= key.it.cur + 2
      /\ sig.it.cur = sig.buf + sig.len /\ sig.it.cur <= Len(d) /\ Byte(d, key.it.cur) \div 32 = BSTR
  BY <1>4, <1>5, <1>6, LongHead
<1>8. first.it.cur \in Nat
  BY <1>3, IteratorIs
<1>10. key.it.cur = key.buf + 32 /\ sig.it.cur = sig.buf + 64
  BY <1>4, <1>6, <1>7
<1>11. sig.buf >= (key.buf + 32) + 2 /\ sig.buf + 64 <= Len(d)
  BY <1>7, <1>10
<1>12. v.cur + 104 <= Len(d) /\ key.buf + 32 <= Len(d)
  <2>1. /\ v.cur \in Nat /\ m.it.cur \in Nat /\ first.it.cur \in Nat /\ key.buf \in Nat /\ sig.buf \in Nat
        /\ Len(d) \in Nat
        /\ m.it.cur >= v.cur + 1 /\ first.it.cur >= m.it.cur + 3 /\ key.buf >= first.it.cur + 2
    BY <1>1, <1>2, <1>3, <1>6, <1>7, <1>8
  <2> DEFINE i == v.cur
             j == m.it.cur
             n == first.it.cur
             k == key.buf
             s == sig.buf
             e == Len(d)
  <2> HIDE DEF i, j, n, k, s, e
  <2>2. /\ i \in Nat /\ j \in Nat /\ n \in Nat /\ k \in Nat /\ s \in Nat /\ e \in Nat
        /\ j >= i + 1 /\ n >= j + 3 /\ k >= n + 2 /\ s >= (k + 32) + 2 /\ s + 64 <= e
    BY <1>11, <2>1 DEF i, j, n, k, s, e
  <2>3. i + 104 <= e /\ k + 32 <= e
    BY <2>2
  <2>4. QED
    BY <2>3 DEF i, k, e
<1>13. QED
  BY <1>6, <1>7, <1>11, <1>12 DEF key, sig, first, m

-----------------------------------------------------------------------------
\* A container whose end is at a byte that is no break is left at that byte.
LEMMA LeftAt ==
  ASSUME NEW d \in Buffers, NEW r \in Iterators(d), NEW w \in Iterators(d), at_end(d, w),
         w.cur < Len(d), Byte(d, w.cur) \div 32 = ARR
  PROVE  leave_container(r, w).cur = w.cur
<1>1. w.cur \in Nat /\ w.end = Len(d) /\ Len(d) \in Nat
  BY IteratorIs
<1>2. ~OverEnd(w)
  BY <1>1 DEF OverEnd
<1>3. Byte(d, w.cur) # BREAK
  BY DEF BREAK, ARR
<1>4. w.flags # "indefinite"
  BY <1>2, <1>3 DEF at_end
<1>5. QED
  BY <1>4 DEF leave_container, Iterators

\* So a skip that is at an array when its container ends, ends at that array.
LEMMA SkipEndsAt ==
  ASSUME NEW d \in Buffers, NEW r \in Iterators(d), r.cur <= Len(d) + 10, skip(d, r).res = 0,
         NEW w \in Iterators(d), Reaches(d, r, w), at_end(d, w), enter_array(d, w).res = 0
  PROVE  skip(d, r).it.cur = w.cur /\ w.cur < Len(d) /\ Byte(d, w.cur) \div 32 = ARR
<1>1. w.cur < Len(d) /\ Byte(d, w.cur) \div 32 = ARR
  BY EnterForward
<1>2. skip(d, r).it = leave_container(r, w)
  BY ReachLeave
<1>3. QED
  BY <1>1, <1>2, LeftAt

\* An array that can be entered at the end of its container has no length: what
\* is entered does not depend on the container.
LEMMA EnteredAtEnd ==
  ASSUME NEW d \in Buffers, NEW c \in Iterators(d), at_end(d, c), enter_array(d, c).res = 0,
         NEW u \in Iterators(d), u.cur = c.cur
  PROVE  enter_array(d, u) = enter_array(d, c)
<1> DEFINE h == get_uint64(d, c, SIZE_WORD, ARR)
<1>1. c.cur \in Nat /\ c.cur < Len(d) /\ c.end = Len(d) /\ u.end = Len(d) /\ Len(d) \in Nat
  BY EnterForward, IteratorIs
<1>2. ~OverEnd(c) /\ ~OverEnd(u)
  BY <1>1 DEF OverEnd
<1>3. SIZE_WORD \in 24 .. 27
  BY DEF SIZE_WORD
<1>4. h.res < 0
  <2>1. h.res \in {-1, -2, -3}
    BY <1>3, HeadIs
  <2> HIDE DEF h
  <2>2. QED
    BY <2>1
<1>5. Byte(d, c.cur) = ARR * 32 + SIZE_INDEFINITE
  <2> SUFFICES ASSUME Byte(d, c.cur) # ARR * 32 + SIZE_INDEFINITE PROVE FALSE
    OBVIOUS
  <2>1. enter_array(d, c).res = h.res
    BY <1>4 DEF enter_array, enter_container
  <2> HIDE DEF h
  <2>2. QED
    BY <1>3, <1>4, <2>1
<1>6. QED
  BY <1>1, <1>2, <1>5 DEF enter_array, enter_container

\* A number that a skip comes by: the skip ends behind it.
LEMMA PastHash ==
  ASSUME NEW d \in Buffers, NEW x \in Iterators(d), x.cur <= Len(d) + 10, skip(d, x).res = 0,
         NEW v \in Iterators(d), v.cur <= Len(d) + 10, Reaches(d, x, v),
         get_bstr(d, v).len = 32, get_int(d, get_bstr(d, v).it, SIZE_WORD).res >= 0
  PROVE  skip(d, x).it.cur >= get_bstr(d, v).buf + 33
<1> DEFINE hash == get_bstr(d, v)
           index == get_int(d, hash.it, SIZE_WORD)
<1>1. /\ hash.res = 0 /\ hash.buf \in Nat /\ hash.it \in Iterators(d)
      /\ hash.it.cur = hash.buf + 32 /\ hash.it.cur <= Len(d) /\ ~at_end(d, v)
  BY HashIs
<1>2. index.res > 0 /\ ~at_end(d, hash.it)
  BY <1>1, IntRead
<1>3. Reaches(d, x, hash.it)
  <2>1. BSTR \in {BSTR, TSTR}
    OBVIOUS
  <2>2. skip(d, v).res = 0 /\ hash.it = skip(d, v).it
    BY <1>1, <2>1, SteppedStr DEF get_bstr
  <2>3. QED
    BY <1>1, <2>2, ReachSkip
<1>4. SIZE_WORD \in 24 .. 27
  BY DEF SIZE_WORD
<1>5. index.it = skip(d, hash.it).it
  BY <1>1, <1>2, <1>4, SteppedInt
<1>6. Reaches(d, x, index.it)
  BY <1>2, <1>3, <1>5, ReachSkip
<1>7. hash.it.cur <= Len(d) + 10 /\ Len(d) \in Nat
  <2>1. Len(d) \in Nat
    BY LenProperties
  <2> HIDE DEF hash
  <2>2. QED
    BY <1>1, <2>1
<1>8. index.res \in Int /\ index.it.cur \in Nat /\ index.it.cur = hash.it.cur + index.res
  BY <1>1, <1>2, <1>7, IntForward
<1>9. skip(d, x).it.cur >= index.it.cur
  <2>1. skip(d, x).res # ENDLESS
    BY DEF ENDLESS
  <2>2. QED
    BY <1>6, <2>1, ReachBefore
<1>10. skip(d, x).it.cur \in Nat
  BY SkipForward
<1> HIDE DEF hash, index
<1>11. skip(d, x).it.cur >= hash.buf + 33
  BY <1>1, <1>2, <1>8, <1>9, <1>10
<1>12. QED
  BY <1>11 DEF hash

\* A skip that ends is behind the end of what it skipped on its way.
LEMMA SkipBehindSkip ==
  ASSUME NEW d \in Buffers, NEW r \in Iterators(d), r.cur <= Len(d) + 10, skip(d, r).res = 0,
         NEW w, Reaches(d, r, w), ~at_end(d, w)
  PROVE  skip(d, w).res = 0 /\ skip(d, r).it.cur >= skip(d, w).it.cur
<1>1. skip(d, w).res = 0 /\ Reaches(d, r, skip(d, w).it)
  BY ReachSkip
<1>2. skip(d, r).res # ENDLESS
  BY DEF ENDLESS
<1>3. QED
  BY <1>1, <1>2, ReachBefore

\* The skip of the body passes the hash and the index behind it, unless it ends
\* at an array.
LEMMA BodyCovers ==
  ASSUME NEW d \in Buffers, NEW r \in Iterators(d), r.cur <= Len(d), skip(d, r).res = 0,
         enter_map(d, r).res = 0, FirstOfKeyZero(d, enter_map(d, r).it).res = 0,
         LET hash == get_bstr(d, FirstOfKeyZero(d, enter_map(d, r).it).it)
         IN  hash.len = 32 /\ get_int(d, hash.it, SIZE_WORD).res >= 0
  PROVE  LET behind == skip(d, r).it
         IN  \/ behind.cur >= get_bstr(d, FirstOfKeyZero(d, enter_map(d, r).it).it).buf + 33
             \/ Byte(d, behind.cur) \div 32 = ARR
<1> DEFINE m == enter_map(d, r).it
           val == get_item_by_key(d, m, 0)
           v == val.it
           c == enter_array(d, v).it
           first == enter_array(d, c).it
           e == skip(d, r).it
<1>1. Len(d) \in Nat /\ r.cur \in Nat
  BY LenProperties, IteratorIs
<1>2. r.cur <= Len(d) + 10 /\ \A n \in Nat : n <= Len(d) => n <= Len(d) + 10
  BY <1>1
<1>3. ~at_end(d, r)
  BY <1>2, SkipAtEnd
<1>4. m \in Iterators(d) /\ m.cur \in Nat /\ m.cur <= Len(d)
  BY EnterForward
<1>5. m.cur <= Len(d) + 10
  BY <1>2, <1>4
<1>6. Reaches(d, r, m)
  BY <1>3, ReachEnter
<1>7. /\ v \in Iterators(d) /\ enter_array(d, v).res = 0
      /\ c \in Iterators(d) /\ c.cur >= v.cur + 1 /\ enter_array(d, c).res = 0
      /\ first \in Iterators(d) /\ first.cur >= c.cur + 1 /\ first.cur <= Len(d)
      /\ FirstOfKeyZero(d, m).it = first
  <2>1. FirstOfKeyZero(d, m).res = 0
    OBVIOUS
  <2>2. QED
    BY <1>4, <1>5, <2>1, FirstIs
<1>8. Reaches(d, r, v)
  BY <1>2, <1>6, ReachItem
<1>9. get_bstr(d, first).len = 32 /\ get_int(d, get_bstr(d, first).it, SIZE_WORD).res >= 0
  BY <1>7
<1> HIDE DEF m, v, val, c, first
<1>10. v.cur \in Nat /\ c.cur \in Nat /\ first.cur \in Nat
  BY <1>7, IteratorIs
<1>11. v.cur <= Len(d) + 10 /\ c.cur <= Len(d) + 10 /\ first.cur <= Len(d) + 10
  BY <1>1, <1>7, <1>10
<1> DEFINE past == get_bstr(d, first).buf + 33
<1>12. ASSUME NEW x \in Iterators(d), x.cur <= Len(d) + 10, ~at_end(d, x), skip(d, x).res = 0,
              enter_array(d, x).it = first, enter_array(d, x).res = 0
       PROVE  skip(d, x).it.cur >= past /\ skip(d, x).it.cur \in Nat
  <2>1. Reaches(d, x, first)
    BY <1>12, ReachEnter
  <2>2. QED
    BY <1>7, <1>9, <1>11, <1>12, <2>1, PastHash, SkipForward
<1>13. e.cur \in Nat /\ past \in Int
  <2>1. e.cur \in Nat
    BY <1>2, SkipForward
  <2>2. get_bstr(d, first).buf \in Nat
    BY <1>7, <1>9, <1>11, HashIs
  <2>3. QED
    BY <2>1, <2>2
<1>14. CASE at_end(d, v)
  <2>1. e.cur = v.cur /\ Byte(d, v.cur) \div 32 = ARR
    BY <1>2, <1>7, <1>8, <1>14, SkipEndsAt
  <2>2. QED
    BY <2>1
<1>15. CASE ~at_end(d, v)
  <2> DEFINE u == skip(d, v).it
  <2>1. skip(d, v).res = 0 /\ e.cur >= u.cur
    BY <1>2, <1>8, <1>15, SkipBehindSkip
  <2>2. Reaches(d, r, u)
    BY <1>2, <1>8, <1>15, ReachSkip
  <2>3. Reaches(d, v, c)
    BY <1>7, <1>15, ReachEnter DEF c
  <2>4. u \in Iterators(d) /\ u.cur \in Nat /\ u.cur <= Len(d) + 10
    BY <1>7, <1>11, SkipIs, IteratorIs
  <2>5. CASE ~at_end(d, c)
    <3>1. skip(d, c).res = 0 /\ u.cur >= skip(d, c).it.cur
      BY <1>7, <1>11, <2>1, <2>3, <2>5, SkipBehindSkip
    <3>2. skip(d, c).it.cur >= past /\ skip(d, c).it.cur \in Nat
      BY <1>7, <1>11, <1>12, <2>5, <3>1 DEF first
    <3> DEFINE n == skip(d, c).it.cur
    <3> HIDE DEF u, e, past, n
    <3>3. e.cur \in Nat /\ u.cur \in Nat /\ n \in Nat /\ past \in Int /\ e.cur >= u.cur /\ u.cur >= n /\ n >= past
      BY <1>13, <2>1, <2>4, <3>1, <3>2 DEF n
    <3>4. e.cur >= past
      BY <3>3
    <3>5. QED
      BY <1>7, <3>4 DEF e, past, m
  <2>6. CASE at_end(d, c)
    <3>1. u.cur = c.cur
      BY <1>7, <1>11, <2>1, <2>3, <2>6, SkipEndsAt
    <3>2. enter_array(d, u) = enter_array(d, c)
      BY <1>7, <2>4, <2>6, <3>1, EnteredAtEnd
    <3>3. CASE at_end(d, u)
      <4>1. e.cur = u.cur /\ Byte(d, u.cur) \div 32 = ARR
        <5>1. enter_array(d, u).res = 0
          BY <1>7, <3>2
        <5> HIDE DEF u
        <5>2. QED
          BY <1>2, <2>2, <2>4, <3>3, <5>1, SkipEndsAt
      <4>2. QED
        BY <4>1
    <3>4. CASE ~at_end(d, u)
      <4>1. skip(d, u).res = 0 /\ e.cur >= skip(d, u).it.cur
        BY <1>2, <2>2, <3>4, SkipBehindSkip
      <4>2. skip(d, u).it.cur >= past /\ skip(d, u).it.cur \in Nat
        <5>1. enter_array(d, u).res = 0 /\ enter_array(d, u).it = first
          BY <1>7, <3>2 DEF first
        <5> HIDE DEF u
        <5>2. QED
          BY <1>12, <2>4, <3>4, <4>1, <5>1
      <4> DEFINE n == skip(d, u).it.cur
      <4> HIDE DEF e, past, n
      <4>3. e.cur \in Nat /\ n \in Nat /\ past \in Int /\ e.cur >= n /\ n >= past
        BY <1>13, <4>1, <4>2 DEF n
      <4>4. e.cur >= past
        BY <4>3
      <4>5. QED
        BY <1>7, <4>4 DEF e, past, m
    <3>5. QED
      BY <3>3, <3>4
  <2>7. QED
    BY <2>5, <2>6
<1>16. QED
  BY <1>14, <1>15

-----------------------------------------------------------------------------
\* The steps of get_cardano_data.

Fields == {"ckb_sign_msg", "public_key", "signature", "sign_message"}

LEMMA TxIs ==
  ASSUME input \in Signatures
  PROVE  /\ tx \in Buffers /\ Len(tx) \in Nat
         /\ decoder_init(tx) \in Iterators(tx) /\ decoder_init(tx).cur = 0
<1>1. tx \in Buffers
  BY SignaturesAssumption DEF tx
<1>2. Len(tx) \in Nat
  BY <1>1, LenProperties
<1>3. QED
  BY <1>1, <1>2 DEF decoder_init, Iterators, FLAGS

\* A step that does not change the signature leaves alone what it says.
LEMMA SameTx ==
  ASSUME input' = input
  PROVE  tx' = tx /\ BodyFound' = BodyFound /\ BodyStart' = BodyStart
  BY DEF tx, BodyFound, BodyStart

\* An error ends the call, and nothing is said of what was copied.
LEMMA ReturnKeeps ==
  ASSUME CardanoInv, NEW e, e # CardanoSuccess, Return(e), input' = input, DOMAIN out' = DOMAIN out
  PROVE  CardanoInv'
<1>1. pc' = "done" /\ err' # CardanoSuccess /\ ~Accepted'
  BY DEF Return, Accepted, CardanoSuccess
<1>2. QED
  BY <1>1 DEF CardanoInv

LEMMA CardanoInitHolds ==
  ASSUME CardanoInit
  PROVE  CardanoInv
  BY DEF CardanoInit, CardanoInv, Accepted

LEMMA EnterRootKeeps ==
  ASSUME CardanoInv, EnterRoot
  PROVE  CardanoInv'
<1>1. pc = "root" /\ root = decoder_init(tx) /\ input' = input /\ out' = out /\ input \in Signatures
  BY DEF EnterRoot, CardanoInv
<1>2. ASSUME NEW e \in {CardanoErr_CBORType, CardanoErr_CBORParse}, Return(e) PROVE CardanoInv'
  <2>1. e # CardanoSuccess
    BY DEF CardanoErr_CBORType, CardanoErr_CBORParse, CardanoSuccess
  <2>2. QED
    BY <1>1, <1>2, <2>1, ReturnKeeps
<1>3. ASSUME enter_array(tx, root).res = NANOCBOR_OK, root' = enter_array(tx, root).it, pc' = "body"
      PROVE  CardanoInv'
  <2>1. BodyFound' /\ root' = BodyStart'
    BY <1>1, <1>3, SameTx DEF BodyFound, BodyStart
  <2>2. ~Accepted'
    BY <1>3 DEF Accepted
  <2>3. QED
    BY <1>1, <1>3, <2>1, <2>2 DEF CardanoInv
<1>4. QED
  BY <1>2, <1>3 DEF EnterRoot

LEMMA GetSignHashKeeps ==
  ASSUME CardanoInv, GetSignHash
  PROVE  CardanoInv'
<1> DEFINE map == enter_map(tx, root)
           first == FirstOfKeyZero(tx, map.it)
           hash == get_bstr(tx, first.it)
           index == get_int(tx, hash.it, SIZE_WORD)
           copied == [out EXCEPT !.ckb_sign_msg = Slice(hash.buf, hash.len)]
<1>1. /\ pc = "body" /\ root = BodyStart /\ BodyFound /\ input \in Signatures /\ DOMAIN out = Fields
      /\ input' = input /\ root' = root
  BY DEF GetSignHash, CardanoInv, Fields
<1>2. ASSUME NEW e \in {CardanoErr_CBORParse, CardanoErr_InvaildCKBSignMsgLen, CardanoErr_InvaildSignMsgIndex,
                        NotFound(first.res)},
             Return(e), out' = out \/ out' = copied
      PROVE  CardanoInv'
  <2>1. e # CardanoSuccess
    BY DEF CardanoErr_CBORParse, CardanoErr_InvaildCKBSignMsgLen, CardanoErr_InvaildSignMsgIndex,
           CardanoSuccess, NotFound, ENDLESS
  <2>2. DOMAIN out' = DOMAIN out
    BY <1>2
  <2>3. QED
    BY <1>1, <1>2, <2>1, <2>2, ReturnKeeps
<1>3. ASSUME map.res = NANOCBOR_OK, first.res = NANOCBOR_OK, hash.len = BLAKE2B_BLOCK_SIZE,
             IndexIsZero(index), out' = copied, pc' = "skip"
      PROVE  CardanoInv'
  <2>1. out'.ckb_sign_msg = Slice(hash.buf, hash.len) /\ DOMAIN out' = Fields
    BY <1>1, <1>3 DEF Fields
  <2>2. tx' = tx /\ BodyStart' = BodyStart /\ BodyFound'
    BY <1>1, SameTx
  <2>3. HashRead'
    <3>1. HashRead' = LET n == enter_map(tx', BodyStart')
                          f == FirstOfKeyZero(tx', n.it)
                          h == get_bstr(tx', f.it)
                      IN  /\ n.res = NANOCBOR_OK /\ f.res = NANOCBOR_OK
                          /\ h.len = BLAKE2B_BLOCK_SIZE
                          /\ IndexIsZero(get_int(tx', h.it, SIZE_WORD))
                          /\ out'.ckb_sign_msg = Slice(h.buf, h.len)
      BY DEF HashRead
    <3>2. QED
      BY <1>1, <1>3, <2>1, <2>2, <3>1
  <2>4. ~Accepted'
    BY <1>3 DEF Accepted
  <2>5. QED
    BY <1>1, <1>3, <2>1, <2>2, <2>3, <2>4 DEF CardanoInv, Fields
<1>4. \/ map.res # NANOCBOR_OK /\ Return(CardanoErr_CBORParse) /\ out' = out
      \/ first.res # NANOCBOR_OK /\ Return(NotFound(first.res)) /\ out' = out
      \/ map.res = NANOCBOR_OK /\ first.res = NANOCBOR_OK /\ SignHash(first.it)
  BY DEF GetSignHash
<1>5. SignHash(first.it) =>
        \/ Return(CardanoErr_InvaildCKBSignMsgLen) /\ out' = out
        \/ Return(CardanoErr_InvaildSignMsgIndex) /\ out' = copied
        \/ hash.len = BLAKE2B_BLOCK_SIZE /\ IndexIsZero(index) /\ out' = copied /\ pc' = "skip"
  BY DEF SignHash
<1> HIDE DEF map, first, hash, index, copied
<1>6. QED
  BY <1>2, <1>3, <1>4, <1>5

LEMMA SkipBodyKeeps ==
  ASSUME CardanoInv, SkipBody
  PROVE  CardanoInv'
<1>1. /\ pc = "skip" /\ root = BodyStart /\ BodyFound /\ HashRead /\ input \in Signatures
      /\ input' = input /\ out' = out
  BY DEF SkipBody, CardanoInv
<1>2. ASSUME Return(ENDLESS) PROVE CardanoInv'
  <2>1. ENDLESS # CardanoSuccess
    BY DEF ENDLESS, CardanoSuccess
  <2>2. QED
    BY <1>1, <1>2, <2>1, ReturnKeeps
<1>3. ASSUME skip(tx, root).res # ENDLESS, root' = skip(tx, root).it, pc' = "witness"
      PROVE  CardanoInv'
  <2>1. BodyFound' /\ HashRead' /\ BodySkipped'
    <3>1. tx' = tx /\ BodyStart' = BodyStart /\ BodyFound'
      BY <1>1, SameTx
    <3>2. HashRead'
      BY <1>1, <3>1 DEF HashRead
    <3>3. BodySkipped'
      BY <1>1, <1>3, <3>1 DEF BodySkipped
    <3>4. QED
      BY <3>1, <3>2, <3>3
  <2>2. ~Accepted'
    BY <1>3 DEF Accepted
  <2>3. QED
    BY <1>1, <1>3, <2>1, <2>2 DEF CardanoInv
<1>4. QED
  BY <1>2, <1>3 DEF SkipBody

LEMMA GetSignDataKeeps ==
  ASSUME CardanoInv, GetSignData
  PROVE  CardanoInv'
<1> DEFINE map == enter_map(tx, root)
           first == FirstOfKeyZero(tx, map.it)
           key == get_bstr(tx, first.it)
           sig == get_bstr(tx, key.it)
           keyed == [out EXCEPT !.public_key = Slice(key.buf, key.len)]
           copied == [keyed EXCEPT !.signature = Slice(sig.buf, sig.len)]
<1>1. /\ pc = "witness" /\ BodyFound /\ HashRead /\ BodySkipped /\ input \in Signatures
      /\ DOMAIN out = Fields /\ input' = input /\ root' = root
  BY DEF GetSignData, CardanoInv, Fields
<1>2. ASSUME NEW e \in {CardanoErr_CBORParse, CardanoErr_InvaildPubKeyLen, CardanoErr_InvaildSignLen,
                        NotFound(first.res)},
             Return(e), out' = out \/ out' = keyed
      PROVE  CardanoInv'
  <2>1. e # CardanoSuccess
    BY DEF CardanoErr_CBORParse, CardanoErr_InvaildPubKeyLen, CardanoErr_InvaildSignLen, CardanoSuccess,
           NotFound, ENDLESS
  <2>2. DOMAIN out' = DOMAIN out
    BY <1>2
  <2>3. QED
    BY <1>1, <1>2, <2>1, <2>2, ReturnKeeps
<1>3. ASSUME map.res = NANOCBOR_OK, first.res = NANOCBOR_OK, key.res = NANOCBOR_OK, key.len = PUBKEY_SIZE,
             sig.res = NANOCBOR_OK, sig.len = SIGNATURE_SIZE, out' = copied, pc' = "message"
      PROVE  CardanoInv'
  <2>1. /\ out'.ckb_sign_msg = out.ckb_sign_msg /\ DOMAIN out' = Fields
        /\ out'.public_key = Slice(key.buf, key.len) /\ out'.signature = Slice(sig.buf, sig.len)
    BY <1>1, <1>3 DEF Fields
  <2>2. tx' = tx /\ BodyStart' = BodyStart /\ BodyFound'
    BY <1>1, SameTx
  <2>3. HashRead'
    BY <1>1, <2>1, <2>2 DEF HashRead
  <2>4. BodySkipped'
    BY <1>1, <2>2 DEF BodySkipped
  <2>5. WitnessRead'
    <3>1. WitnessRead' = LET n == enter_map(tx', root')
                             f == FirstOfKeyZero(tx', n.it)
                             k == get_bstr(tx', f.it)
                             s == get_bstr(tx', k.it)
                         IN  /\ n.res = NANOCBOR_OK /\ f.res = NANOCBOR_OK
                             /\ k.res = NANOCBOR_OK /\ k.len = PUBKEY_SIZE
                             /\ s.res = NANOCBOR_OK /\ s.len = SIGNATURE_SIZE
                             /\ out'.public_key = Slice(k.buf, k.len)
                             /\ out'.signature = Slice(s.buf, s.len)
      BY DEF WitnessRead
    <3>2. QED
      BY <1>1, <1>3, <2>1, <2>2, <3>1
  <2>6. ~Accepted'
    BY <1>3 DEF Accepted
  <2>7. QED
    BY <1>1, <1>3, <2>1, <2>2, <2>3, <2>4, <2>5, <2>6 DEF CardanoInv, Fields
<1>4. \/ map.res # NANOCBOR_OK /\ Return(CardanoErr_CBORParse) /\ out' = out
      \/ first.res # NANOCBOR_OK /\ Return(NotFound(first.res)) /\ out' = out
      \/ map.res = NANOCBOR_OK /\ first.res = NANOCBOR_OK /\ SignData(first.it)
  BY DEF GetSignData
<1>5. SignData(first.it) =>
        \/ Return(CardanoErr_CBORParse) /\ (out' = out \/ out' = keyed)
        \/ Return(CardanoErr_InvaildPubKeyLen) /\ out' = out
        \/ Return(CardanoErr_InvaildSignLen) /\ out' = keyed
        \/ /\ key.res = NANOCBOR_OK /\ key.len = PUBKEY_SIZE
           /\ sig.res = NANOCBOR_OK /\ sig.len = SIGNATURE_SIZE
           /\ out' = copied /\ pc' = "message"
  BY DEF SignData
<1> HIDE DEF map, first, key, sig, keyed, copied
<1>6. QED
  BY <1>2, <1>3, <1>4, <1>5

LEMMA GetSignMessageKeeps ==
  ASSUME CardanoInv, GetSignMessage
  PROVE  CardanoInv'
<1>1. /\ BodyFound /\ HashRead /\ BodySkipped /\ WitnessRead /\ input \in Signatures
      /\ DOMAIN out = Fields /\ input' = input /\ root' = root /\ pc' = "done"
      /\ out' = [out EXCEPT !.sign_message = Slice(1, SignMsgLen(Len(tx)))]
  BY DEF GetSignMessage, CardanoInv, Return, Fields
<1>2. /\ out'.ckb_sign_msg = out.ckb_sign_msg /\ DOMAIN out' = Fields
      /\ out'.public_key = out.public_key /\ out'.signature = out.signature
      /\ out'.sign_message = Slice(1, SignMsgLen(Len(tx)))
  BY <1>1 DEF Fields
<1>3. tx' = tx /\ BodyStart' = BodyStart /\ BodyFound'
  BY <1>1, SameTx
<1>4. HashRead'
  BY <1>1, <1>2, <1>3 DEF HashRead
<1>5. BodySkipped'
  BY <1>1, <1>3 DEF BodySkipped
<1>6. WitnessRead'
  BY <1>1, <1>2, <1>3 DEF WitnessRead
<1>7. out'.sign_message = Slice(1, SignMsgLen(Len(tx')))
  BY <1>2, <1>3
<1>8. QED
  BY <1>1, <1>2, <1>3, <1>4, <1>5, <1>6, <1>7 DEF CardanoInv, Fields

LEMMA CardanoStutters ==
  ASSUME CardanoInv, UNCHANGED cardano_vars
  PROVE  CardanoInv'
<1>1. pc' = pc /\ input' = input /\ root' = root /\ out' = out /\ err' = err
  BY DEF cardano_vars
<1>2. tx' = tx /\ BodyStart' = BodyStart /\ BodyFound' = BodyFound
  BY <1>1, SameTx
<1>3. HashRead => HashRead'
  BY <1>1, <1>2 DEF HashRead
<1>4. BodySkipped => BodySkipped'
  BY <1>1, <1>2 DEF BodySkipped
<1>5. WitnessRead => WitnessRead'
  BY <1>1, <1>2 DEF WitnessRead
<1>6. Accepted' = Accepted
  BY <1>1 DEF Accepted
<1>7. QED
  BY <1>1, <1>2, <1>3, <1>4, <1>5, <1>6 DEF CardanoInv

\* At every step, what get_cardano_data has read so far can be told again from
\* the signature it was given.
THEOREM CardanoInductive == CardanoSpec => []CardanoInv
<1>1. CardanoInit => CardanoInv
  BY CardanoInitHolds
<1>2. CardanoInv /\ [CardanoNext]_cardano_vars => CardanoInv'
  BY EnterRootKeeps, GetSignHashKeeps, SkipBodyKeeps, GetSignDataKeeps, GetSignMessageKeeps,
     CardanoStutters DEF CardanoNext, Done
<1>3. QED
  BY <1>1, <1>2, PTL DEF CardanoSpec

-----------------------------------------------------------------------------
\* What was read when the call succeeds, in numbers.
LEMMA AcceptedIs ==
  ASSUME CardanoInv, Accepted
  PROVE  \E at, key, sig \in Nat :
           /\ at >= 1 /\ at + 32 <= Len(tx) /\ out.ckb_sign_msg = Slice(at, 32)
           /\ key + 32 <= Len(tx) /\ out.public_key = Slice(key, 32)
           /\ sig + 64 <= Len(tx) /\ out.signature = Slice(sig, 64)
           /\ root.cur \in Nat /\ root.cur >= 2 /\ root.cur + 104 <= Len(tx)
           /\ skip(tx, BodyStart).res = 0 => root.cur >= at + 33
<1> DEFINE d == tx
           r == BodyStart
           map == enter_map(d, r)
           first == FirstOfKeyZero(d, map.it)
           hash == get_bstr(d, first.it)
           wmap == enter_map(d, root)
           wfirst == FirstOfKeyZero(d, wmap.it)
           key == get_bstr(d, wfirst.it)
           sig == get_bstr(d, key.it)
<1>1. BodyFound /\ HashRead /\ BodySkipped /\ WitnessRead /\ input \in Signatures
  BY DEF CardanoInv
<1>2. d \in Buffers /\ Len(d) \in Nat /\ decoder_init(d) \in Iterators(d) /\ decoder_init(d).cur = 0
  BY <1>1, TxIs
<1>3. r \in Iterators(d) /\ r.cur \in Nat /\ r.cur >= 1 /\ r.cur <= Len(d)
  <2> DEFINE a == enter_array(d, decoder_init(d))
  <2>1. a.res = 0 /\ r = a.it
    BY <1>1 DEF BodyFound, BodyStart, NANOCBOR_OK
  <2>2. a.it \in Iterators(d) /\ a.it.cur \in Nat /\ a.it.cur >= decoder_init(d).cur + 1 /\ a.it.cur <= Len(d)
    BY <1>2, <2>1, EnterForward
  <2> HIDE DEF a, r, d
  <2>3. QED
    BY <1>2, <2>1, <2>2
<1>4. /\ map.res = 0 /\ first.res = 0 /\ hash.len = 32 /\ get_int(d, hash.it, SIZE_WORD).res >= 0
      /\ out.ckb_sign_msg = Slice(hash.buf, 32)
  BY <1>1 DEF HashRead, NANOCBOR_OK, BLAKE2B_BLOCK_SIZE, IndexIsZero
<1>5. skip(d, r).res # ENDLESS /\ root = skip(d, r).it
  BY <1>1 DEF BodySkipped
<1>6. /\ wmap.res = 0 /\ wfirst.res = 0 /\ key.res = 0 /\ key.len = 32 /\ sig.res = 0 /\ sig.len = 64
      /\ out.public_key = Slice(key.buf, 32) /\ out.signature = Slice(sig.buf, 64)
  BY <1>1 DEF WitnessRead, NANOCBOR_OK, PUBKEY_SIZE, SIGNATURE_SIZE
<1> HIDE DEF d, r
<1>7. r.cur <= Len(d) + 10
  BY <1>2, <1>3
<1>8. root \in Iterators(d) /\ root.cur \in Nat /\ root.cur <= Len(d) + 10
  BY <1>2, <1>3, <1>5, <1>7, SkipIs, SkipForward
<1>9. map.it \in Iterators(d) /\ map.it.cur \in Nat /\ map.it.cur >= r.cur + 1 /\ map.it.cur <= Len(d)
  BY <1>2, <1>3, <1>4, EnterForward
<1>10. first.it \in Iterators(d) /\ first.it.cur \in Nat /\ first.it.cur <= Len(d)
  <2>1. map.it.cur <= Len(d) + 10
    <3> HIDE DEF map
    <3>1. QED
      BY <1>2, <1>9
  <2>2. first.it \in Iterators(d) /\ first.it.cur <= Len(d)
    BY <1>2, <1>4, <1>9, <2>1, FirstIs
  <2>3. QED
    BY <1>2, <2>2, IteratorIs
<1>11. /\ hash.buf \in Nat /\ hash.buf >= first.it.cur + 2
       /\ hash.it \in Iterators(d) /\ hash.it.cur = hash.buf + 32 /\ hash.it.cur <= Len(d)
  <2>1. first.it.cur <= Len(d) + 10
    <3> HIDE DEF first
    <3>1. QED
      BY <1>2, <1>10
  <2>2. QED
    BY <1>2, <1>4, <1>10, <2>1, HashIs
<1>12. /\ root.cur + 104 <= Len(d)
       /\ key.buf \in Nat /\ key.buf + 32 <= Len(d)
       /\ sig.buf \in Nat /\ sig.buf + 64 <= Len(d)
       /\ Byte(d, key.it.cur) \div 32 = BSTR
  BY <1>2, <1>6, <1>8, WitnessLength
<1>13. root.cur >= 2
  <2>1. CASE at_end(d, r)
    <3>1. root = r
      BY <1>2, <1>3, <1>5, <1>7, <2>1, SkipAtEnd
    <3>2. key.it = hash.it
      BY <3>1
    <3>3. Byte(d, hash.it.cur) \div 32 \in {0, 1}
      BY <1>2, <1>4, <1>11, IntRead
    <3>4. QED
      BY <1>12, <3>2, <3>3 DEF BSTR
  <2>2. CASE ~at_end(d, r)
    <3>1. Reaches(d, r, map.it)
      BY <1>2, <1>3, <1>4, <2>2, ReachEnter
    <3>2. root.cur >= map.it.cur
      BY <1>2, <1>3, <1>5, <1>7, <3>1, ReachBefore
    <3> HIDE DEF map
    <3>3. QED
      BY <1>3, <1>8, <1>9, <3>2
  <2>3. QED
    BY <2>1, <2>2
<1>14. skip(d, r).res = 0 => root.cur >= hash.buf + 33
  <2> SUFFICES ASSUME skip(d, r).res = 0 PROVE root.cur >= hash.buf + 33
    OBVIOUS
  <2>1. root.cur >= hash.buf + 33 \/ Byte(d, root.cur) \div 32 = ARR
    BY <1>2, <1>3, <1>4, <1>5, BodyCovers
  <2>2. Byte(d, root.cur) \div 32 = MAP
    BY <1>2, <1>6, <1>8, EnterForward
  <2>3. QED
    BY <2>1, <2>2 DEF ARR, MAP
<1> HIDE DEF map, first, hash, wmap, wfirst, key, sig
<1>15. hash.buf >= 1 /\ hash.buf + 32 <= Len(d)
  BY <1>10, <1>11
<1>16. QED
  BY <1>4, <1>6, <1>8, <1>11, <1>12, <1>13, <1>14, <1>15 DEF d, r

\* What get_cardano_data copies out when it succeeds lies in the signature it
\* was given, whatever the signature holds: no length wrapped round, neither
\* did the subtraction in get_cardano_sign_message, and the hash was not copied
\* from the null pointer.
THEOREM CopiesInside == CardanoSpec => []CopiedFromSignature
<1>1. CardanoInv => CopiedFromSignature
  <2> SUFFICES ASSUME CardanoInv, Accepted
               PROVE  (\A f \in DOMAIN out : Inside(out[f])) /\ out.ckb_sign_msg.len = BLAKE2B_BLOCK_SIZE
    BY DEF CopiedFromSignature
  <2>1. PICK at, key, sig \in Nat :
           /\ at + 32 <= Len(tx) /\ out.ckb_sign_msg = Slice(at, 32)
           /\ key + 32 <= Len(tx) /\ out.public_key = Slice(key, 32)
           /\ sig + 64 <= Len(tx) /\ out.signature = Slice(sig, 64)
           /\ root.cur \in Nat /\ root.cur >= 2 /\ root.cur + 104 <= Len(tx)
    BY AcceptedIs
  <2>2. /\ DOMAIN out = {"ckb_sign_msg", "public_key", "signature", "sign_message"}
        /\ out.sign_message = Slice(1, SignMsgLen(Len(tx))) /\ Len(tx) \in Nat
    BY TxIs DEF CardanoInv
  <2>3. SignMsgLen(Len(tx)) = Len(tx) - 106 /\ Len(tx) >= 106
    BY <2>1, <2>2 DEF SignMsgLen
  <2>4. Inside(out.ckb_sign_msg) /\ Inside(out.public_key) /\ Inside(out.signature)
    BY <2>1 DEF Inside, Slice
  <2>5. Inside(out.sign_message)
    BY <2>2, <2>3 DEF Inside, Slice
  <2>6. out.ckb_sign_msg.len = BLAKE2B_BLOCK_SIZE
    BY <2>1 DEF Slice, BLAKE2B_BLOCK_SIZE
  <2>7. QED
    BY <2>2, <2>4, <2>5, <2>6
<1>2. QED
  BY <1>1, CardanoInductive, PTL

\* The hash that is compared with the message to sign is among the bytes that
\* are hashed and verified, in any signature whose body nanocbor_skip passed
\* over without an error; the code does not look whether it did
\* (cardano_lock_inc.h:207).
THEOREM HashIsSigned == CardanoSpec => []SignedCoversHash
<1>1. CardanoInv => SignedCoversHash
  <2> SUFFICES ASSUME CardanoInv, Accepted, skip(tx, BodyStart).res = 0
               PROVE  Within(out.ckb_sign_msg, out.sign_message)
    BY DEF SignedCoversHash, NANOCBOR_OK
  <2>1. PICK at \in Nat :
           /\ at >= 1 /\ out.ckb_sign_msg = Slice(at, 32)
           /\ root.cur \in Nat /\ root.cur + 104 <= Len(tx) /\ root.cur >= at + 33
    BY AcceptedIs
  <2>2. out.sign_message = Slice(1, SignMsgLen(Len(tx))) /\ Len(tx) \in Nat
    BY TxIs DEF CardanoInv
  <2>3. SignMsgLen(Len(tx)) = Len(tx) - 106
    BY <2>2 DEF SignMsgLen
  <2>4. at + 32 <= 1 + (Len(tx) - 106)
    BY <2>1, <2>2
  <2>5. QED
    BY <2>1, <2>2, <2>3, <2>4 DEF Within, Slice
<1>2. QED
  BY <1>1, CardanoInductive, PTL

-----------------------------------------------------------------------------
\* The encoder: what is written piece by piece.

\* The function FlattenSeq is defined with, of the first n sequences of q.
Flattening(q, n, f) == f = [i \in 1 .. n |-> IF i = 1 THEN q[i] ELSE f[i - 1] \o q[i]]

LEMMA FlattenExists ==
  ASSUME NEW S, NEW q \in Seq(Seq(S)), NEW k \in Nat, k + 1 <= Len(q)
  PROVE  \E f \in [1 .. k + 1 -> Seq(S)] : Flattening(q, k + 1, f)
<1> DEFINE T == { n \in Nat : n + 1 <= Len(q) =>
                    \E f \in [1 .. n + 1 -> Seq(S)] : Flattening(q, n + 1, f) }
<1>1. Len(q) \in Nat /\ \A i \in 1 .. Len(q) : q[i] \in Seq(S)
  BY LenProperties
<1>2. 0 \in T
  <2> SUFFICES ASSUME 1 <= Len(q) PROVE \E f \in [1 .. 1 -> Seq(S)] : Flattening(q, 1, f)
    OBVIOUS
  <2> DEFINE f == [i \in 1 .. 1 |-> q[i]]
  <2>1. f \in [1 .. 1 -> Seq(S)]
    BY <1>1
  <2>2. Flattening(q, 1, f)
    BY DEF Flattening
  <2>3. QED
    BY <2>1, <2>2
<1>3. ASSUME NEW n \in Nat, n \in T PROVE n + 1 \in T
  <2> SUFFICES ASSUME (n + 1) + 1 <= Len(q)
               PROVE  \E f \in [1 .. (n + 1) + 1 -> Seq(S)] : Flattening(q, (n + 1) + 1, f)
    OBVIOUS
  <2> DEFINE m == n + 1
  <2>1. m \in Nat /\ m >= 1 /\ m <= Len(q) /\ m + 1 \in 1 .. Len(q)
    BY <1>1
  <2>2. PICK f \in [1 .. m -> Seq(S)] : Flattening(q, m, f)
    BY <1>3, <2>1
  <2> HIDE DEF m
  <2> DEFINE g == [i \in 1 .. m + 1 |-> IF i <= m THEN f[i] ELSE f[m] \o q[m + 1]]
  <2>3. g \in [1 .. m + 1 -> Seq(S)]
    <3>1. f[m] \in Seq(S) /\ q[m + 1] \in Seq(S)
      BY <1>1, <2>1
    <3>2. f[m] \o q[m + 1] \in Seq(S)
      BY <3>1, ConcatProperties
    <3>3. QED
      BY <2>1, <3>2
  <2>4. \A i \in 1 .. m : f[i] = IF i = 1 THEN q[i] ELSE f[i - 1] \o q[i]
    BY <2>2 DEF Flattening
  <2>5. ASSUME NEW i \in 1 .. m + 1 PROVE g[i] = IF i = 1 THEN q[i] ELSE g[i - 1] \o q[i]
    <3>1. CASE i <= m
      <4>1. i \in 1 .. m /\ (i # 1 => i - 1 \in 1 .. m + 1 /\ i - 1 <= m)
        BY <2>1, <3>1
      <4>2. QED
        BY <2>4, <3>1, <4>1
    <3>2. CASE ~(i <= m)
      <4>1. i = m + 1 /\ i # 1 /\ i - 1 = m /\ m \in 1 .. m + 1
        BY <2>1, <3>2
      <4>2. QED
        BY <2>1, <3>2, <4>1
    <3>3. QED
      BY <3>1, <3>2
  <2>6. Flattening(q, m + 1, g)
    <3>1. g = [i \in 1 .. m + 1 |-> g[i]]
      OBVIOUS
    <3> HIDE DEF g
    <3>2. QED
      BY <2>5, <3>1 DEF Flattening
  <2>7. QED
    BY <2>3, <2>6 DEF m
<1>4. \A n \in Nat : n \in T
  <2> HIDE DEF T
  <2>1. QED
    BY <1>2, <1>3, AllNumbers
<1>5. QED
  BY <1>4

SameStart(q, p, n) == \A i \in 1 .. n : q[i] = p[i]

LEMMA FlattenAgree ==
  ASSUME NEW q, NEW p, NEW n \in Nat, NEW m \in Nat, n <= m,
         SameStart(q, p, n),
         NEW f, Flattening(q, n, f), NEW g, Flattening(p, m, g)
  PROVE  SameStart(f, g, n)
<1> DEFINE T == { k \in Nat : k + 1 <= n => f[k + 1] = g[k + 1] }
<1>1. /\ \A i \in 1 .. n : f[i] = IF i = 1 THEN q[i] ELSE f[i - 1] \o q[i]
      /\ \A i \in 1 .. m : g[i] = IF i = 1 THEN p[i] ELSE g[i - 1] \o p[i]
  BY DEF Flattening
<1>2. 0 \in T
  <2> SUFFICES ASSUME 1 <= n PROVE f[1] = g[1]
    OBVIOUS
  <2>1. 1 \in 1 .. n /\ 1 \in 1 .. m
    OBVIOUS
  <2>2. QED
    BY <1>1, <2>1 DEF SameStart
<1>3. ASSUME NEW k \in Nat, k \in T PROVE k + 1 \in T
  <2> SUFFICES ASSUME (k + 1) + 1 <= n PROVE f[(k + 1) + 1] = g[(k + 1) + 1]
    OBVIOUS
  <2> DEFINE i == (k + 1) + 1
  <2>1. i \in 1 .. n /\ i \in 1 .. m /\ i # 1 /\ i - 1 = k + 1 /\ k + 1 <= n
    OBVIOUS
  <2> HIDE DEF i
  <2>2. f[i - 1] = g[i - 1]
    BY <1>3, <2>1
  <2>3. QED
    BY <1>1, <2>1, <2>2 DEF i, SameStart
<1>4. \A k \in Nat : k \in T
  <2> HIDE DEF T
  <2>1. QED
    BY <1>2, <1>3, AllNumbers
<1>5. ASSUME NEW i \in 1 .. n PROVE f[i] = g[i]
  <2>1. i - 1 \in Nat /\ (i - 1) + 1 = i /\ i <= n
    OBVIOUS
  <2>2. i - 1 \in T
    BY <1>4, <2>1
  <2>3. QED
    BY <2>1, <2>2
<1>6. QED
  BY <1>5 DEF SameStart

LEMMA FlattenIs ==
  ASSUME NEW S, NEW q \in Seq(Seq(S)), Len(q) >= 1
  PROVE  \E f \in [1 .. Len(q) -> Seq(S)] : Flattening(q, Len(q), f) /\ FlattenSeq(q) = f[Len(q)]
<1> DEFINE n == Len(q)
           h == CHOOSE f : f = [i \in 1 .. n |-> IF i = 1 THEN q[i] ELSE f[i - 1] \o q[i]]
<1>1. n \in Nat /\ n - 1 \in Nat /\ (n - 1) + 1 = n /\ n # 0 /\ n <= n
  BY LenProperties
<1>2. FlattenSeq(q) = h[n]
  BY <1>1 DEF FlattenSeq
<1>3. PICK f \in [1 .. n -> Seq(S)] : Flattening(q, n, f)
  <2> DEFINE k == n - 1
  <2>1. k \in Nat /\ k + 1 = n /\ k + 1 <= Len(q)
    BY <1>1
  <2> HIDE DEF k, n
  <2>2. \E f \in [1 .. k + 1 -> Seq(S)] : Flattening(q, k + 1, f)
    BY <2>1, FlattenExists
  <2>3. QED
    BY <2>1, <2>2
<1> HIDE DEF n
<1>4. Flattening(q, n, h)
  BY <1>3 DEF Flattening
<1>5. SameStart(h, f, n)
  <2>1. SameStart(q, q, n)
    BY DEF SameStart
  <2>2. QED
    BY <1>1, <1>3, <1>4, <2>1, FlattenAgree
<1>6. n \in 1 .. n
  BY <1>1
<1>7. QED
  BY <1>2, <1>3, <1>5, <1>6 DEF n, SameStart

\* One sequence more is flattened behind the others.
LEMMA FlattenAppend ==
  ASSUME NEW S, NEW q \in Seq(Seq(S)), NEW e \in Seq(S)
  PROVE  FlattenSeq(q) \in Seq(S) /\ FlattenSeq(Append(q, e)) = FlattenSeq(q) \o e
<1> DEFINE p == Append(q, e)
           n == Len(q)
<1>1. /\ n \in Nat /\ p \in Seq(Seq(S)) /\ Len(p) = n + 1 /\ p[n + 1] = e
      /\ \A i \in 1 .. n : p[i] = q[i]
  BY LenProperties, AppendProperties
<1> HIDE DEF p
<1>2. PICK g \in [1 .. n + 1 -> Seq(S)] : Flattening(p, n + 1, g) /\ FlattenSeq(p) = g[n + 1]
  <2>1. Len(p) >= 1
    BY <1>1
  <2>2. \E g \in [1 .. Len(p) -> Seq(S)] : Flattening(p, Len(p), g) /\ FlattenSeq(p) = g[Len(p)]
    BY <1>1, <2>1, FlattenIs
  <2>3. QED
    BY <1>1, <2>2
<1>3. g[n + 1] = IF n + 1 = 1 THEN p[n + 1] ELSE g[(n + 1) - 1] \o p[n + 1]
  <2>1. n + 1 \in 1 .. n + 1
    BY <1>1
  <2>2. QED
    BY <1>2, <2>1 DEF Flattening
<1>4. CASE n = 0
  <2>1. q = <<>>
    BY <1>4
  <2>2. FlattenSeq(q) = <<>>
    BY <1>4, <2>1 DEF FlattenSeq
  <2>3. FlattenSeq(p) = e
    BY <1>1, <1>2, <1>3, <1>4
  <2>4. <<>> \in Seq(S)
    BY EmptySeq
  <2>5. <<>> \o e = e
    BY ConcatEmptySeq
  <2>6. QED
    <3>1. FlattenSeq(q) \in Seq(S) /\ FlattenSeq(q) \o e = e
      BY <2>2, <2>4, <2>5
    <3>2. FlattenSeq(Append(q, e)) = e
      BY <2>3 DEF p
    <3>3. QED
      BY <3>1, <3>2
<1>5. CASE n >= 1
  <2>1. PICK f \in [1 .. n -> Seq(S)] : Flattening(q, n, f) /\ FlattenSeq(q) = f[n]
    BY <1>5, FlattenIs
  <2> HIDE DEF n
  <2>2. n \in 1 .. n /\ n + 1 # 1 /\ (n + 1) - 1 = n /\ n <= n + 1 /\ n + 1 \in Nat
    BY <1>1, <1>5
  <2>3. SameStart(f, g, n)
    <3> DEFINE m == n + 1
    <3>1. m \in Nat /\ n \in Nat /\ n <= m /\ SameStart(q, p, n)
      BY <1>1, <2>2 DEF SameStart
    <3>2. Flattening(q, n, f) /\ Flattening(p, m, g)
      BY <1>2, <2>1
    <3> HIDE DEF m
    <3>3. QED
      BY <3>1, <3>2, FlattenAgree
  <2>4. FlattenSeq(p) = f[n] \o e
    BY <1>1, <1>2, <1>3, <2>2, <2>3 DEF SameStart
  <2>5. QED
    BY <2>1, <2>2, <2>4 DEF p
<1>6. QED
  BY <1>1, <1>4, <1>5

\* The encoder e holds what nanocbor_encoded_len tells of the bytes w.
Tells(e, w) ==
  /\ e.buf \in Seq(Int) /\ w \in Seq(Int)
  /\ Len(e.buf) <= size
  /\ e.len = Len(w)
  /\ e.buf = w <=> e.len <= size

\* One piece more, whether or not it fits.
LEMMA EmitKeeps ==
  ASSUME size \in Nat, NEW e, NEW w, Tells(e, w), NEW bytes \in Seq(Int)
  PROVE  Tells(Emit(e, bytes), w \o bytes)
<1> DEFINE b == e.buf
           v == w \o bytes
           t == b \o bytes
           f == Emit(e, bytes)
           n == Len(bytes)
           lb == Len(b)
           lw == Len(w)
<1>1. /\ b \in Seq(Int) /\ w \in Seq(Int) /\ lb <= size /\ e.len = lw /\ (b = w <=> e.len <= size)
      /\ n \in Nat /\ lb \in Nat /\ lw \in Nat
  BY LenProperties DEF Tells
<1>2. v \in Seq(Int) /\ t \in Seq(Int) /\ Len(v) = lw + n /\ Len(t) = lb + n
  BY <1>1, ConcatProperties
<1>3. f.len = e.len + n
  BY DEF Emit, Counted
<1>4. f.buf = IF size - lb >= n THEN t ELSE b
  BY DEF Emit, Room
<1>5. b = w => t = v
  OBVIOUS
<1> HIDE DEF b, v, t, f, n, lb, lw
<1>6. CASE size - lb >= n
  <2>1. f.buf = t /\ Len(t) <= size
    BY <1>1, <1>2, <1>4, <1>6
  <2>2. ASSUME f.len <= size PROVE t = v
    <3>1. e.len <= size
      BY <1>1, <1>3, <2>2
    <3>2. QED
      BY <1>1, <1>5, <3>1
  <2>3. ASSUME t = v PROVE f.len <= size
    <3>1. Len(v) <= size
      BY <2>1, <2>3
    <3>2. QED
      BY <1>1, <1>2, <1>3, <3>1
  <2>4. f.len = Len(v)
    BY <1>1, <1>2, <1>3
  <2>5. QED
    BY <1>2, <2>1, <2>2, <2>3, <2>4 DEF Tells, f, v
<1>7. CASE ~(size - lb >= n)
  <2>1. f.buf = b
    BY <1>4, <1>7
  <2>2. ~(f.len <= size)
    <3> SUFFICES ASSUME f.len <= size PROVE FALSE
      OBVIOUS
    <3>1. e.len <= size
      BY <1>1, <1>3
    <3>2. b = w
      BY <1>1, <3>1
    <3>3. lb = lw
      BY <3>2 DEF lb, lw
    <3>4. QED
      BY <1>1, <1>3, <1>7, <3>3
  <2>3. b # v
    <3> SUFFICES ASSUME b = v PROVE FALSE
      OBVIOUS
    <3>1. lb = lw + n
      BY <1>2 DEF lb
    <3>2. QED
      BY <1>1, <1>3, <2>2, <3>1
  <2>4. f.len = Len(v)
    BY <1>1, <1>2, <1>3
  <2>5. Len(b) <= size
    BY <1>1 DEF lb
  <2>6. QED
    BY <1>1, <1>2, <2>1, <2>2, <2>3, <2>4, <2>5 DEF Tells, f, v
<1>8. QED
  BY <1>6, <1>7

\* The bytes of the calls, call by call.
Pieces == [k \in DOMAIN calls |-> Bytes(k)]

EncodeTypes ==
  /\ size \in Nat
  /\ \E S : calls \in Seq(S)
  /\ Pieces \in Seq(Seq(Int))

\* A call is noted with its bytes.
LEMMA AskedIs ==
  ASSUME EncodeTypes, NEW bytes \in Seq(Int), NEW means, Asked(bytes, means)
  PROVE  /\ EncodeTypes' /\ size' = size
         /\ Whole \in Seq(Int) /\ Whole' = Whole \o bytes
         /\ LastCall' = [bytes |-> bytes, means |-> means]
<1> DEFINE c == [bytes |-> bytes, means |-> means]
           n == Len(calls)
<1>1. size \in Nat /\ Pieces \in Seq(Seq(Int)) /\ calls' = Append(calls, c) /\ size' = size
  BY DEF EncodeTypes, Asked
<1>2. PICK S : calls \in Seq(S)
  BY DEF EncodeTypes
<1> DEFINE U == S \cup {c}
<1>3. calls \in Seq(U) /\ c \in U
  <2>1. S \subseteq U
    OBVIOUS
  <2> HIDE DEF U
  <2>2. calls \in Seq(U)
    BY <1>2, <2>1, SeqMonotonic
  <2>3. QED
    BY <2>2 DEF U
<1> HIDE DEF U
<1>4. /\ n \in Nat /\ DOMAIN calls = 1 .. n /\ calls' \in Seq(U) /\ Len(calls') = n + 1
      /\ DOMAIN calls' = 1 .. n + 1 /\ calls'[n + 1] = c
      /\ \A i \in 1 .. n : calls'[i] = calls[i]
  <2>1. n \in Nat /\ DOMAIN calls = 1 .. n
    BY <1>3, LenProperties
  <2>2. /\ Append(calls, c) \in Seq(U) /\ Len(Append(calls, c)) = n + 1
        /\ Append(calls, c)[n + 1] = c /\ \A i \in 1 .. n : Append(calls, c)[i] = calls[i]
    BY <1>3, AppendProperties
  <2>3. DOMAIN Append(calls, c) = 1 .. n + 1
    BY <2>2, LenProperties
  <2>4. QED
    BY <1>1, <2>1, <2>2, <2>3
<1>5. c.bytes = bytes
  OBVIOUS
<1> DEFINE p == Pieces
<1>6. p = [k \in 1 .. n |-> calls[k].bytes] /\ Pieces' = [k \in 1 .. n + 1 |-> calls'[k].bytes]
  BY <1>4 DEF Pieces, Bytes
<1>7. Len(p) = n /\ p \in Seq(Seq(Int)) /\ DOMAIN p = 1 .. Len(p)
  <2>1. p \in Seq(Seq(Int)) /\ Len(p) \in Nat /\ DOMAIN p = 1 .. Len(p)
    BY <1>1, LenProperties
  <2>2. DOMAIN p = 1 .. n
    BY <1>6
  <2> HIDE DEF p
  <2> DEFINE m == Len(p)
  <2>3. m \in Nat /\ 1 .. m = 1 .. n
    BY <2>1, <2>2
  <2> HIDE DEF m, n
  <2>4. m = n
    <3>1. (m >= 1 => m \in 1 .. m) /\ (n >= 1 => n \in 1 .. n)
      BY <1>4, <2>3
    <3> DEFINE A == 1 .. m
               B == 1 .. n
    <3>2. A = B
      BY <2>3
    <3>3. (m >= 1 => m \in A) /\ (n >= 1 => n \in B)
      BY <3>1
    <3> HIDE DEF A, B
    <3>4. (m >= 1 => m \in B) /\ (n >= 1 => n \in A)
      BY <3>2, <3>3
    <3>5. (m >= 1 => m <= n) /\ (n >= 1 => n <= m)
      BY <1>4, <2>3, <3>4 DEF A, B
    <3>6. QED
      BY <1>4, <2>3, <3>5
  <2>5. QED
    BY <2>1, <2>4 DEF m
<1> HIDE DEF p, c, n
<1>8. Pieces' = Append(p, bytes)
  <2> DEFINE a == Append(p, bytes)
             q == Pieces'
  <2>1. /\ a \in Seq(Seq(Int)) /\ Len(a) = n + 1 /\ a[n + 1] = bytes
        /\ \A i \in 1 .. n : a[i] = p[i]
    BY <1>7, AppendProperties
  <2>2. a = [k \in 1 .. n + 1 |-> a[k]]
    BY <2>1, LenProperties
  <2> HIDE DEF a
  <2>3. \A k \in 1 .. n + 1 : calls'[k].bytes = a[k]
    <3> SUFFICES ASSUME NEW k \in 1 .. n + 1 PROVE calls'[k].bytes = a[k]
      OBVIOUS
    <3>1. CASE k = n + 1
      BY <1>4, <1>5, <2>1, <3>1
    <3>2. CASE k # n + 1
      <4>1. k \in 1 .. n
        BY <1>4, <3>2
      <4>2. p[k] = calls[k].bytes
        BY <1>6, <4>1
      <4>3. QED
        BY <1>4, <2>1, <4>1, <4>2
    <3>3. QED
      BY <3>1, <3>2
  <2>4. q = a
    BY <1>6, <2>2, <2>3
  <2>5. QED
    BY <2>4 DEF a
<1>9. Append(p, bytes) \in Seq(Seq(Int))
  BY <1>7, AppendProperties
<1>10. EncodeTypes'
  BY <1>1, <1>4, <1>8, <1>9 DEF EncodeTypes
<1>11. Whole = FlattenSeq(p) /\ Whole' = FlattenSeq(Append(p, bytes))
  <2>1. Whole = FlattenSeq(p)
    BY DEF Whole, p, Pieces
  <2>2. Whole' = FlattenSeq(Pieces')
    BY DEF Whole, Pieces
  <2>3. QED
    BY <1>8, <2>1, <2>2
<1>12. Whole \in Seq(Int) /\ Whole' = Whole \o bytes
  BY <1>7, <1>11, FlattenAppend
<1>13. LastCall' = c
  BY <1>4 DEF LastCall
<1>14. QED
  BY <1>1, <1>10, <1>12, <1>13 DEF c

\* The heads that are written.
Words == [1 .. 8 -> 0 .. 255]

LEMMA ExtraIs ==
  ASSUME NEW n \in Words
  PROVE  \/ ExtraBytes(n) = 0 /\ Zeros(n, 7) /\ n[8] < 24
         \/ ExtraBytes(n) = 1 /\ Zeros(n, 7) /\ n[8] >= 24
         \/ ExtraBytes(n) = 2 /\ Zeros(n, 6) /\ ~Zeros(n, 7)
         \/ ExtraBytes(n) = 4 /\ Zeros(n, 4) /\ ~Zeros(n, 6)
         \/ ExtraBytes(n) = 8 /\ ~Zeros(n, 4)
<1> DEFINE z4 == Zeros(n, 4)
           z6 == Zeros(n, 6)
           z7 == Zeros(n, 7)
           g0 == z7 /\ n[8] < SIZE_BYTE
           g1 == z7 /\ n[8] >= SIZE_BYTE
           g2 == z6 /\ ~z7
           g4 == z4 /\ ~z6
<1>1. (z7 => z6) /\ (z6 => z4)
  BY DEF Zeros
<1>2. n[8] \in 0 .. 255
  BY DEF Words
<1>3. ExtraBytes(n) = CASE g0 -> 0 [] g1 -> 1 [] g2 -> 2 [] g4 -> 4 [] OTHER -> 8
  BY DEF ExtraBytes
<1> HIDE DEF z4, z6, z7
<1>4. g0 => ~g1 /\ ~g2 /\ ~g4
  BY <1>1, <1>2 DEF SIZE_BYTE
<1>5. g1 => ~g0 /\ ~g2 /\ ~g4
  BY <1>1, <1>2 DEF SIZE_BYTE
<1>6. g2 => ~g0 /\ ~g1 /\ ~g4
  BY <1>1
<1>7. g4 => ~g0 /\ ~g1 /\ ~g2
  BY <1>1
<1>8. z7 => g0 \/ g1
  BY <1>2 DEF SIZE_BYTE
<1>9. ~z4 => ~g0 /\ ~g1 /\ ~g2 /\ ~g4
  BY <1>1
<1>10. g0 \/ g1 \/ g2 \/ g4 \/ ~z4
  BY <1>8
<1> HIDE DEF g0, g1, g2, g4
<1>11. CASE g0
  <2>1. ExtraBytes(n) = 0
    BY <1>3, <1>4, <1>11
  <2>2. QED
    BY <1>11, <2>1 DEF g0, z7, SIZE_BYTE
<1>12. CASE g1
  <2>1. ExtraBytes(n) = 1
    BY <1>3, <1>5, <1>12
  <2>2. QED
    BY <1>12, <2>1 DEF g1, z7, SIZE_BYTE
<1>13. CASE g2
  <2>1. ExtraBytes(n) = 2
    BY <1>3, <1>6, <1>13
  <2>2. QED
    BY <1>13, <2>1 DEF g2, z6, z7
<1>14. CASE g4
  <2>1. ExtraBytes(n) = 4
    BY <1>3, <1>7, <1>14
  <2>2. QED
    BY <1>14, <2>1 DEF g4, z4, z6
<1>15. CASE ~z4
  <2>1. ExtraBytes(n) = 8
    BY <1>3, <1>9, <1>15
  <2>2. QED
    BY <1>15, <2>1 DEF z4
<1>16. QED
  BY <1>10, <1>11, <1>12, <1>13, <1>14, <1>15

\* The size code in the head of n.
HeadInfo(n, x) == IF x = 0 THEN n[8] ELSE IF x = 1 THEN 24 ELSE IF x = 2 THEN 25 ELSE IF x = 4 THEN 26 ELSE 27

LEMMA FmtIs ==
  ASSUME NEW n \in Words, NEW type \in 0 .. 7
  PROVE  LET x == ExtraBytes(n)
             h == fmt_uint64(n, type)
         IN  /\ x \in {0, 1, 2, 4, 8} /\ HeadInfo(n, x) \in 0 .. 27
             /\ h \in Buffers /\ Len(h) = x + 1
             /\ h[1] = type * 32 + HeadInfo(n, x)
             /\ \A i \in 1 .. x : h[i + 1] = n[(8 - x) + i]
<1> DEFINE x == ExtraBytes(n)
           info == HeadInfo(n, x)
           s == SubSeq(n, 9 - x, 8)
           one == <<type * 32 + info>>
           h == fmt_uint64(n, type)
<1>1. x \in {0, 1, 2, 4, 8} /\ (x = 0 => n[8] < 24)
  BY ExtraIs
<1>2. \A i \in 1 .. 8 : n[i] \in 0 .. 255
  BY DEF Words
<1>3. info \in 0 .. 27
  <2>1. n[8] \in 0 .. 255
    BY <1>2
  <2> HIDE DEF x
  <2>2. QED
    BY <1>1, <2>1 DEF HeadInfo
<1>4. h = one \o s
  BY <1>1 DEF fmt_uint64, HeadInfo, SIZE_BYTE, SIZE_SHORT, SIZE_WORD, SIZE_LONG
<1> HIDE DEF x
<1>5. /\ s \in Seq(0 .. 255) /\ Len(s) = x
      /\ \A i \in 1 .. x : s[i] = n[(8 - x) + i]
  <2> DEFINE m == 9 - x
  <2>1. m \in 1 .. 9 /\ m \in Int /\ 8 \in Int /\ (8 - m) + 1 = x
    BY <1>1
  <2>2. \A i \in m .. 8 : n[i] \in 0 .. 255
    BY <1>2, <2>1
  <2> HIDE DEF m
  <2>3. /\ SubSeq(n, m, 8) \in Seq(0 .. 255)
        /\ Len(SubSeq(n, m, 8)) = IF m <= 8 THEN 8 - m + 1 ELSE 0
        /\ \A i \in 1 .. 8 - m + 1 : SubSeq(n, m, 8)[i] = n[m + i - 1]
    BY <2>1, <2>2, SubSeqProperties
  <2>4. s = SubSeq(n, m, 8)
    BY DEF m
  <2>5. Len(s) = x
    BY <2>1, <2>3, <2>4
  <2>6. ASSUME NEW i \in 1 .. x PROVE s[i] = n[(8 - x) + i]
    <3>1. i \in 1 .. 8 - m + 1 /\ m + i - 1 = (8 - x) + i
      BY <1>1, <2>1 DEF m
    <3>2. QED
      BY <2>3, <2>4, <3>1
  <2>7. QED
    BY <2>3, <2>4, <2>5, <2>6
<1>6. one \in Seq(0 .. 255) /\ Len(one) = 1 /\ one[1] = type * 32 + info
  <2>1. type * 32 + info \in 0 .. 255
    <3> HIDE DEF info
    <3>1. QED
      BY <1>3
  <2>2. QED
    BY <2>1
<1> HIDE DEF s, one, info
<1>7. /\ one \o s \in Seq(0 .. 255) /\ Len(one \o s) = 1 + x
      /\ \A i \in 1 .. 1 + x : (one \o s)[i] = IF i <= 1 THEN one[i] ELSE s[i - 1]
  <2>1. one \in Seq(0 .. 255) /\ s \in Seq(0 .. 255)
    BY <1>5, <1>6
  <2>2. /\ one \o s \in Seq(0 .. 255) /\ Len(one \o s) = Len(one) + Len(s)
        /\ \A i \in 1 .. Len(one) + Len(s) :
             (one \o s)[i] = IF i <= Len(one) THEN one[i] ELSE s[i - Len(one)]
    BY <2>1, ConcatProperties
  <2>3. Len(one) = 1 /\ Len(s) = x
    BY <1>5, <1>6
  <2>4. QED
    BY <2>2, <2>3
<1>8. h \in Seq(0 .. 255) /\ Len(h) = x + 1 /\ h[1] = type * 32 + info
  <2>1. 1 \in 1 .. 1 + x
    BY <1>1
  <2>2. QED
    BY <1>1, <1>4, <1>6, <1>7, <2>1
<1>9. ASSUME NEW i \in 1 .. x PROVE h[i + 1] = n[(8 - x) + i]
  <2>1. i + 1 \in 1 .. 1 + x /\ ~(i + 1 <= 1) /\ (i + 1) - 1 = i
    BY <1>1
  <2>2. QED
    BY <1>4, <1>5, <1>7, <2>1
<1>10. QED
  BY <1>1, <1>3, <1>8, <1>9 DEF x, info

\* nanocbor_get_uint64 reads the number n back from b.
ReadBack(b, n, type) ==
  LET head == get_uint64(b, decoder_init(b), SIZE_LONG, type)
  IN  /\ head.res > 0
      /\ IF head.res = 1 THEN n = SmallNumber(head.value)
         ELSE n = [i \in 1 .. 9 - head.res |-> 0] \o SubSeq(b, 2, head.res)
      /\ head.res = 2 => n[8] >= SIZE_BYTE
      /\ head.res > 2 => ~Zeros(n, 8 - (head.res - 1) \div 2)

\* The bytes behind the head, with zeros before them, are the number.
LEMMA ZerosBefore ==
  ASSUME NEW n \in Words, NEW x \in {1, 2, 4, 8}, x # 8 => Zeros(n, 8 - x),
         NEW b \in Buffers, Len(b) >= x + 1, \A i \in 1 .. x : b[i + 1] = n[(8 - x) + i]
  PROVE  n = [i \in 1 .. 9 - (x + 1) |-> 0] \o SubSeq(b, 2, x + 1)
<1> DEFINE z == [i \in 1 .. 9 - (x + 1) |-> 0]
           k == 8 - x
           s == SubSeq(b, 2, x + 1)
<1>1. k \in Nat /\ k + x = 8 /\ 9 - (x + 1) = k /\ Len(b) \in Nat
  BY LenProperties
<1>2. \A i \in 1 .. 8 : n[i] \in 0 .. 255
  BY DEF Words
<1>3. z \in Seq(0 .. 255) /\ Len(z) = k /\ \A i \in 1 .. k : z[i] = 0
  <2>1. z = [i \in 1 .. k |-> 0]
    BY <1>1
  <2> HIDE DEF k, z
  <2>2. QED
    BY <1>1, <2>1
<1>4. s \in Seq(0 .. 255) /\ Len(s) = x /\ \A i \in 1 .. x : s[i] = b[i + 1]
  <2> DEFINE m == x + 1
  <2>1. m \in Int /\ 2 \in Int /\ (m - 2) + 1 = x /\ 2 <= m /\ m <= Len(b)
    BY <1>1
  <2>2. \A i \in 2 .. m : b[i] \in 0 .. 255
    <3> SUFFICES ASSUME NEW i \in 2 .. m PROVE b[i] \in 0 .. 255
      OBVIOUS
    <3>1. i \in 1 .. Len(b)
      BY <1>1, <2>1
    <3>2. QED
      BY <3>1, ElementOfSeq
  <2> HIDE DEF m
  <2>3. /\ SubSeq(b, 2, m) \in Seq(0 .. 255)
        /\ Len(SubSeq(b, 2, m)) = IF 2 <= m THEN m - 2 + 1 ELSE 0
        /\ \A i \in 1 .. m - 2 + 1 : SubSeq(b, 2, m)[i] = b[2 + i - 1]
    BY <2>1, <2>2, SubSeqProperties
  <2>4. s = SubSeq(b, 2, m)
    BY DEF m
  <2>5. Len(s) = x
    BY <2>1, <2>3, <2>4
  <2>6. ASSUME NEW i \in 1 .. x PROVE s[i] = b[i + 1]
    <3>1. i \in 1 .. m - 2 + 1 /\ 2 + i - 1 = i + 1
      BY <2>1
    <3>2. QED
      BY <2>3, <2>4, <3>1
  <2>7. QED
    BY <2>3, <2>4, <2>5, <2>6
<1>5. \A i \in 1 .. k : n[i] = 0
  <2>1. CASE x = 8
    <3>1. k = 0
      BY <1>1, <2>1
    <3>2. QED
      BY <3>1
  <2>2. CASE x # 8
    BY <2>2 DEF Zeros
  <2>3. QED
    BY <2>1, <2>2
<1>6. \A i \in 1 .. x : b[i + 1] = n[k + i]
  OBVIOUS
<1> HIDE DEF z, s, k
<1>7. /\ z \o s \in Seq(0 .. 255) /\ Len(z \o s) = k + x
      /\ \A i \in 1 .. k + x : (z \o s)[i] = IF i <= k THEN z[i] ELSE s[i - k]
  <2>1. z \in Seq(0 .. 255) /\ s \in Seq(0 .. 255)
    BY <1>3, <1>4
  <2>2. /\ z \o s \in Seq(0 .. 255) /\ Len(z \o s) = Len(z) + Len(s)
        /\ \A i \in 1 .. Len(z) + Len(s) :
             (z \o s)[i] = IF i <= Len(z) THEN z[i] ELSE s[i - Len(z)]
    BY <2>1, ConcatProperties
  <2>3. Len(z) = k /\ Len(s) = x
    BY <1>3, <1>4
  <2>4. QED
    BY <2>2, <2>3
<1>8. ASSUME NEW i \in 1 .. 8 PROVE (z \o s)[i] = n[i]
  <2>1. i \in 1 .. k + x
    BY <1>1
  <2>2. CASE i <= k
    <3>1. i \in 1 .. k
      BY <1>1, <2>2
    <3>2. QED
      BY <1>3, <1>5, <1>7, <2>1, <2>2, <3>1
  <2>3. CASE ~(i <= k)
    <3>1. i - k \in 1 .. x /\ k + (i - k) = i
      BY <1>1, <2>3
    <3>2. s[i - k] = n[i]
      BY <1>4, <1>6, <3>1
    <3>3. QED
      BY <1>7, <2>1, <2>3, <3>2
  <2>4. QED
    BY <2>2, <2>3
<1>9. z \o s = [i \in 1 .. 8 |-> (z \o s)[i]]
  <2>1. Len(z \o s) = 8
    BY <1>1, <1>7
  <2>2. z \o s \in [1 .. 8 -> 0 .. 255]
    <3> DEFINE w == z \o s
    <3>1. w \in Seq(0 .. 255) /\ Len(w) = 8
      BY <1>7, <2>1
    <3> HIDE DEF w
    <3>2. w \in [1 .. Len(w) -> 0 .. 255]
      BY <3>1, LenProperties
    <3>4. w \in [1 .. 8 -> 0 .. 255]
      BY <3>1, <3>2
    <3>3. QED
      BY <3>4 DEF w
  <2>3. QED
    BY <2>2
<1>10. n = [i \in 1 .. 8 |-> n[i]]
  BY DEF Words
<1>11. n = z \o s
  BY <1>8, <1>9, <1>10
<1>12. QED
  BY <1>11 DEF z, s

\* A head that was written is read back, whatever is written behind it.
LEMMA HeadBack ==
  ASSUME NEW n \in Words, NEW type \in 0 .. 6, NEW rest \in Buffers
  PROVE  /\ fmt_uint64(n, type) \o rest \in Buffers
         /\ ReadBack(fmt_uint64(n, type) \o rest, n, type)
<1> DEFINE x == ExtraBytes(n)
           h == fmt_uint64(n, type)
           info == HeadInfo(n, x)
           b == h \o rest
           v == decoder_init(b)
           g == get_uint64(b, v, SIZE_LONG, type)
<1>1. /\ x \in {0, 1, 2, 4, 8} /\ info \in 0 .. 27
      /\ h \in Buffers /\ Len(h) = x + 1
      /\ h[1] = type * 32 + info
      /\ \A i \in 1 .. x : h[i + 1] = n[(8 - x) + i]
  <2>1. type \in 0 .. 7
    OBVIOUS
  <2>2. QED
    BY <2>1, FmtIs
<1>2. n[8] \in 0 .. 255
  BY DEF Words
<1> HIDE DEF h, info, x
<1>3. /\ b \in Buffers /\ Len(b) = Len(h) + Len(rest)
      /\ \A i \in 1 .. Len(h) + Len(rest) : b[i] = IF i <= Len(h) THEN h[i] ELSE rest[i - Len(h)]
  BY <1>1, ConcatProperties
<1>4. Len(rest) \in Nat
  BY LenProperties
<1> DEFINE r == Len(rest)
           l == Len(b)
<1> HIDE DEF b, r
<1>5. /\ l \in Nat /\ l >= x + 1 /\ b[1] = type * 32 + info
      /\ \A i \in 1 .. x : b[i + 1] = n[(8 - x) + i]
  <2>1. r \in Nat /\ l = (x + 1) + r
    BY <1>1, <1>3, <1>4 DEF r
  <2>2. l \in Nat /\ l >= x + 1
    BY <1>1, <2>1
  <2>3. ASSUME NEW i \in 1 .. x + 1 PROVE b[i] = h[i]
    <3>1. i \in 1 .. (x + 1) + r /\ i <= x + 1
      BY <1>1, <2>1
    <3>2. QED
      BY <1>1, <1>3, <3>1 DEF r
  <2>4. 1 \in 1 .. x + 1 /\ \A i \in 1 .. x : i + 1 \in 1 .. x + 1
    BY <1>1
  <2>5. b[1] = type * 32 + info
    BY <1>1, <2>3, <2>4
  <2>6. \A i \in 1 .. x : b[i + 1] = n[(8 - x) + i]
    BY <1>1, <2>3, <2>4
  <2>7. QED
    BY <2>2, <2>5, <2>6
<1>6. v \in Iterators(b) /\ v.cur = 0 /\ v.end = l /\ v.flags = "none"
  BY <1>5 DEF decoder_init, Iterators, FLAGS
<1>7. Byte(b, v.cur) = type * 32 + info
  BY <1>5, <1>6 DEF Byte
<1>8. get_type(b, v) = type /\ Byte(b, v.cur) % 32 = info
  <2>1. ~OverEnd(v)
    BY <1>1, <1>5, <1>6 DEF OverEnd
  <2>2. ~at_end(b, v)
    BY <1>6, <2>1 DEF at_end
  <2>3. get_type(b, v) = Byte(b, v.cur) \div 32
    BY <2>2 DEF get_type
  <2> DEFINE a == type * 32 + info
  <2>4. a \div 32 = type /\ a % 32 = info
    BY <1>1
  <2>5. QED
    BY <1>7, <2>3, <2>4
<1> HIDE DEF v
<1> DEFINE bytes == NumberLen(info)
<1>9. g = IF info < 24 THEN [res |-> 1, value |-> info]
          ELSE IF bytes >= l THEN [res |-> -3, value |-> 0]
          ELSE [res |-> 1 + bytes, value |-> NumberAt(b, v.cur + 1, bytes)]
  <2>1. SIZE_LONG \in 24 .. 27
    BY DEF SIZE_LONG
  <2>2. g = IF type < 0 THEN [res |-> type, value |-> 0]
            ELSE IF type # type THEN [res |-> -2, value |-> 0]
            ELSE IF info < 24 THEN [res |-> 1, value |-> info]
            ELSE IF info > SIZE_LONG THEN [res |-> -1, value |-> 0]
            ELSE IF v.cur + bytes >= v.end THEN [res |-> -3, value |-> 0]
            ELSE [res |-> 1 + bytes, value |-> NumberAt(b, v.cur + 1, bytes)]
    <3> DEFINE c == get_type(b, v)
               j == Byte(b, v.cur) % 32
               k == NumberLen(j)
    <3>1. g = IF c < 0 THEN [res |-> c, value |-> 0]
              ELSE IF type # c THEN [res |-> -2, value |-> 0]
              ELSE IF j < 24 THEN [res |-> 1, value |-> j]
              ELSE IF j > SIZE_LONG THEN [res |-> -1, value |-> 0]
              ELSE IF v.cur + k >= v.end THEN [res |-> -3, value |-> 0]
              ELSE [res |-> 1 + k, value |-> NumberAt(b, v.cur + 1, k)]
      BY <1>3, <1>6, <2>1, HeadForm
    <3>2. c = type /\ j = info /\ k = bytes
      BY <1>8
    <3> HIDE DEF c, j, k, bytes, g
    <3>3. QED
      BY <3>1, <3>2
  <2>3. ~(info > SIZE_LONG) /\ ~(type < 0)
    BY <1>1 DEF SIZE_LONG
  <2>4. info >= 24 => bytes \in {1, 2, 4, 8}
    <3>1. info >= 24 => info \in 24 .. 27
      BY <1>1
    <3>2. QED
      BY <3>1, SizeIs
  <2> HIDE DEF g, bytes
  <2>5. info >= 24 => v.cur + bytes = bytes
    BY <1>6, <2>4
  <2>6. CASE info < 24
    BY <2>2, <2>3, <2>6
  <2>7. CASE ~(info < 24)
    <3>1. v.cur + bytes = bytes /\ v.end = l
      BY <1>1, <1>6, <2>5, <2>7
    <3>2. QED
      BY <2>2, <2>3, <2>7, <3>1
  <2>8. QED
    BY <2>6, <2>7
<1> HIDE DEF g
<1>10. b \in Buffers
  BY <1>3
<1>11. CASE x = 0
  <2>1. Zeros(n, 7) /\ n[8] < 24
    BY <1>11, ExtraIs DEF x
  <2>2. info = n[8]
    BY <1>11 DEF info, HeadInfo
  <2>3. g.res = 1 /\ g.value = n[8]
    BY <1>9, <2>1, <2>2
  <2>4. n = SmallNumber(n[8])
    BY <2>1 DEF Words, Zeros, SmallNumber
  <2>5. ReadBack(b, n, type)
    BY <2>3, <2>4 DEF ReadBack, g, v
  <2>6. QED
    BY <1>10, <2>5 DEF b, h
<1>12. CASE x # 0
  <2>1. /\ x \in {1, 2, 4, 8} /\ (x # 8 => Zeros(n, 8 - x))
        /\ (x = 1 => n[8] >= 24) /\ (x = 2 => ~Zeros(n, 7))
        /\ (x = 4 => ~Zeros(n, 6)) /\ (x = 8 => ~Zeros(n, 4))
    BY <1>12, ExtraIs DEF x
  <2>2. info >= 24 /\ bytes = x
    <3>1. info = IF x = 1 THEN 24 ELSE IF x = 2 THEN 25 ELSE IF x = 4 THEN 26 ELSE 27
      BY <1>12 DEF info, HeadInfo
    <3>2. QED
      BY <2>1, <3>1 DEF NumberLen, SIZE_BYTE, SIZE_SHORT, SIZE_WORD, SIZE_LONG
  <2> HIDE DEF bytes
  <2>3. g.res = x + 1
    BY <1>1, <1>5, <1>9, <2>2
  <2>4. n = [i \in 1 .. 9 - (x + 1) |-> 0] \o SubSeq(b, 2, x + 1)
    BY <1>3, <1>5, <2>1, ZerosBefore
  <2>5. x + 1 > 0 /\ x + 1 # 1 /\ (x + 1 = 2 => n[8] >= SIZE_BYTE)
    BY <2>1 DEF SIZE_BYTE
  <2>6. x + 1 > 2 => ~Zeros(n, 8 - ((x + 1) - 1) \div 2)
    <3>1. CASE x = 1
      BY <3>1
    <3>2. CASE x = 2
      <4>1. 8 - ((x + 1) - 1) \div 2 = 7
        BY <3>2
      <4>2. QED
        BY <2>1, <3>2, <4>1
    <3>3. CASE x = 4
      <4>1. 8 - ((x + 1) - 1) \div 2 = 6
        BY <3>3
      <4>2. QED
        BY <2>1, <3>3, <4>1
    <3>4. CASE x = 8
      <4>1. 8 - ((x + 1) - 1) \div 2 = 4
        BY <3>4
      <4>2. QED
        BY <2>1, <3>4, <4>1
    <3>5. QED
      BY <2>1, <3>1, <3>2, <3>3, <3>4
  <2>7. ReadBack(b, n, type)
    <3>1. g.res > 0 /\ g.res # 1 /\ (g.res = 2 => n[8] >= SIZE_BYTE)
      BY <2>3, <2>5
    <3>2. g.res > 2 => ~Zeros(n, 8 - (g.res - 1) \div 2)
      BY <2>3, <2>6
    <3>3. n = [i \in 1 .. 9 - g.res |-> 0] \o SubSeq(b, 2, g.res)
      BY <2>3, <2>4
    <3>4. QED
      BY <3>1, <3>2, <3>3 DEF ReadBack, g, v
  <2>8. QED
    BY <1>10, <2>7 DEF b, h
<1>13. QED
  BY <1>11, <1>12

\* The same of a head alone.
LEMMA HeadAlone ==
  ASSUME NEW n \in Words, NEW type \in 0 .. 6
  PROVE  fmt_uint64(n, type) \in Buffers /\ ReadBack(fmt_uint64(n, type), n, type)
<1> DEFINE h == fmt_uint64(n, type)
<1>1. h \in Buffers
  <2>1. type \in 0 .. 7
    OBVIOUS
  <2>2. QED
    BY <2>1, FmtIs
<1>2. <<>> \in Buffers
  BY EmptySeq
<1>3. ReadBack(h \o <<>>, n, type)
  BY <1>2, HeadBack
<1> HIDE DEF h
<1>4. h \o <<>> = h
  BY <1>1, ConcatEmptySeq
<1>5. QED
  BY <1>1, <1>3, <1>4 DEF h

\* The numbers whose bytes are turned round, and those of one byte.
LEMMA WordsAre ==
  /\ \A n \in Words : [i \in 1 .. 8 |-> 255 - n[i]] \in Words
  /\ \A k \in 0 .. 255 : SmallNumber(k) \in Words
<1>1. ASSUME NEW n \in Words PROVE [i \in 1 .. 8 |-> 255 - n[i]] \in Words
  <2>1. \A i \in 1 .. 8 : 255 - n[i] \in 0 .. 255
    <3> SUFFICES ASSUME NEW i \in 1 .. 8 PROVE 255 - n[i] \in 0 .. 255
      OBVIOUS
    <3>1. n[i] \in 0 .. 255
      BY DEF Words
    <3>2. QED
      BY <3>1
  <2>2. QED
    BY <2>1 DEF Words
<1>2. ASSUME NEW k \in 0 .. 255 PROVE SmallNumber(k) \in Words
  BY DEF SmallNumber, Words
<1>3. QED
  BY <1>1, <1>2

\* Floats and doubles: the fields are found again in the bytes.
Frac23(q) == q \in Nat /\ q < 8388608
Frac29(l) == l \in Nat /\ l < 536870912

Exp11(x) == x \in 0 .. 2047

HalfParts(s, h, m, w) ==
  /\ s \in 0 .. 1 /\ h \in 0 .. 31 /\ m \in 0 .. 1023
  /\ w = s * Bit15 + h * Bit10 + m

HalfHolds(s, h, m, w, a, b) ==
  /\ a * 256 + b = w
  /\ w \div Bit15 = s /\ (w \div Bit10) % 32 = h /\ w % Bit10 = m
  /\ a \in Int /\ b \in Int

SingleHolds(s, x, q, a, b, c, d) ==
  /\ a \in Int /\ b \in Int /\ c \in Int /\ d \in Int
  /\ a \div 128 = s /\ (a % 128) * 2 + b \div 128 = x
  /\ (b % 128) * Bit16 + c * 256 + d = q

DoubleHolds(s, x, q, l, a, b, c, d, e, f, g, h) ==
  /\ a \in Int /\ b \in Int /\ c \in Int /\ d \in Int
  /\ e \in Int /\ f \in Int /\ g \in Int /\ h \in Int
  /\ a \div 128 = s /\ (a % 128) * 16 + b \div 16 = x
  /\ (b % 16) * Bit19 + c * Bit11 + d * 8 + e \div 32 = q
  /\ (e % 32) * Bit24 + f * Bit16 + g * 256 + h = l

LEMMA HalfFields ==
  ASSUME NEW s, NEW h, NEW m, NEW w, HalfParts(s, h, m, w)
  PROVE  HalfHolds(s, h, m, w, w \div 256, w % 256)
<1>0. s \in 0 .. 1 /\ h \in 0 .. 31 /\ m \in 0 .. 1023
  BY DEF HalfParts
<1>1. w \in Nat /\ w = s * 32768 + h * 1024 + m
  BY <1>0, SMT DEF HalfParts, Bit15, Bit10
<1>2. w \div 32768 = s
  BY <1>0, <1>1, SMT
<1>3. w \div 1024 = s * 32 + h /\ w % 1024 = m
  BY <1>0, <1>1, SMT
<1>4. (s * 32 + h) % 32 = h
  BY <1>0, SMT
<1>5. (w \div 256) * 256 + (w % 256) = w /\ w \div 256 \in Int /\ w % 256 \in Int
  BY <1>0, <1>1, SMT
<1>6. QED
  BY <1>0, <1>1, <1>2, <1>3, <1>4, <1>5, SMT DEF HalfHolds, Bit15, Bit10

LEMMA SingleFields ==
  ASSUME NEW s \in 0 .. 1, NEW x \in 0 .. 255, NEW q, Frac23(q)
  PROVE  SingleHolds(s, x, q, s * 128 + x \div 2, (x % 2) * 128 + q \div Bit16,
                     (q \div 256) % 256, q % 256)
<1> DEFINE x1 == x \div 2
           x0 == x % 2
           q2 == q \div 65536
           q1 == (q \div 256) % 256
           q0 == q % 256
           a == s * 128 + x1
           b == x0 * 128 + q2
<1>1. x1 \in 0 .. 127 /\ x0 \in 0 .. 1 /\ x1 * 2 + x0 = x
  BY SMT
<1>2. q \in Nat /\ q < 8388608
  BY DEF Frac23
<1>3. q2 \in 0 .. 127 /\ q1 \in 0 .. 255 /\ q0 \in 0 .. 255 /\ q2 * 65536 + q1 * 256 + q0 = q
  <2> DEFINE u == q \div 256
  <2>1. u \in Nat /\ u < 32768 /\ q0 \in 0 .. 255 /\ u * 256 + q0 = q
    BY <1>2, SMT
  <2> HIDE DEF u, q0
  <2> DEFINE v == u \div 256
             r == u % 256
  <2>2. v \in 0 .. 127 /\ r \in 0 .. 255 /\ v * 256 + r = u
    BY <2>1, SMT
  <2>3. r = q1
    BY SMT DEF u
  <2> HIDE DEF v, r, q1
  <2>4. v * 65536 + r * 256 + q0 = q
    BY <2>1, <2>2, SMT
  <2>5. q \div 65536 = v
    BY <1>2, <2>1, <2>2, <2>4, SMT
  <2>6. QED
    BY <2>1, <2>2, <2>3, <2>4, <2>5, SMT
<1> HIDE DEF x1, x0, q2, q1, q0
<1>4. a \div 128 = s /\ a % 128 = x1 /\ a \in Int
  BY <1>1, SMT
<1>5. b \div 128 = x0 /\ b % 128 = q2 /\ b \in Int
  BY <1>1, <1>3, SMT
<1> HIDE DEF a, b
<1>6. (a % 128) * 2 + b \div 128 = x /\ (b % 128) * 65536 + q1 * 256 + q0 = q
  BY <1>1, <1>3, <1>4, <1>5, SMT
<1>7. q1 \in Int /\ q0 \in Int
  BY <1>3, SMT
<1>8. QED
  BY <1>4, <1>5, <1>6, <1>7, SMT DEF SingleHolds, a, b, x1, x0, q2, q1, q0, Bit16

LEMMA DoubleFields ==
  ASSUME NEW s \in 0 .. 1, NEW x, Exp11(x), NEW q, Frac23(q), NEW l, Frac29(l)
  PROVE  DoubleHolds(s, x, q, l, s * 128 + x \div 16, (x % 16) * 16 + q \div Bit19,
                     (q \div Bit11) % 256, (q \div 8) % 256, (q % 8) * 32 + l \div Bit24,
                     (l \div Bit16) % 256, (l \div 256) % 256, l % 256)
<1> DEFINE x1 == x \div 16
           x0 == x % 16
           q3 == q \div 524288
           q2 == (q \div 2048) % 256
           q1 == (q \div 8) % 256
           q0 == q % 8
           l3 == l \div 16777216
           l2 == (l \div 65536) % 256
           l1 == (l \div 256) % 256
           l0 == l % 256
           a == s * 128 + x1
           b == x0 * 16 + q3
           c == q0 * 32 + l3
<1>1. x1 \in 0 .. 127 /\ x0 \in 0 .. 15 /\ x1 * 16 + x0 = x
  BY SMT DEF Exp11
<1>2. q \in Nat /\ q < 8388608 /\ l \in Nat /\ l < 536870912
  BY DEF Frac23, Frac29
<1>3. /\ q3 \in 0 .. 15 /\ q2 \in 0 .. 255 /\ q1 \in 0 .. 255 /\ q0 \in 0 .. 7
      /\ q3 * 524288 + q2 * 2048 + q1 * 8 + q0 = q
  <2> DEFINE u == q \div 8
  <2>1. u \in Nat /\ u < 1048576 /\ q0 \in 0 .. 7 /\ u * 8 + q0 = q
    BY <1>2, SMT
  <2> HIDE DEF u, q0
  <2> DEFINE v == u \div 256
             r == u % 256
  <2>2. v \in Nat /\ v < 4096 /\ r \in 0 .. 255 /\ v * 256 + r = u
    BY <2>1, SMT
  <2>3. r = q1
    BY SMT DEF u
  <2> HIDE DEF v, r, q1
  <2> DEFINE k == v \div 256
             t == v % 256
  <2>4. k \in 0 .. 15 /\ t \in 0 .. 255 /\ k * 256 + t = v
    BY <2>2, SMT
  <2>5. q \div 2048 = v
    BY <1>2, <2>1, <2>2, SMT
  <2>6. t = q2
    BY <2>5, SMT
  <2> HIDE DEF k, t, q2
  <2>7. k * 524288 + t * 2048 + r * 8 + q0 = q
    BY <2>1, <2>2, <2>4, SMT
  <2>8. q \div 524288 = k
    BY <1>2, <2>1, <2>2, <2>4, <2>7, SMT
  <2>9. QED
    BY <2>1, <2>2, <2>3, <2>4, <2>6, <2>7, <2>8, SMT
<1>4. /\ l3 \in 0 .. 31 /\ l2 \in 0 .. 255 /\ l1 \in 0 .. 255 /\ l0 \in 0 .. 255
      /\ l3 * 16777216 + l2 * 65536 + l1 * 256 + l0 = l
  <2> DEFINE u == l \div 256
  <2>1. u \in Nat /\ u < 2097152 /\ l0 \in 0 .. 255 /\ u * 256 + l0 = l
    BY <1>2, SMT
  <2> HIDE DEF u, l0
  <2> DEFINE v == u \div 256
             r == u % 256
  <2>2. v \in Nat /\ v < 8192 /\ r \in 0 .. 255 /\ v * 256 + r = u
    BY <2>1, SMT
  <2>3. r = l1
    BY SMT DEF u
  <2> HIDE DEF v, r, l1
  <2> DEFINE k == v \div 256
             t == v % 256
  <2>4. k \in 0 .. 31 /\ t \in 0 .. 255 /\ k * 256 + t = v
    BY <2>2, SMT
  <2>5. l \div 65536 = v
    <3>1. v * 65536 + (r * 256 + l0) = l /\ r * 256 + l0 \in Nat /\ r * 256 + l0 < 65536
      BY <2>1, <2>2, SMT
    <3>2. QED
      BY <1>2, <2>2, <3>1, SMT
  <2>6. t = l2
    BY <2>5, SMT
  <2> HIDE DEF k, t, l2
  <2>7. k * 16777216 + t * 65536 + r * 256 + l0 = l
    BY <2>1, <2>2, <2>4, SMT
  <2>8. l3 = k
    <3> DEFINE y == t * 65536 + r * 256 + l0
    <3>1. y \in Nat /\ y < 16777216 /\ k * 16777216 + y = l
      BY <2>1, <2>2, <2>4, <2>7, SMT
    <3> HIDE DEF y
    <3>2. QED
      BY <1>2, <2>4, <3>1, SMT
  <2> HIDE DEF l3
  <2>9. QED
    BY <2>1, <2>2, <2>3, <2>4, <2>6, <2>7, <2>8, SMT
<1> HIDE DEF x1, x0, q3, q2, q1, q0, l3, l2, l1, l0
<1>5. a \div 128 = s /\ a % 128 = x1 /\ a \in Int
  BY <1>1, SMT
<1>6. b \div 16 = x0 /\ b % 16 = q3 /\ b \in Int
  BY <1>1, <1>3, SMT
<1>7. c \div 32 = q0 /\ c % 32 = l3 /\ c \in Int
  BY <1>3, <1>4, SMT
<1> HIDE DEF a, b, c
<1>8. /\ (a % 128) * 16 + b \div 16 = x
      /\ (b % 16) * 524288 + q2 * 2048 + q1 * 8 + c \div 32 = q
      /\ (c % 32) * 16777216 + l2 * 65536 + l1 * 256 + l0 = l
  BY <1>1, <1>3, <1>4, <1>5, <1>6, <1>7, SMT
<1>9. q2 \in Int /\ q1 \in Int /\ l2 \in Int /\ l1 \in Int /\ l0 \in Int
  BY <1>3, <1>4, SMT
<1>10. QED
  BY <1>5, <1>6, <1>7, <1>8, <1>9, SMT
     DEF DoubleHolds, a, b, c, x1, x0, q3, q2, q1, q0, l3, l2, l1, l0, Bit11, Bit16, Bit19, Bit24

\* What two, four and eight bytes are decoded to.
HalfExponent(k) == CASE k = 31 -> 255 [] k = 0 -> 0 [] OTHER -> k - 15 + 127

HalfFloat(w) ==
  [sign |-> w \div Bit15, exp |-> HalfExponent((w \div Bit10) % 32), frac |-> (w % Bit10) * Bit13]

LEMMA DecodedHalf ==
  ASSUME NEW t, NEW a, NEW b
  PROVE  DecodedReal(<<t, a, b>>) = Widened(HalfFloat(a * 256 + b))
<1> DEFINE p == <<t, a, b>>
           w == p[2] * 256 + p[3]
<1>1. Len(p) = 3 /\ p[2] = a /\ p[3] = b
  OBVIOUS
<1> HIDE DEF p
<1>2. Len(p) = 3 /\ Len(p) # 5 /\ Len(p) # 9
  BY <1>1
<1>3. DecodedReal(p) =
        CASE Len(p) = 3 -> Widened(HalfFloat(w))
          [] Len(p) = 5 ->
               Widened([sign |-> p[2] \div 128, exp |-> (p[2] % 128) * 2 + p[3] \div 128,
                        frac |-> (p[3] % 128) * Bit16 + p[4] * 256 + p[5]])
          [] Len(p) = 9 ->
               [sign |-> p[2] \div 128, exp |-> (p[2] % 128) * 16 + p[3] \div 16,
                frac |-> (p[3] % 16) * Bit19 + p[4] * Bit11 + p[5] * 8 + p[6] \div 32,
                low |-> (p[6] % 32) * Bit24 + p[7] * Bit16 + p[8] * 256 + p[9]]
  BY Zenon DEF DecodedReal, HalfFloat, HalfExponent
<1>4. DecodedReal(p) = Widened(HalfFloat(w))
  <2> HIDE DEF w
  <2>1. QED
    BY <1>2, <1>3, Zenon
<1>5. QED
  BY <1>1, <1>4 DEF p

LEMMA DecodedSingle ==
  ASSUME NEW t, NEW a, NEW b, NEW c, NEW d
  PROVE  DecodedReal(<<t, a, b, c, d>>) =
           Widened([sign |-> a \div 128, exp |-> (a % 128) * 2 + b \div 128,
                    frac |-> (b % 128) * Bit16 + c * 256 + d])
<1> DEFINE p == <<t, a, b, c, d>>
<1>1. Len(p) = 5 /\ p[2] = a /\ p[3] = b /\ p[4] = c /\ p[5] = d
  OBVIOUS
<1> HIDE DEF p
<1>2. Len(p) = 5 /\ Len(p) # 3 /\ Len(p) # 9
  BY <1>1
<1>3. QED
  BY <1>1, <1>2, Zenon DEF DecodedReal, p

LEMMA DecodedDouble ==
  ASSUME NEW t, NEW a, NEW b, NEW c, NEW d, NEW e, NEW f, NEW g, NEW h
  PROVE  DecodedReal(<<t, a, b, c, d, e, f, g, h>>) =
           [sign |-> a \div 128, exp |-> (a % 128) * 16 + b \div 16,
            frac |-> (b % 16) * Bit19 + c * Bit11 + d * 8 + e \div 32,
            low |-> (e % 32) * Bit24 + f * Bit16 + g * 256 + h]
<1> DEFINE p == <<t, a, b, c, d, e, f, g, h>>
<1>1. /\ Len(p) = 9 /\ p[2] = a /\ p[3] = b /\ p[4] = c /\ p[5] = d /\ p[6] = e
      /\ p[7] = f /\ p[8] = g /\ p[9] = h
  OBVIOUS
<1> HIDE DEF p
<1>2. Len(p) = 9 /\ Len(p) # 3 /\ Len(p) # 5
  BY <1>1
<1>3. QED
  BY <1>1, <1>2, Zenon DEF DecodedReal, p

FloatSet == [sign : 0 .. 1, exp : 0 .. 255, frac : 0 .. Bit23 - 1]

DoubleSet == [sign : 0 .. 1, exp : 0 .. 2047, frac : 0 .. Bit23 - 1, low : 0 .. Bit29 - 1]

\* The bounds of the fractions, in a form the solver does not unfold.
LEMMA BelowIs ==
  ASSUME NEW n \in Nat, NEW q \in 0 .. n - 1
  PROVE  q \in Nat /\ q < n
OBVIOUS

LEMMA FractionsAre ==
  /\ \A q \in 0 .. Bit23 - 1 : Frac23(q)
  /\ \A q \in 0 .. Bit29 - 1 : Frac29(q)
<1>1. Bit23 \in Nat /\ Bit29 \in Nat
  BY SMT DEF Bit23, Bit29
<1>2. \A q \in 0 .. Bit23 - 1 : q \in Nat /\ q < Bit23
  BY <1>1, BelowIs
<1>3. \A q \in 0 .. Bit29 - 1 : q \in Nat /\ q < Bit29
  BY <1>1, BelowIs
<1>4. \A n : n = Bit23 => n = 8388608
  BY SMT DEF Bit23
<1>5. \A n : n = Bit29 => n = 536870912
  BY SMT DEF Bit29
<1>6. QED
  BY <1>2, <1>3, <1>4, <1>5, SMT DEF Frac23, Frac29

\* A half float's exponent is the float's, moved.
LEMMA HalfExpIs ==
  ASSUME NEW x \in 0 .. 255, x \in {0, 255} \/ (x <= 15 + 127 /\ x >= 127 - 15 + 1)
  PROVE  /\ HalfExp(x) \in 0 .. 31
         /\ x = HalfExponent(HalfExp(x))
<1> DEFINE k == HalfExp(x)
<1>1. CASE x = 0
  <2>1. k = 0
    BY <1>1 DEF HalfExp
  <2> HIDE DEF k
  <2>2. k # 31
    BY <2>1
  <2>3. 0 = HalfExponent(k)
    BY <2>1, <2>2 DEF HalfExponent
  <2>4. QED
    BY <1>1, <2>1, <2>3 DEF k
<1>2. CASE x = 255
  <2>1. k = 31
    BY <1>2 DEF HalfExp
  <2> HIDE DEF k
  <2>2. k # 0
    BY <2>1
  <2>3. 255 = HalfExponent(k)
    BY <2>1, <2>2 DEF HalfExponent
  <2>4. QED
    BY <1>2, <2>1, <2>3 DEF k
<1>3. CASE x \notin {0, 255}
  <2>1. x \in 113 .. 142
    BY <1>3
  <2>2. (x + 256 + 15 - 127) % 256 = x - 112
    BY <2>1
  <2>3. (x - 112) % 32 = x - 112
    BY <2>1
  <2>4. k = x - 112
    BY <1>3, <2>2, <2>3 DEF HalfExp
  <2> HIDE DEF k
  <2>5. k \in 1 .. 30 /\ k # 31 /\ k # 0 /\ k - 15 + 127 = x /\ k \in 0 .. 31
    BY <2>1, <2>4
  <2>6. x = HalfExponent(k)
    BY <2>5 DEF HalfExponent
  <2>7. QED
    BY <2>5, <2>6 DEF k
<1>4. QED
  BY <1>1, <1>2, <1>3

\* A float is read back, except for a NaN's payload.
LEMMA FloatBack ==
  ASSUME NEW f \in FloatSet
  PROVE  /\ FloatBytes(f) \in Seq(Int)
         /\ \/ DecodedReal(FloatBytes(f)) = Widened(f)
            \/ f.exp = 255 /\ f.frac % Bit13 # 0
<1> DEFINE s == f.sign
           x == f.exp
           q == f.frac
<1>1. s \in 0 .. 1 /\ x \in 0 .. 255 /\ Frac23(q)
  <2>1. s \in 0 .. 1 /\ x \in 0 .. 255 /\ q \in 0 .. Bit23 - 1
    BY DEF FloatSet
  <2> HIDE DEF q
  <2>2. QED
    BY <2>1, FractionsAre
<1>2. f = [sign |-> s, exp |-> x, frac |-> q]
  BY DEF FloatSet
<1> HIDE DEF s, x, q
<1>3. CASE InHalf(f)
  <2> DEFINE h == HalfExp(x)
             m == q \div Bit13
             w == s * Bit15 + h * Bit10 + m
             a == w \div 256
             b == w % 256
  <2>1. x \in {0, 255} \/ (x <= 15 + 127 /\ x >= 127 - 15 + 1)
    BY <1>3 DEF InHalf, InHalfRange, x
  <2>2. h \in 0 .. 31 /\ x = HalfExponent(h)
    BY <1>1, <2>1, HalfExpIs
  <2>3. m \in 0 .. 1023
    BY <1>1, SMT DEF Bit13, Frac23
  <2>4. FloatBytes(f) = <<FLOAT * 32 + SIZE_SHORT, a, b>>
    BY <1>3 DEF FloatBytes, s, x, q
  <2> HIDE DEF h, m
  <2>5. HalfHolds(s, h, m, w, a, b)
    <3>1. HalfParts(s, h, m, w)
      BY <1>1, <2>2, <2>3 DEF HalfParts
    <3> HIDE DEF w
    <3>2. HalfHolds(s, h, m, w, w \div 256, w % 256)
      BY <3>1, HalfFields
    <3>3. QED
      BY <3>2
  <2> DEFINE t == FLOAT * 32 + SIZE_SHORT
  <2>6. DecodedReal(<<t, a, b>>) = Widened(HalfFloat(a * 256 + b))
    <3> HIDE DEF a, b, t
    <3>1. QED
      BY DecodedHalf
  <2>7. t \in Int
    BY DEF FLOAT, SIZE_SHORT
  <2>8. FloatBytes(f) = <<t, a, b>>
    BY <2>4
  <2> HIDE DEF a, b, w, t
  <2>15. /\ a * 256 + b = w /\ w \div Bit15 = s /\ (w \div Bit10) % 32 = h /\ w % Bit10 = m
         /\ a \in Int /\ b \in Int
    BY <2>5 DEF HalfHolds
  <2>16. HalfFloat(w) = [sign |-> s, exp |-> x, frac |-> m * Bit13]
    BY <2>2, <2>15 DEF HalfFloat
  <2>9. DecodedReal(FloatBytes(f)) = Widened([sign |-> s, exp |-> x, frac |-> m * Bit13])
    BY <2>6, <2>8, <2>15, <2>16
  <2>10. q % Bit13 = 0 => m * Bit13 = q
    BY <1>1, SMT DEF m, Bit13, Frac23
  <2>11. FloatBytes(f) \in Seq(Int)
    BY <2>7, <2>8, <2>15
  <2>12. CASE q % Bit13 = 0
    BY <1>2, <2>9, <2>10, <2>11, <2>12
  <2>13. CASE q % Bit13 # 0
    <3>1. x = 255
      <4>1. x = 255 \/ (x = 0 /\ q = 0) \/ q % Bit13 = 0
        BY <1>3 DEF InHalf, InHalfRange, x, q
      <4>2. q = 0 => q % Bit13 = 0
        BY SMT DEF Bit13
      <4>3. QED
        BY <2>13, <4>1, <4>2
    <3>2. f.exp = 255 /\ f.frac % Bit13 # 0
      BY <2>13, <3>1 DEF x, q
    <3>3. QED
      BY <2>11, <3>2
  <2>14. QED
    BY <2>12, <2>13
<1>4. CASE ~InHalf(f)
  <2> DEFINE t == FLOAT * 32 + SIZE_WORD
             a == s * 128 + x \div 2
             b == (x % 2) * 128 + q \div Bit16
             c == (q \div 256) % 256
             d == q % 256
  <2>1. FloatBytes(f) = <<t, a, b, c, d>>
    BY <1>4 DEF FloatBytes, s, x, q
  <2>2. /\ a \in Int /\ b \in Int /\ c \in Int /\ d \in Int
        /\ a \div 128 = s /\ (a % 128) * 2 + b \div 128 = x
        /\ (b % 128) * Bit16 + c * 256 + d = q
    <3>1. SingleHolds(s, x, q, a, b, c, d)
      BY <1>1, SingleFields
    <3> HIDE DEF a, b, c, d
    <3>2. QED
      BY <3>1 DEF SingleHolds
  <2>3. t \in Int
    BY DEF FLOAT, SIZE_WORD
  <2> HIDE DEF t, a, b, c, d
  <2>4. FloatBytes(f) \in Seq(Int)
    BY <2>1, <2>2, <2>3
  <2>5. DecodedReal(<<t, a, b, c, d>>) =
          Widened([sign |-> a \div 128, exp |-> (a % 128) * 2 + b \div 128,
                   frac |-> (b % 128) * Bit16 + c * 256 + d])
    BY DecodedSingle
  <2>6. QED
    BY <1>2, <2>1, <2>2, <2>4, <2>5
<1>5. QED
  BY <1>3, <1>4

SingleExpRange(x) == x \in {0, 2047} \/ (x <= 1023 + 127 /\ x >= 1023 - 127 + 1)

SingleExponent(k) == CASE k = 255 -> 2047 [] k = 0 -> 0 [] OTHER -> k - 127 + 1023

SingleExpHolds(x, k) ==
  k \in 0 .. 255 /\ (k = 255 => x = 2047) /\ x = SingleExponent(k)

\* A double's exponent is the float's, moved, where the float holds the double.
LEMMA SingleExpIs ==
  ASSUME NEW x, Exp11(x), SingleExpRange(x)
  PROVE  SingleExpHolds(x, SingleExp(x))
<1> DEFINE k == SingleExp(x)
<1>1. CASE x = 0
  <2>1. k = 0
    BY <1>1 DEF SingleExp
  <2> HIDE DEF k, SingleExpHolds
  <2>2. k # 255
    BY <2>1
  <2>3. 0 = SingleExponent(k)
    BY <2>1, <2>2 DEF SingleExponent
  <2>4. QED
    BY <1>1, <2>1, <2>3 DEF k, SingleExpHolds
<1>2. CASE x = 2047
  <2>1. k = 255
    BY <1>2 DEF SingleExp
  <2> HIDE DEF k, SingleExpHolds
  <2>2. k # 0
    BY <2>1
  <2>3. 2047 = SingleExponent(k)
    BY <2>1, <2>2 DEF SingleExponent
  <2>4. QED
    BY <1>2, <2>1, <2>3 DEF k, SingleExpHolds
<1>3. CASE x \notin {0, 2047}
  <2>1. x \in 897 .. 1150
    BY <1>3 DEF Exp11, SingleExpRange
  <2>2. (x + 127 - 1023) % 256 = x - 896
    BY <2>1
  <2>3. k = x - 896
    BY <1>3, <2>2 DEF SingleExp
  <2> HIDE DEF k, SingleExpHolds
  <2>4. k \in 1 .. 254 /\ k # 255 /\ k # 0 /\ k - 127 + 1023 = x /\ k \in 0 .. 255
    BY <2>1, <2>3
  <2>5. x = SingleExponent(k)
    BY <2>4 DEF SingleExponent
  <2>6. QED
    BY <2>4, <2>5 DEF k, SingleExpHolds
<1>4. QED
  BY <1>1, <1>2, <1>3

\* So is a double, in whichever of the three widths it is written.
LEMMA DoubleBack ==
  ASSUME NEW d \in DoubleSet
  PROVE  /\ DoubleBytes(d) \in Seq(Int)
         /\ \/ DecodedReal(DoubleBytes(d)) = d
            \/ d.exp = 2047 /\ (d.low # 0 \/ d.frac % Bit13 # 0)
<1> DEFINE s == d.sign
           x == d.exp
           q == d.frac
           l == d.low
<1>1. s \in 0 .. 1 /\ x \in 0 .. 2047 /\ q \in 0 .. Bit23 - 1 /\ l \in 0 .. Bit29 - 1
  BY DEF DoubleSet
<1>2. d = [sign |-> s, exp |-> x, frac |-> q, low |-> l]
  BY DEF DoubleSet
<1> HIDE DEF s, x, q, l
<1>3. CASE InSingle(d)
  <2> DEFINE k == SingleExp(x)
             f == [sign |-> s, exp |-> k, frac |-> q]
  <2>1. SingleExpRange(x)
    BY <1>3 DEF InSingle, InSingleRange, SingleExpRange, x
  <2>2. k \in 0 .. 255 /\ (k = 255 => x = 2047)
        /\ x = SingleExponent(k)
    <3>1. Exp11(x)
      BY <1>1 DEF Exp11
    <3>2. SingleExpHolds(x, k)
      BY <2>1, <3>1, SingleExpIs
    <3> HIDE DEF k
    <3>3. QED
      BY <3>2 DEF SingleExpHolds
  <2>3. DoubleBytes(d) = FloatBytes(f)
    BY <1>3 DEF DoubleBytes, s, x, q
  <2> HIDE DEF k
  <2>4. f \in FloatSet /\ f.exp = k /\ f.frac = q
    BY <1>1, <2>2 DEF FloatSet
  <2>5. Widened(f) = [sign |-> s, frac |-> q, low |-> 0, exp |-> x]
    BY <2>2 DEF Widened, SingleExponent
  <2> HIDE DEF f
  <2>6. /\ FloatBytes(f) \in Seq(Int)
        /\ \/ DecodedReal(FloatBytes(f)) = Widened(f)
           \/ f.exp = 255 /\ f.frac % Bit13 # 0
    BY <2>4, FloatBack
  <2>7. DoubleBytes(d) \in Seq(Int)
    BY <2>3, <2>6
  <2>8. CASE f.exp = 255 /\ f.frac % Bit13 # 0
    <3>1. x = 2047 /\ q % Bit13 # 0
      BY <2>2, <2>4, <2>8
    <3>2. QED
      BY <2>7, <3>1 DEF x, q
  <2>9. CASE DecodedReal(FloatBytes(f)) = Widened(f)
    <3>1. CASE l = 0
      <4>1. Widened(f) = d
        BY <1>2, <2>5, <3>1
      <4>2. QED
        BY <2>3, <2>7, <2>9, <4>1
    <3>2. CASE l # 0
      <4>1. x = 2047
        BY <1>3, <3>2 DEF InSingle, InSingleRange, x, l
      <4>2. QED
        BY <2>7, <3>2, <4>1 DEF x, l
    <3>3. QED
      BY <3>1, <3>2
  <2>10. QED
    BY <2>6, <2>8, <2>9
<1>4. CASE ~InSingle(d)
  <2> DEFINE t == FLOAT * 32 + SIZE_LONG
             b2 == s * 128 + x \div 16
             b3 == (x % 16) * 16 + q \div Bit19
             b4 == (q \div Bit11) % 256
             b5 == (q \div 8) % 256
             b6 == (q % 8) * 32 + l \div Bit24
             b7 == (l \div Bit16) % 256
             b8 == (l \div 256) % 256
             b9 == l % 256
  <2>1. DoubleBytes(d) = <<t, b2, b3, b4, b5, b6, b7, b8, b9>>
    BY <1>4 DEF DoubleBytes, s, x, q, l
  <2>2. /\ b2 \in Int /\ b3 \in Int /\ b6 \in Int /\ b4 \in Int /\ b5 \in Int
        /\ b7 \in Int /\ b8 \in Int /\ b9 \in Int
        /\ b2 \div 128 = s /\ (b2 % 128) * 16 + b3 \div 16 = x
        /\ (b3 % 16) * Bit19 + b4 * Bit11 + b5 * 8 + b6 \div 32 = q
        /\ (b6 % 32) * Bit24 + b7 * Bit16 + b8 * 256 + b9 = l
    <3>1. Frac23(q) /\ Frac29(l)
      BY <1>1, FractionsAre
    <3>2. DoubleHolds(s, x, q, l, b2, b3, b4, b5, b6, b7, b8, b9)
      <4>1. s \in 0 .. 1 /\ Exp11(x)
        BY <1>1 DEF Exp11
      <4>2. QED
        BY <3>1, <4>1, DoubleFields
    <3> HIDE DEF b2, b3, b4, b5, b6, b7, b8, b9
    <3>3. QED
      BY <3>2 DEF DoubleHolds
  <2>3. t \in Int
    BY DEF FLOAT, SIZE_LONG
  <2> HIDE DEF t, b2, b3, b4, b5, b6, b7, b8, b9
  <2>4. DoubleBytes(d) \in Seq(Int)
    BY <2>1, <2>2, <2>3
  <2>5. DecodedReal(<<t, b2, b3, b4, b5, b6, b7, b8, b9>>) =
          [sign |-> b2 \div 128, exp |-> (b2 % 128) * 16 + b3 \div 16,
           frac |-> (b3 % 16) * Bit19 + b4 * Bit11 + b5 * 8 + b6 \div 32,
           low |-> (b6 % 32) * Bit24 + b7 * Bit16 + b8 * 256 + b9]
    BY DecodedDouble
  <2>6. DecodedReal(DoubleBytes(d)) = d
    BY <1>2, <2>1, <2>2, <2>5
  <2>7. QED
    BY <2>4, <2>6
<1>5. QED
  BY <1>3, <1>4

\* The bytes of a call say what it means.
SaysNumber(bytes, means) == means.type \in 0 .. 6 => ReadBack(bytes, means.value, means.type)

SaysReal(bytes, means) ==
  means.type = 7 =>
    \/ DecodedReal(bytes) = means.value
    \/ means.value.exp = 2047 /\ (means.value.low # 0 \/ means.value.frac % Bit13 # 0)

Says(bytes, means) == bytes \in Seq(Int) /\ SaysNumber(bytes, means) /\ SaysReal(bytes, means)

(***************************************************************************)
(* The inductive invariant of the encoder: what nanocbor_encoded_len tells *)
(* holds of the encoder's bytes and length, and the last call's bytes say  *)
(* what it means.                                                          *)
(***************************************************************************)
Encoder == [buf |-> buf, len |-> len]

EncodeInv ==
  /\ EncodeTypes
  /\ Tells(Encoder, Whole)
  /\ HeadReadBack
  /\ RealKept

\* A call whose bytes say what it means, and whose pieces were emitted.
LEMMA CallKeeps ==
  ASSUME EncodeTypes, NEW bytes, NEW means, Says(bytes, means), Asked(bytes, means),
         NEW e, Tells(e, Whole \o bytes), buf' = e.buf, len' = e.len
  PROVE  EncodeInv'
<1>1. /\ EncodeTypes' /\ size' = size
      /\ Whole \in Seq(Int) /\ Whole' = Whole \o bytes
      /\ LastCall' = [bytes |-> bytes, means |-> means]
  <2>1. bytes \in Seq(Int)
    BY DEF Says
  <2>2. QED
    BY <2>1, AskedIs
<1>2. Tells(Encoder, Whole)'
  BY <1>1 DEF Tells, Encoder
<1>3. LastCall'.bytes = bytes /\ LastCall'.means = means
  BY <1>1
<1>4. HeadReadBack'
  <2>1. means.type \in 0 .. 6 => ReadBack(bytes, means.value, means.type)
    BY DEF Says, SaysNumber
  <2>2. QED
    BY <1>3, <2>1 DEF HeadReadBack, ReadBack, UINT, TAG
<1>5. RealKept'
  <2>1. means.type = 7 =>
          \/ DecodedReal(bytes) = means.value
          \/ means.value.exp = 2047 /\ (means.value.low # 0 \/ means.value.frac % Bit13 # 0)
    BY DEF Says, SaysReal
  <2>2. QED
    BY <1>3, <2>1 DEF RealKept, FLOAT
<1>6. QED
  BY <1>1, <1>2, <1>4, <1>5 DEF EncodeInv

LEMMA WholeIs ==
  ASSUME EncodeInv
  PROVE  Whole \in Seq(Int) /\ size \in Nat /\ EncodeTypes /\ Tells(Encoder, Whole)
BY DEF EncodeInv, Tells, EncodeTypes

\* An item that is written in one piece.
LEMMA CalledKeeps ==
  ASSUME EncodeInv, NEW bytes, NEW means, Says(bytes, means), Called(bytes, means)
  PROVE  EncodeInv'
<1> DEFINE e == Emit(Encoder, bytes)
<1>1. bytes \in Seq(Int)
  BY DEF Says
<1>2. Tells(e, Whole \o bytes)
  BY <1>1, WholeIs, EmitKeeps
<1>3. Asked(bytes, means) /\ buf' = e.buf /\ len' = e.len
  BY DEF Called, Encoder
<1> HIDE DEF e
<1>4. QED
  BY <1>2, <1>3, WholeIs, CallKeeps

\* Bytes are integers.
LEMMA BufferIs ==
  ASSUME NEW b \in Buffers
  PROVE  b \in Seq(Int)
<1>1. 0 .. 255 \subseteq Int
  OBVIOUS
<1>2. QED
  BY <1>1, SeqMonotonic

LEMMA SaysPlain ==
  ASSUME NEW byte \in Int
  PROVE  Says(<<byte>>, Plain)
<1>1. Plain.type = -1
  BY DEF Plain
<1>2. <<byte>> \in Seq(Int)
  OBVIOUS
<1>3. QED
  BY <1>1, <1>2 DEF Says, SaysNumber, SaysReal

LEMMA SaysHead ==
  ASSUME NEW n \in Words, NEW type \in 0 .. 6, NEW rest \in Buffers
  PROVE  /\ Says(fmt_uint64(n, type), Number(n, type))
         /\ Says(fmt_uint64(n, type) \o rest, Number(n, type))
<1> DEFINE m == Number(n, type)
           h == fmt_uint64(n, type)
           b == h \o rest
<1>1. m.type = type /\ m.value = n /\ m.type # 7
  BY DEF Number
<1>2. h \in Buffers /\ ReadBack(h, n, type)
  BY HeadAlone
<1>3. b \in Buffers /\ ReadBack(b, n, type)
  BY HeadBack
<1> HIDE DEF m, h, b
<1>4. h \in Seq(Int) /\ b \in Seq(Int)
  BY <1>2, <1>3, BufferIs
<1>5. Says(h, m)
  BY <1>1, <1>2, <1>4 DEF Says, SaysNumber, SaysReal
<1>6. Says(b, m)
  BY <1>1, <1>3, <1>4 DEF Says, SaysNumber, SaysReal
<1>7. QED
  BY <1>5, <1>6 DEF m, h, b

LEMMA SaysFloat ==
  ASSUME NEW f \in Floats
  PROVE  Says(FloatBytes(f), Real(Widened(f)))
<1> DEFINE d == Widened(f)
           m == Real(d)
           b == FloatBytes(f)
<1>1. f \in FloatSet
  BY FloatsAssumption DEF FloatSet
<1>2. b \in Seq(Int) /\ (DecodedReal(b) = d \/ (f.exp = 255 /\ f.frac % Bit13 # 0))
  BY <1>1, FloatBack
<1>3. d.frac = f.frac /\ (f.exp = 255 => d.exp = 2047)
  BY DEF Widened
<1>4. m.type = 7 /\ m.value = d
  BY DEF Real, FLOAT
<1> HIDE DEF d, m, b
<1>5. m.type \notin 0 .. 6
  BY <1>4
<1>6. SaysReal(b, m)
  BY <1>2, <1>3, <1>4 DEF SaysReal
<1>7. Says(b, m)
  BY <1>2, <1>5, <1>6 DEF Says, SaysNumber
<1>8. QED
  BY <1>7 DEF b, m, d

LEMMA SaysDouble ==
  ASSUME NEW d \in Doubles
  PROVE  Says(DoubleBytes(d), Real(d))
<1> DEFINE m == Real(d)
           b == DoubleBytes(d)
<1>1. d \in DoubleSet
  BY DoublesAssumption DEF DoubleSet
<1>2. /\ b \in Seq(Int)
      /\ \/ DecodedReal(b) = d
         \/ d.exp = 2047 /\ (d.low # 0 \/ d.frac % Bit13 # 0)
  BY <1>1, DoubleBack
<1>3. m.type = 7 /\ m.value = d
  BY DEF Real, FLOAT
<1> HIDE DEF m, b
<1>4. m.type \notin 0 .. 6
  BY <1>3
<1>5. SaysReal(b, m)
  BY <1>2, <1>3 DEF SaysReal
<1>6. QED
  BY <1>2, <1>4, <1>5 DEF Says, SaysNumber, b, m

\* nanocbor_fmt_int writes a head of type 0 or 1.
LEMMA SaysInt ==
  ASSUME NEW n \in Words
  PROVE  /\ fmt_int(n) \in Buffers
         /\ Says(fmt_int(n), IF n[1] >= 128 THEN Number([i \in 1 .. 8 |-> 255 - n[i]], NINT)
                             ELSE Number(n, UINT))
<1> DEFINE r == [i \in 1 .. 8 |-> 255 - n[i]]
<1>1. r \in Words
  BY WordsAre
<1>2. <<>> \in Buffers
  BY EmptySeq
<1>3. NINT \in 0 .. 6 /\ UINT \in 0 .. 6
  BY DEF NINT, UINT
<1> HIDE DEF r
<1>4. CASE n[1] >= 128
  <2>1. fmt_int(n) = fmt_uint64(r, NINT)
    BY <1>4 DEF fmt_int, r
  <2>2. fmt_uint64(r, NINT) \in Buffers /\ Says(fmt_uint64(r, NINT), Number(r, NINT))
    BY <1>1, <1>2, <1>3, HeadAlone, SaysHead
  <2>3. QED
    BY <1>4, <2>1, <2>2 DEF r
<1>5. CASE ~(n[1] >= 128)
  <2>1. fmt_int(n) = fmt_uint64(n, UINT)
    BY <1>5 DEF fmt_int
  <2>2. fmt_uint64(n, UINT) \in Buffers /\ Says(fmt_uint64(n, UINT), Number(n, UINT))
    BY <1>2, <1>3, HeadAlone, SaysHead
  <2>3. QED
    BY <1>5, <2>1, <2>2
<1>6. QED
  BY <1>4, <1>5

\* The functions of one piece.
LEMMA OnePieceKeeps ==
  ASSUME EncodeInv,
         FmtBool \/ FmtNull \/ FmtIndefinite \/ FmtHead \/ FmtContainer \/ FmtInt
           \/ FmtFloat \/ FmtDouble
  PROVE  EncodeInv'
<1>1. Numbers \subseteq Words /\ <<>> \in Buffers
  BY NumbersAssumption, EmptySeq DEF Words
<1>2. CASE FmtBool
  <2>1. PICK byte \in {FALSE_BYTE, TRUE_BYTE} : Called(<<byte>>, Plain)
    BY <1>2 DEF FmtBool
  <2>2. byte \in Int
    BY DEF FALSE_BYTE, TRUE_BYTE
  <2>3. QED
    BY <2>1, <2>2, SaysPlain, CalledKeeps
<1>3. CASE FmtNull
  <2>1. NULL_BYTE \in Int
    BY DEF NULL_BYTE
  <2>2. QED
    BY <1>3, <2>1, SaysPlain, CalledKeeps DEF FmtNull
<1>4. CASE FmtIndefinite
  <2>1. PICK byte \in {ARR * 32 + SIZE_INDEFINITE, MAP * 32 + SIZE_INDEFINITE, BREAK} :
          Called(<<byte>>, Plain)
    BY <1>4 DEF FmtIndefinite
  <2>2. byte \in Int
    BY DEF ARR, MAP, SIZE_INDEFINITE, BREAK
  <2>3. QED
    BY <2>1, <2>2, SaysPlain, CalledKeeps
<1>5. CASE FmtHead \/ FmtContainer
  <2>1. PICK n \in Numbers, type \in {UINT, TAG, BSTR, TSTR, ARR, MAP} :
          Called(fmt_uint64(n, type), Number(n, type))
    BY <1>5 DEF FmtHead, FmtContainer
  <2>2. type \in 0 .. 6 /\ n \in Words
    BY <1>1 DEF UINT, TAG, BSTR, TSTR, ARR, MAP
  <2>3. Says(fmt_uint64(n, type), Number(n, type))
    BY <1>1, <2>2, SaysHead
  <2>4. QED
    BY <2>1, <2>3, CalledKeeps
<1>6. CASE FmtInt
  <2>1. PICK n \in Numbers :
          Called(fmt_int(n), IF n[1] >= 128 THEN Number([i \in 1 .. 8 |-> 255 - n[i]], NINT)
                             ELSE Number(n, UINT))
    BY <1>6 DEF FmtInt
  <2>2. Says(fmt_int(n), IF n[1] >= 128 THEN Number([i \in 1 .. 8 |-> 255 - n[i]], NINT)
                         ELSE Number(n, UINT))
    BY <1>1, SaysInt
  <2>3. QED
    BY <2>1, <2>2, CalledKeeps
<1>7. CASE FmtFloat
  <2>1. PICK f \in Floats : Called(FloatBytes(f), Real(Widened(f)))
    BY <1>7 DEF FmtFloat
  <2>2. QED
    BY <2>1, SaysFloat, CalledKeeps
<1>8. CASE FmtDouble
  <2>1. PICK d \in Doubles : Called(DoubleBytes(d), Real(d))
    BY <1>8 DEF FmtDouble
  <2>2. QED
    BY <2>1, SaysDouble, CalledKeeps
<1>9. QED
  BY <1>2, <1>3, <1>4, <1>5, <1>6, <1>7, <1>8

\* One sequence, then another: a name that keeps the provers from turning every
\* concatenation round.
Then(a, b) == a \o b

LEMMA ThenIs ==
  ASSUME NEW S, NEW a \in Seq(S), NEW b \in Seq(S)
  PROVE  Then(a, b) \in Seq(S)
BY ConcatProperties DEF Then

LEMMA ThenTurned ==
  ASSUME NEW S, NEW a \in Seq(S), NEW b \in Seq(S), NEW c \in Seq(S)
  PROVE  Then(Then(a, b), c) = Then(a, Then(b, c))
BY ConcatAssociative DEF Then

\* nanocbor_put_bstr and its like write a head and the string.
LEMMA PutStrKeeps ==
  ASSUME EncodeInv, PutStr
  PROVE  EncodeInv'
<1>1. PICK str \in Strings, type \in {BSTR, TSTR} :
        LET head == fmt_uint64(SmallNumber(Len(str)), type)
        IN  /\ Asked(head \o str, Number(SmallNumber(Len(str)), type))
            /\ \E h \in {Emit([buf |-> buf, len |-> len], head)} :
                 \E e \in {Emit(h, str)} : buf' = e.buf /\ len' = e.len
  BY DEF PutStr
<1> DEFINE n == SmallNumber(Len(str))
           head == fmt_uint64(n, type)
           h == Emit(Encoder, head)
           e == Emit(h, str)
<1>2. Asked(head \o str, Number(n, type)) /\ buf' = e.buf /\ len' = e.len
  BY <1>1 DEF Encoder
<1>3. str \in Buffers /\ Len(str) < 256 /\ Len(str) \in Nat
  BY StringsAssumption, LenProperties
<1>4. type \in 0 .. 6
  BY DEF BSTR, TSTR
<1>5. n \in Words
  <2> DEFINE k == Len(str)
  <2>3. k \in Nat /\ k < 256
    BY <1>3
  <2> HIDE DEF k
  <2>1. k \in 0 .. 255
    BY <2>3
  <2>2. SmallNumber(k) \in Words
    BY <2>1, WordsAre
  <2>4. QED
    BY <2>2 DEF k, n
<1> HIDE DEF n
<1>6. Says(head \o str, Number(n, type)) /\ head \in Buffers
  BY <1>3, <1>4, <1>5, SaysHead, HeadAlone
<1> HIDE DEF head
<1>7. head \in Seq(Int) /\ str \in Seq(Int)
  BY <1>3, <1>6, BufferIs
<1>8. Tells(h, Whole \o head)
  BY <1>7, WholeIs, EmitKeeps
<1> HIDE DEF h
<1>9. Tells(e, (Whole \o head) \o str)
  <2> DEFINE w == Whole \o head
  <2>1. size \in Nat
    BY WholeIs
  <2>2. Tells(h, w)
    BY <1>8
  <2> HIDE DEF w
  <2>3. Tells(Emit(h, str), w \o str)
    BY <1>7, <2>1, <2>2, EmitKeeps
  <2>4. QED
    BY <2>3 DEF w
<1>10. (Whole \o head) \o str = Whole \o (head \o str)
  <2>1. Whole \in Seq(Int)
    BY WholeIs
  <2>2. Then(Then(Whole, head), str) = Then(Whole, Then(head, str))
    BY <1>7, <2>1, ThenTurned
  <2>3. QED
    BY <2>2 DEF Then
<1> HIDE DEF e
<1>11. Tells(e, Whole \o (head \o str))
  BY <1>9, <1>10
<1>12. QED
  BY <1>2, <1>6, <1>11, WholeIs, CallKeeps

\* Four pieces, one after the other.
InTurn(o, p, q, r, t) == (((o \o p) \o q) \o r) \o t = o \o (p \o ((q \o r) \o t))

LEMMA FourPieces ==
  ASSUME NEW S, NEW o \in Seq(S), NEW p \in Seq(S), NEW q \in Seq(S), NEW r \in Seq(S),
         NEW t \in Seq(S)
  PROVE  InTurn(o, p, q, r, t)
<1>1. Then(q, r) \in Seq(S) /\ Then(o, p) \in Seq(S)
  BY ThenIs
<1>2. Then(Then(q, r), t) \in Seq(S)
  BY <1>1, ThenIs
<1>3. Then(Then(Then(o, p), q), r) = Then(Then(o, p), Then(q, r))
  BY <1>1, ThenTurned
<1>4. Then(Then(Then(o, p), Then(q, r)), t) = Then(Then(o, p), Then(Then(q, r), t))
  BY <1>1, ThenTurned
<1>5. Then(Then(o, p), Then(Then(q, r), t)) = Then(o, Then(p, Then(Then(q, r), t)))
  BY <1>2, ThenTurned
<1>6. Then(Then(Then(Then(o, p), q), r), t) = Then(o, Then(p, Then(Then(q, r), t)))
  BY <1>3, <1>4, <1>5
<1>7. QED
  BY <1>6 DEF Then, InTurn

\* nanocbor_fmt_decimal_frac writes four items.
LEMMA DecimalFracKeeps ==
  ASSUME EncodeInv, FmtDecimalFrac
  PROVE  EncodeInv'
<1> DEFINE n == SmallNumber(TAG_DEC_FRAC)
           tag == fmt_uint64(n, TAG)
           arr == fmt_uint64(SmallNumber(2), ARR)
<1>1. PICK x \in Numbers, m \in Numbers :
        /\ Asked(tag \o (arr \o fmt_int(x) \o fmt_int(m)), Number(n, TAG))
        /\ \E a \in {Emit([buf |-> buf, len |-> len], tag)} :
           \E b \in {Emit(a, arr)} :
           \E c \in {Emit(b, fmt_int(x))} :
           \E e \in {Emit(c, fmt_int(m))} : buf' = e.buf /\ len' = e.len
  BY DEF FmtDecimalFrac
<1> DEFINE i == fmt_int(x)
           j == fmt_int(m)
           rest == arr \o i \o j
           a == Emit(Encoder, tag)
           b == Emit(a, arr)
           c == Emit(b, i)
           e == Emit(c, j)
<1>2. Asked(tag \o rest, Number(n, TAG)) /\ buf' = e.buf /\ len' = e.len
  BY <1>1 DEF Encoder
<1>3. n \in Words /\ SmallNumber(2) \in Words /\ x \in Words /\ m \in Words
  <2>1. TAG_DEC_FRAC \in 0 .. 255 /\ 2 \in 0 .. 255
    BY DEF TAG_DEC_FRAC
  <2>2. x \in Words /\ m \in Words
    BY NumbersAssumption DEF Words
  <2>3. QED
    BY <2>1, <2>2, WordsAre
<1>4. TAG \in 0 .. 6 /\ ARR \in 0 .. 6
  BY DEF TAG, ARR
<1>5. arr \in Buffers /\ i \in Buffers /\ j \in Buffers /\ tag \in Buffers
  BY <1>3, <1>4, HeadAlone, SaysInt
<1> HIDE DEF i, j, arr, n
<1>6. arr \o i \in Buffers /\ rest \in Buffers
  <2>1. arr \o i \in Buffers
    BY <1>5, ConcatProperties
  <2>2. QED
    BY <1>5, <2>1, ConcatProperties
<1> HIDE DEF rest
<1>7. Says(tag \o rest, Number(n, TAG))
  BY <1>3, <1>4, <1>6, SaysHead
<1> HIDE DEF tag
<1>8. arr \in Seq(Int) /\ i \in Seq(Int) /\ j \in Seq(Int) /\ tag \in Seq(Int)
  BY <1>5, BufferIs
<1>9. Tells(a, Whole \o tag)
  BY <1>8, WholeIs, EmitKeeps
<1> HIDE DEF a
<1>10. Tells(b, (Whole \o tag) \o arr)
  BY <1>8, <1>9, WholeIs, EmitKeeps
<1> HIDE DEF b
<1>11. Tells(c, ((Whole \o tag) \o arr) \o i)
  BY <1>8, <1>10, WholeIs, EmitKeeps
<1> HIDE DEF c
<1>12. Tells(e, (((Whole \o tag) \o arr) \o i) \o j)
  BY <1>8, <1>11, WholeIs, EmitKeeps
<1> HIDE DEF e
<1>13. (((Whole \o tag) \o arr) \o i) \o j = Whole \o (tag \o rest)
  <2>1. Whole \in Seq(Int) /\ rest \in Seq(Int) /\ rest = (arr \o i) \o j
    BY <1>6, WholeIs, BufferIs DEF rest
  <2>2. InTurn(Whole, tag, arr, i, j)
    BY <1>8, <2>1, FourPieces
  <2>3. QED
    BY <2>1, <2>2 DEF InTurn
<1>14. Tells(e, Whole \o (tag \o rest))
  BY <1>12, <1>13
<1>15. QED
  BY <1>2, <1>7, <1>14, WholeIs, CallKeeps

\* What holds of the encoder after every call, for buffers of any size and any
\* number of calls: its inductive invariant.
THEOREM EncodeInductive == EncodeSpec => []EncodeInv
<1>1. ASSUME EncodeInit PROVE EncodeInv
  <2>1. size \in Nat /\ buf = <<>> /\ len = 0 /\ calls = <<>>
    BY <1>1, SizesAssumption DEF EncodeInit
  <2>2. Pieces = <<>>
    BY <2>1 DEF Pieces
  <2>3. EncodeTypes
    <3>1. <<>> \in Seq(Int) /\ <<>> \in Seq(Seq(Int))
      BY EmptySeq
    <3>2. QED
      BY <2>1, <2>2, <3>1 DEF EncodeTypes
  <2>4. Whole = <<>>
    <3>1. Whole = FlattenSeq(<<>>)
      BY <2>2 DEF Whole, Pieces
    <3>2. QED
      BY <3>1 DEF FlattenSeq
  <2>5. Tells(Encoder, Whole)
    <3>1. <<>> \in Seq(Int) /\ Len(<<>>) = 0
      BY EmptySeq
    <3>2. QED
      BY <2>1, <2>4, <3>1 DEF Tells, Encoder
  <2>6. HeadReadBack /\ RealKept
    BY <2>1 DEF HeadReadBack, RealKept
  <2>7. QED
    BY <2>3, <2>5, <2>6 DEF EncodeInv
<1>2. ASSUME EncodeInv, [EncodeNext]_encode_vars PROVE EncodeInv'
  <2>1. CASE UNCHANGED encode_vars
    <3>1. size' = size /\ buf' = buf /\ len' = len /\ calls' = calls
      BY <2>1 DEF encode_vars
    <3>2. Pieces' = Pieces /\ Whole' = Whole /\ LastCall' = LastCall /\ Encoder' = Encoder
      BY <3>1 DEF Pieces, Bytes, Whole, LastCall, Encoder
    <3>3. EncodeTypes'
      BY <1>2, <3>1, <3>2 DEF EncodeInv, EncodeTypes
    <3>4. Tells(Encoder, Whole)'
      BY <1>2, <3>1, <3>2 DEF EncodeInv, Tells
    <3>5. HeadReadBack'
      BY <1>2, <3>1, <3>2 DEF EncodeInv, HeadReadBack
    <3>6. RealKept'
      BY <1>2, <3>1, <3>2 DEF EncodeInv, RealKept
    <3>7. QED
      BY <3>3, <3>4, <3>5, <3>6 DEF EncodeInv
  <2>2. CASE EncodeNext
    BY <1>2, <2>2, OnePieceKeeps, PutStrKeeps, DecimalFracKeeps DEF EncodeNext
  <2>3. QED
    BY <1>2, <2>1, <2>2
<1>3. QED
  BY <1>1, <1>2, PTL DEF EncodeSpec

\* nanocbor_encoded_len is the length of all that was asked for, and it is at
\* most the buffer's size exactly when the buffer holds all of it (_fits,
\* encoder.c:37-42).
THEOREM EncodedLengthTells == EncodeSpec => []LengthTells
<1>1. EncodeInv => LengthTells
  BY DEF EncodeInv, Tells, Encoder, LengthTells
<1>2. QED
  BY <1>1, EncodeInductive, PTL

\* Every head _fmt_uint64 writes, in an item of any kind and with any string
\* behind it, is read back by _get_uint64 as the 64-bit number it was written
\* for, and is the shortest that holds it.
THEOREM HeadsReadBack == EncodeSpec => []HeadReadBack
<1>1. EncodeInv => HeadReadBack
  BY DEF EncodeInv
<1>2. QED
  BY <1>1, EncodeInductive, PTL

\* nanocbor_fmt_float and _fmt_double write every float and double so that it is
\* read back bit by bit, save the payload of a NaN.
THEOREM RealsKept == EncodeSpec => []RealKept
<1>1. EncodeInv => RealKept
  BY DEF EncodeInv
<1>2. QED
  BY <1>1, EncodeInductive, PTL
-----------------------------------------------------------------------------
\* What the results tell.

\* Where a head that was written ends, whatever is behind it.
LEMMA HeadSpan ==
  ASSUME NEW n \in Words, NEW type \in 0 .. 6, NEW rest \in Buffers
  PROVE  LET h == fmt_uint64(n, type)
         IN  /\ HeadLen(h \o rest, 0) = Len(h)
             /\ Len(h) = ExtraBytes(n) + 1 /\ Len(h) \in 1 .. 9
             /\ Len(h \o rest) = Len(h) + Len(rest)
<1> DEFINE x == ExtraBytes(n)
           h == fmt_uint64(n, type)
           info == HeadInfo(n, x)
           b == h \o rest
           l == Len(b)
<1>1. /\ x \in {0, 1, 2, 4, 8} /\ info \in 0 .. 27
      /\ h \in Buffers /\ Len(h) = x + 1 /\ h[1] = type * 32 + info
  <2>1. type \in 0 .. 7
    OBVIOUS
  <2>2. QED
    BY <2>1, FmtIs
<1>2. x = 0 => info < 24
  BY ExtraIs DEF HeadInfo
<1>3. (x = 1 => info = 24) /\ (x = 2 => info = 25) /\ (x = 4 => info = 26) /\ (x = 8 => info = 27)
  BY DEF HeadInfo
<1> HIDE DEF h, info, x
<1>4. /\ l = Len(h) + Len(rest) /\ Len(rest) \in Nat
      /\ \A i \in 1 .. Len(h) + Len(rest) : b[i] = IF i <= Len(h) THEN h[i] ELSE rest[i - Len(h)]
  BY <1>1, ConcatProperties, LenProperties
<1> HIDE DEF b
<1>5. l \in Nat /\ l >= x + 1 /\ l > 0 /\ b[1] = type * 32 + info
  <2>1. 1 \in 1 .. Len(h) + Len(rest) /\ 1 <= Len(h)
    BY <1>1, <1>4
  <2>2. b[1] = h[1]
    BY <1>4, <2>1
  <2> DEFINE r == Len(rest)
             k == Len(h)
  <2>3. r \in Nat /\ k = x + 1 /\ l = k + r
    BY <1>1, <1>4
  <2> HIDE DEF r, k, l
  <2>4. l \in Nat /\ l >= x + 1 /\ l > 0
    BY <1>1, <2>3
  <2>5. QED
    BY <1>1, <2>2, <2>4
<1>6. Byte(b, 0) % 32 = info
  <2> DEFINE a == type * 32 + info
  <2>0. info \in 0 .. 27
    BY <1>1
  <2>1. a \div 32 = type /\ a % 32 = info
    BY <2>0
  <2>2. Byte(b, 0) = b[1]
    BY DEF Byte
  <2>3. QED
    BY <1>5, <2>1, <2>2
<1>7. info >= 24 => NumberLen(info) = x
  <2>1. x \in {0, 1, 2, 4, 8} /\ info \in 0 .. 27
    BY <1>1
  <2>2. /\ NumberLen(24) = 1 /\ NumberLen(25) = 2
        /\ NumberLen(26) = 4 /\ NumberLen(27) = 8
    BY DEF NumberLen, SIZE_BYTE, SIZE_SHORT, SIZE_WORD, SIZE_LONG
  <2>3. QED
    BY <1>2, <1>3, <2>1, <2>2
<1>8. HeadLen(b, 0) = IF 0 >= l \/ info > 27 THEN -1
                      ELSE LET m == IF info < 24 THEN 1 ELSE 1 + NumberLen(info)
                           IN  IF 0 + m <= l THEN m ELSE -1
  BY <1>6 DEF HeadLen, SIZE_BYTE, SIZE_LONG
<1> HIDE DEF l
<1>9. info < 24 => x = 0
  BY <1>1, <1>3
<1>10. HeadLen(b, 0) = x + 1
  <2>1. CASE info < 24
    BY <1>1, <1>5, <1>8, <1>9, <2>1
  <2>2. CASE ~(info < 24)
    <3>1. NumberLen(info) = x
      BY <1>1, <1>7, <2>2
    <3>2. QED
      BY <1>1, <1>5, <1>8, <2>2, <3>1
  <2>3. QED
    BY <2>1, <2>2
<1>11. QED
  BY <1>1, <1>4, <1>10 DEF b, h, x, l

\* A piece is there whole and its result is its length, or it is not there and
\* its result is an error.
There(e, f, bytes) == f.res = Len(bytes) /\ f.buf = e.buf \o bytes /\ Len(f.buf) = Len(e.buf) + Len(bytes)

Missing(e, f, bytes) == f.res = -3 /\ f.buf = e.buf /\ size - Len(e.buf) < Len(bytes)

Holds(e) == e.buf \in Seq(Int) /\ Len(e.buf) \in Nat /\ Len(e.buf) <= size

LEMMA EmitIs ==
  ASSUME size \in Nat, NEW e, Holds(e), NEW bytes \in Seq(Int)
  PROVE  LET f == Emit(e, bytes)
         IN  Holds(f) /\ (There(e, f, bytes) \/ Missing(e, f, bytes))
<1> DEFINE f == Emit(e, bytes)
           t == e.buf \o bytes
           n == Len(bytes)
           k == Len(e.buf)
<1>1. e.buf \in Seq(Int) /\ k \in Nat /\ k <= size /\ n \in Nat
  BY LenProperties DEF Holds
<1>2. t \in Seq(Int) /\ Len(t) = k + n
  BY <1>1, ConcatProperties
<1>3. /\ f.buf = IF size - k >= n THEN t ELSE e.buf
      /\ f.res = IF size - k >= n THEN n ELSE -3
  BY DEF Emit, Room, NANOCBOR_ERR_END
<1> HIDE DEF f, t, n, k
<1>4. CASE size - k >= n
  <2>1. f.buf = t /\ f.res = n /\ Len(t) \in Nat /\ Len(t) <= size
    BY <1>1, <1>2, <1>3, <1>4
  <2>2. QED
    BY <1>2, <2>1 DEF Holds, There, t, n, k, f
<1>5. CASE ~(size - k >= n)
  <2>1. f.buf = e.buf /\ f.res = -3 /\ size - k < n
    BY <1>1, <1>3, <1>5
  <2>2. QED
    BY <2>1 DEF Holds, Missing, k, n, f
<1>6. QED
  BY <1>4, <1>5

LEMMA EncoderHolds ==
  ASSUME EncodeInv
  PROVE  Holds(Encoder) /\ size \in Nat /\ Encoder.buf = buf
BY LenProperties DEF EncodeInv, EncodeTypes, Tells, Holds, Encoder

\* What ResultTells says of a call with the bytes b.
Reports(b, string) ==
  /\ res' = (IF string THEN 0 ELSE Len(b)) => buf' = buf \o b
  /\ buf' = buf \o b => res' \in {Len(b), 0}

IsString(b, means) == means.type \in {2, 3} /\ Len(b) > HeadLen(b, 0)

ResultStep ==
  LET b == LastCall'.bytes
      string == LastCall'.means.type \in {BSTR, TSTR} /\ Len(b) > HeadLen(b, 0)
  IN  /\ res' = (IF string THEN NANOCBOR_OK ELSE Len(b)) => buf' = buf \o b
      /\ buf' = buf \o b => res' \in {Len(b), NANOCBOR_OK}

LEMMA ReportsStep ==
  ASSUME EncodeInv, NEW bytes \in Seq(Int), NEW means, Asked(bytes, means),
         Reports(bytes, IsString(bytes, means))
  PROVE  ResultStep
<1>1. LastCall'.bytes = bytes /\ LastCall'.means = means
  BY WholeIs, AskedIs
<1>2. QED
  BY <1>1 DEF ResultStep, Reports, IsString, BSTR, TSTR, NANOCBOR_OK

\* An item of one piece that is no string with bytes of its own.
LEMMA CalledReports ==
  ASSUME EncodeInv, NEW bytes \in Seq(Int), NEW means, Called(bytes, means),
         ~IsString(bytes, means)
  PROVE  ResultStep
<1> DEFINE e == Emit(Encoder, bytes)
           k == Len(buf)
           n == Len(bytes)
<1>1. Asked(bytes, means) /\ buf' = e.buf /\ res' = e.res
  BY DEF Called, Encoder
<1>2. There(Encoder, e, bytes) \/ Missing(Encoder, e, bytes)
  BY EncoderHolds, EmitIs
<1>3. /\ k \in Nat /\ k <= size /\ size \in Nat /\ n \in Nat
      /\ buf \in Seq(Int) /\ Len(buf \o bytes) = k + n
  <2>1. buf \in Seq(Int) /\ k \in Nat /\ k <= size /\ size \in Nat
    BY EncoderHolds DEF Holds
  <2>2. QED
    BY <2>1, ConcatProperties, LenProperties
<1> HIDE DEF e
<1>4. CASE There(Encoder, e, bytes)
  <2>1. res' = n /\ buf' = buf \o bytes
    BY <1>1, <1>4, EncoderHolds DEF There
  <2>2. Reports(bytes, IsString(bytes, means))
    BY <2>1 DEF Reports
  <2>3. QED
    BY <1>1, <2>2, ReportsStep
<1>5. CASE Missing(Encoder, e, bytes)
  <2>1. res' = -3 /\ buf' = buf /\ size - k < n
    BY <1>1, <1>5, EncoderHolds DEF Missing
  <2>2. buf' # buf \o bytes
    <3> SUFFICES ASSUME buf' = buf \o bytes PROVE FALSE
      OBVIOUS
    <3>1. k = k + n
      BY <1>3, <2>1
    <3>2. QED
      BY <1>3, <2>1, <3>1
  <2>3. res' # n
    BY <1>3, <2>1
  <2>4. Reports(bytes, IsString(bytes, means))
    BY <2>2, <2>3 DEF Reports
  <2>5. QED
    BY <1>1, <2>4, ReportsStep
<1>6. QED
  BY <1>2, <1>4, <1>5
\* The functions of one piece: only a head may have the type of a string, and it
\* is a head and nothing else.
LEMMA OnePieceReports ==
  ASSUME EncodeInv,
         FmtBool \/ FmtNull \/ FmtIndefinite \/ FmtHead \/ FmtContainer \/ FmtInt
           \/ FmtFloat \/ FmtDouble
  PROVE  ResultStep
<1>1. Numbers \subseteq Words /\ <<>> \in Buffers
  BY NumbersAssumption, EmptySeq DEF Words
<1>2. CASE FmtBool \/ FmtNull \/ FmtIndefinite
  <2>1. PICK byte \in {FALSE_BYTE, TRUE_BYTE, NULL_BYTE, ARR * 32 + SIZE_INDEFINITE,
                       MAP * 32 + SIZE_INDEFINITE, BREAK} : Called(<<byte>>, Plain)
    BY <1>2 DEF FmtBool, FmtNull, FmtIndefinite
  <2>2. byte \in Int
    BY DEF FALSE_BYTE, TRUE_BYTE, NULL_BYTE, ARR, MAP, SIZE_INDEFINITE, BREAK
  <2>3. <<byte>> \in Seq(Int)
    BY <2>2
  <2>4. ~IsString(<<byte>>, Plain)
    BY DEF IsString, Plain
  <2>5. QED
    BY <2>1, <2>3, <2>4, CalledReports
<1>3. CASE FmtHead \/ FmtContainer
  <2>1. PICK n \in Numbers, type \in {UINT, TAG, BSTR, TSTR, ARR, MAP} :
          Called(fmt_uint64(n, type), Number(n, type))
    BY <1>3 DEF FmtHead, FmtContainer
  <2>2. type \in 0 .. 6 /\ n \in Words
    BY <1>1 DEF UINT, TAG, BSTR, TSTR, ARR, MAP
  <2> DEFINE h == fmt_uint64(n, type)
  <2>3. h \in Buffers /\ HeadLen(h \o <<>>, 0) = Len(h) /\ Len(h) \in 1 .. 9
    BY <1>1, <2>2, HeadAlone, HeadSpan
  <2> HIDE DEF h
  <2>4. h \o <<>> = h
    BY <2>3, ConcatEmptySeq
  <2>5. ~IsString(h, Number(n, type))
    BY <2>3, <2>4 DEF IsString
  <2>6. h \in Seq(Int)
    BY <2>3, BufferIs
  <2>7. QED
    BY <2>1, <2>5, <2>6, CalledReports DEF h
<1>4. CASE FmtInt
  <2>1. PICK n \in Numbers :
          Called(fmt_int(n), IF n[1] >= 128 THEN Number([i \in 1 .. 8 |-> 255 - n[i]], NINT)
                             ELSE Number(n, UINT))
    BY <1>4 DEF FmtInt
  <2> DEFINE m == IF n[1] >= 128 THEN Number([i \in 1 .. 8 |-> 255 - n[i]], NINT) ELSE Number(n, UINT)
  <2>2. m.type \in {0, 1}
    BY DEF Number, NINT, UINT
  <2>3. fmt_int(n) \in Seq(Int)
    BY <1>1, SaysInt, BufferIs
  <2> HIDE DEF m
  <2>4. ~IsString(fmt_int(n), m)
    BY <2>2 DEF IsString
  <2>5. Called(fmt_int(n), m)
    BY <2>1 DEF m
  <2>6. QED
    BY <2>3, <2>4, <2>5, CalledReports
<1>5. CASE FmtFloat \/ FmtDouble
  <2>1. PICK bytes, d : Called(bytes, Real(d)) /\ Says(bytes, Real(d))
    BY <1>5, SaysFloat, SaysDouble DEF FmtFloat, FmtDouble
  <2>2. bytes \in Seq(Int)
    BY <2>1 DEF Says
  <2>3. ~IsString(bytes, Real(d))
    BY DEF IsString, Real, FLOAT
  <2>4. QED
    BY <2>1, <2>2, <2>3, CalledReports
<1>6. QED
  BY <1>2, <1>3, <1>4, <1>5

\* nanocbor_put_bstr and its like: no string is there without its head, for one
\* that has bytes is at least as long as its head.
LEMMA PutStrReports ==
  ASSUME EncodeInv, PutStr
  PROVE  ResultStep
<1>1. PICK str \in Strings, type \in {BSTR, TSTR} :
        LET head == fmt_uint64(SmallNumber(Len(str)), type)
        IN  /\ Asked(head \o str, Number(SmallNumber(Len(str)), type))
            /\ \E h \in {Emit([buf |-> buf, len |-> len], head)} :
                 \E e \in {Emit(h, str)} :
                   buf' = e.buf /\ res' = IF e.res >= 0 THEN NANOCBOR_OK ELSE e.res
  BY DEF PutStr
<1> DEFINE l == Len(str)
           n == SmallNumber(l)
           head == fmt_uint64(n, type)
           h == Emit(Encoder, head)
           e == Emit(h, str)
           b == head \o str
           m == Number(n, type)
           k == Len(buf)
           x == Len(head)
<1>2. Asked(b, m) /\ buf' = e.buf /\ res' = IF e.res >= 0 THEN 0 ELSE e.res
  BY <1>1 DEF Encoder, NANOCBOR_OK
<1>3. str \in Buffers /\ l < 256 /\ l \in Nat
  BY StringsAssumption, LenProperties
<1>4. type \in 0 .. 6 /\ m.type \in {2, 3}
  BY DEF BSTR, TSTR, Number
<1> HIDE DEF l
<1>5. n \in Words /\ n[8] = l /\ l \in 0 .. 255
  <2>1. l \in 0 .. 255
    BY <1>3
  <2>2. SmallNumber(l) \in Words /\ SmallNumber(l)[8] = l
    BY <2>1, WordsAre DEF SmallNumber
  <2>3. QED
    BY <2>1, <2>2
<1>6. Zeros(n, 7)
  BY DEF SmallNumber, Zeros
<1> HIDE DEF n, m
<1>7. /\ head \in Buffers /\ HeadLen(b, 0) = x /\ Len(b) = x + l
      /\ x = ExtraBytes(n) + 1 /\ x \in 1 .. 9
  <2>1. head \in Buffers
    BY <1>4, <1>5, HeadAlone
  <2>2. /\ HeadLen(b, 0) = x /\ x = ExtraBytes(n) + 1 /\ x \in 1 .. 9
        /\ Len(b) = x + Len(str)
    BY <1>3, <1>4, <1>5, HeadSpan
  <2>3. QED
    BY <2>1, <2>2 DEF l
<1>8. x = IF l < 24 THEN 1 ELSE 2
  <2>1. \/ ExtraBytes(n) = 0 /\ n[8] < 24
        \/ ExtraBytes(n) = 1 /\ n[8] >= 24
    <3>1. Zeros(n, 7) => Zeros(n, 6) /\ Zeros(n, 4)
      BY DEF Zeros
    <3>2. QED
      BY <1>5, <1>6, <3>1, ExtraIs
  <2>2. QED
    BY <1>5, <1>7, <2>1
<1>9. head \in Seq(Int) /\ str \in Seq(Int) /\ b \in Seq(Int)
  <2>1. head \in Seq(Int) /\ str \in Seq(Int)
    BY <1>3, <1>7, BufferIs
  <2>2. QED
    BY <2>1, ConcatProperties
<1>10. /\ Holds(Encoder) /\ size \in Nat /\ Encoder.buf = buf
       /\ k \in Nat /\ k <= size /\ buf \in Seq(Int)
  <2>1. Holds(Encoder) /\ size \in Nat /\ Encoder.buf = buf
    BY EncoderHolds
  <2>2. QED
    BY <2>1 DEF Holds
<1> HIDE DEF head
<1>11. Holds(h) /\ (There(Encoder, h, head) \/ Missing(Encoder, h, head))
  BY <1>9, <1>10, EmitIs
<1> HIDE DEF h
<1>12. Holds(e) /\ (There(h, e, str) \/ Missing(h, e, str))
  BY <1>9, <1>10, <1>11, EmitIs
<1> HIDE DEF e
<1>13. Len(h.buf) \in Nat /\ Len(h.buf) <= size
  BY <1>11 DEF Holds
<1>14. IsString(b, m) <=> l > 0
  BY <1>3, <1>4, <1>7 DEF IsString
<1>15. Len(buf \o b) = k + (x + l)
  BY <1>7, <1>9, <1>10, ConcatProperties
<1>16. x \in Nat /\ x >= 1 /\ x <= 2
  BY <1>8
<1> HIDE DEF x, b, k
<1>17. CASE Missing(h, e, str)
  <2>1. e.res = -3 /\ buf' = h.buf /\ size - Len(h.buf) < l
    BY <1>2, <1>17 DEF Missing, l
  <2>2. res' = -3
    BY <1>2, <2>1
  <2>3. Len(h.buf) = k + x \/ Len(h.buf) = k
    BY <1>10, <1>11 DEF There, Missing, k, x
  <2>4. Len(h.buf) # k + (x + l)
    BY <1>3, <1>10, <1>13, <1>16, <2>1, <2>3
  <2>5. buf' # buf \o b
    BY <1>15, <2>1, <2>4
  <2>6. res' # 0 /\ res' # Len(b)
    BY <1>3, <1>7, <1>16, <2>2 DEF b
  <2>7. Reports(b, IsString(b, m))
    BY <2>5, <2>6 DEF Reports
  <2>8. QED
    BY <1>2, <1>9, <2>7, ReportsStep DEF b
<1>18. CASE There(h, e, str)
  <2>1. e.res = l /\ buf' = h.buf \o str /\ Len(buf') = Len(h.buf) + l /\ Len(buf') <= size
    BY <1>2, <1>12, <1>18 DEF There, Holds, l
  <2>2. res' = 0
    BY <1>2, <1>3, <2>1
  <2>3. ASSUME l > 0 PROVE buf' = buf \o b
    <3>1. CASE Missing(Encoder, h, head)
      <4>1. h.buf = buf /\ size - k < x
        BY <1>10, <3>1 DEF Missing, k, x
      <4>2. k + l <= size
        BY <2>1, <4>1 DEF k
      <4>3. QED
        BY <1>3, <1>8, <1>10, <2>3, <4>1, <4>2
    <3>2. CASE There(Encoder, h, head)
      <4>1. h.buf = buf \o head
        BY <1>10, <3>2 DEF There
      <4>2. Then(Then(buf, head), str) = Then(buf, Then(head, str))
        BY <1>9, <1>10, ThenTurned
      <4>3. QED
        BY <2>1, <4>1, <4>2 DEF Then, b
    <3>3. QED
      BY <1>11, <3>1, <3>2
  <2>4. ~(l > 0) => res' # Len(b)
    BY <1>3, <1>7, <1>16, <2>2 DEF b
  <2>5. Reports(b, IsString(b, m))
    BY <1>14, <2>2, <2>3, <2>4 DEF Reports
  <2>6. QED
    BY <1>2, <1>9, <2>5, ReportsStep DEF b
<1>19. QED
  BY <1>12, <1>17, <1>18
\* Four pieces of which one is missing are shorter than the four together, and
\* the sum of their results is too.
LEMMA FourResults ==
  ASSUME NEW k \in Nat, NEW z \in Nat, k <= z,
         NEW n1 \in Nat, NEW n2 \in Nat, NEW n3 \in Nat, NEW n4 \in Nat,
         NEW r1, NEW r2, NEW r3, NEW r4, NEW k1 \in Nat, NEW k2 \in Nat, NEW k3 \in Nat, NEW k4 \in Nat,
         k1 <= z, k2 <= z, k3 <= z,
         (r1 = n1 /\ k1 = k + n1) \/ (r1 = -3 /\ k1 = k /\ z - k < n1),
         (r2 = n2 /\ k2 = k1 + n2) \/ (r2 = -3 /\ k2 = k1 /\ z - k1 < n2),
         (r3 = n3 /\ k3 = k2 + n3) \/ (r3 = -3 /\ k3 = k2 /\ z - k2 < n3),
         (r4 = n4 /\ k4 = k3 + n4) \/ (r4 = -3 /\ k4 = k3 /\ z - k3 < n4)
  PROVE  \/ r1 = n1 /\ r2 = n2 /\ r3 = n3 /\ r4 = n4
         \/ /\ r1 + r2 + r3 + r4 # n1 + (n2 + n3 + n4)
            /\ k4 # k + (n1 + (n2 + n3 + n4))
OBVIOUS

\* nanocbor_fmt_decimal_frac: the sum of the results is the length of the item
\* exactly when none of its four pieces is missing.
LEMMA DecimalFracReports ==
  ASSUME EncodeInv, FmtDecimalFrac
  PROVE  ResultStep
<1> DEFINE n == SmallNumber(TAG_DEC_FRAC)
           tag == fmt_uint64(n, TAG)
           arr == fmt_uint64(SmallNumber(2), ARR)
<1>1. PICK x \in Numbers, m \in Numbers :
        /\ Asked(tag \o (arr \o fmt_int(x) \o fmt_int(m)), Number(n, TAG))
        /\ \E a \in {Emit([buf |-> buf, len |-> len], tag)} :
           \E b \in {Emit(a, arr)} :
           \E c \in {Emit(b, fmt_int(x))} :
           \E e \in {Emit(c, fmt_int(m))} : buf' = e.buf /\ res' = a.res + b.res + c.res + e.res
  BY DEF FmtDecimalFrac
<1> DEFINE i == fmt_int(x)
           j == fmt_int(m)
           rest == (arr \o i) \o j
           a == Emit(Encoder, tag)
           b == Emit(a, arr)
           c == Emit(b, i)
           e == Emit(c, j)
           w == tag \o rest
           mean == Number(n, TAG)
<1>2. Asked(w, mean) /\ buf' = e.buf /\ res' = a.res + b.res + c.res + e.res
  BY <1>1 DEF Encoder
<1>3. n \in Words /\ SmallNumber(2) \in Words /\ x \in Words /\ m \in Words
  <2>1. TAG_DEC_FRAC \in 0 .. 255 /\ 2 \in 0 .. 255
    BY DEF TAG_DEC_FRAC
  <2>2. x \in Words /\ m \in Words
    BY NumbersAssumption DEF Words
  <2>3. QED
    BY <2>1, <2>2, WordsAre
<1>4. TAG \in 0 .. 6 /\ ARR \in 0 .. 6 /\ mean.type = 6
  BY DEF TAG, ARR, Number
<1>5. arr \in Buffers /\ i \in Buffers /\ j \in Buffers /\ tag \in Buffers
  BY <1>3, <1>4, HeadAlone, SaysInt
<1> HIDE DEF i, j, arr, tag, mean, n
<1>6. arr \in Seq(Int) /\ i \in Seq(Int) /\ j \in Seq(Int) /\ tag \in Seq(Int)
  BY <1>5, BufferIs
<1>7. ~IsString(w, mean)
  BY <1>4 DEF IsString
<1>8. Holds(Encoder) /\ size \in Nat /\ Encoder.buf = buf
  BY EncoderHolds
<1>9. Holds(a) /\ (There(Encoder, a, tag) \/ Missing(Encoder, a, tag))
  BY <1>6, <1>8, EmitIs
<1> HIDE DEF a
<1>10. Holds(b) /\ (There(a, b, arr) \/ Missing(a, b, arr))
  BY <1>6, <1>8, <1>9, EmitIs
<1> HIDE DEF b
<1>11. Holds(c) /\ (There(b, c, i) \/ Missing(b, c, i))
  BY <1>6, <1>8, <1>10, EmitIs
<1> HIDE DEF c
<1>12. Holds(e) /\ (There(c, e, j) \/ Missing(c, e, j))
  BY <1>6, <1>8, <1>11, EmitIs
<1> HIDE DEF e
<1> DEFINE n1 == Len(tag)
           n2 == Len(arr)
           n3 == Len(i)
           n4 == Len(j)
<1>13. n1 \in Nat /\ n2 \in Nat /\ n3 \in Nat /\ n4 \in Nat
  BY <1>6, LenProperties
<1>14. w \in Seq(Int) /\ Len(w) = n1 + (n2 + n3 + n4)
  <2>1. arr \o i \in Seq(Int) /\ Len(arr \o i) = n2 + n3
    BY <1>6, ConcatProperties
  <2> DEFINE q == arr \o i
  <2> HIDE DEF q
  <2>2. q \o j \in Seq(Int) /\ Len(q \o j) = (n2 + n3) + n4
    BY <1>6, <2>1, ConcatProperties DEF q
  <2>3. rest \in Seq(Int) /\ Len(rest) = n2 + n3 + n4
    BY <2>2 DEF q
  <2> HIDE DEF rest
  <2>4. tag \o rest \in Seq(Int) /\ Len(tag \o rest) = Len(tag) + Len(rest)
    BY <1>6, <2>3, ConcatProperties
  <2>5. QED
    BY <2>3, <2>4
<1>15. Len(buf \o w) = Len(buf) + (n1 + (n2 + n3 + n4))
  <2>1. buf \in Seq(Int)
    BY <1>8 DEF Holds
  <2> HIDE DEF w
  <2>2. Len(buf \o w) = Len(buf) + Len(w)
    BY <1>14, <2>1, ConcatProperties
  <2>3. QED
    BY <1>14, <2>2
<1> DEFINE k == Len(buf)
           k1 == Len(a.buf)
           k2 == Len(b.buf)
           k3 == Len(c.buf)
           k4 == Len(e.buf)
<1>16. /\ k \in Nat /\ k <= size /\ k1 \in Nat /\ k1 <= size /\ k2 \in Nat /\ k2 <= size
       /\ k3 \in Nat /\ k3 <= size /\ k4 \in Nat
  BY <1>8, <1>9, <1>10, <1>11, <1>12 DEF Holds
<1>17. /\ (a.res = n1 /\ k1 = k + n1) \/ (a.res = -3 /\ k1 = k /\ size - k < n1)
       /\ (b.res = n2 /\ k2 = k1 + n2) \/ (b.res = -3 /\ k2 = k1 /\ size - k1 < n2)
       /\ (c.res = n3 /\ k3 = k2 + n3) \/ (c.res = -3 /\ k3 = k2 /\ size - k2 < n3)
       /\ (e.res = n4 /\ k4 = k3 + n4) \/ (e.res = -3 /\ k4 = k3 /\ size - k3 < n4)
  BY <1>8, <1>9, <1>10, <1>11, <1>12 DEF There, Missing
<1> HIDE DEF n1, n2, n3, n4, k, k1, k2, k3, k4
<1>18. \/ a.res = n1 /\ b.res = n2 /\ c.res = n3 /\ e.res = n4
       \/ /\ a.res + b.res + c.res + e.res # n1 + (n2 + n3 + n4)
          /\ k4 # k + (n1 + (n2 + n3 + n4))
  BY <1>8, <1>13, <1>16, <1>17, FourResults
<1>19. CASE a.res = n1 /\ b.res = n2 /\ c.res = n3 /\ e.res = n4
  <2>1. n1 # -3 /\ n2 # -3 /\ n3 # -3 /\ n4 # -3
    BY <1>13
  <2>2. a.buf = buf \o tag /\ b.buf = a.buf \o arr /\ c.buf = b.buf \o i /\ e.buf = c.buf \o j
    BY <1>8, <1>9, <1>10, <1>11, <1>12, <1>19, <2>1 DEF There, Missing
  <2>3. buf \in Seq(Int)
    BY <1>8 DEF Holds
  <2>4. InTurn(buf, tag, arr, i, j)
    BY <1>6, <2>3, FourPieces
  <2>5. buf' = buf \o w
    BY <1>2, <2>2, <2>4 DEF InTurn
  <2>6. res' = Len(w)
    <3>1. res' = n1 + n2 + n3 + n4
      BY <1>2, <1>19
    <3> DEFINE z == Len(w)
    <3>2. z = n1 + (n2 + n3 + n4)
      BY <1>14
    <3> HIDE DEF z
    <3>3. res' = z
      BY <1>13, <3>1, <3>2
    <3>4. QED
      BY <3>3 DEF z
  <2> HIDE DEF w
  <2>7. Reports(w, IsString(w, mean))
    BY <2>5, <2>6 DEF Reports
  <2>8. QED
    BY <1>2, <1>14, <2>7, ReportsStep
<1>20. CASE /\ a.res + b.res + c.res + e.res # n1 + (n2 + n3 + n4)
            /\ k4 # k + (n1 + (n2 + n3 + n4))
  <2> HIDE DEF w
  <2>1. res' # Len(w)
    BY <1>2, <1>14, <1>20
  <2>2. buf' # buf \o w
    BY <1>2, <1>15, <1>20 DEF k4, k
  <2>3. Reports(w, IsString(w, mean))
    BY <1>7, <2>1, <2>2 DEF Reports
  <2>4. QED
    BY <1>2, <1>14, <2>3, ReportsStep
<1>21. QED
  BY <1>18, <1>19, <1>20

\* A call of the encoder that reports its whole item has written it, for buffers
\* of any size: neither the heads of strings, whose results are dropped, nor the
\* sum of four results in a decimal fraction hide a missing piece as a whole item
\* (encoder.c:133-163, :350-357).
THEOREM ResultsTell == EncodeSpec => ResultTells
<1>1. EncodeInv /\ [EncodeNext]_encode_vars => [ResultStep]_encode_vars
  BY OnePieceReports, PutStrReports, DecimalFracReports DEF EncodeNext
<1>2. ResultTells <=> [][ResultStep]_encode_vars
  BY DEF ResultTells, ResultStep
<1>3. QED
  BY <1>1, <1>2, EncodeInductive, PTL DEF EncodeSpec
=============================================================================
