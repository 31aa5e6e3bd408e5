------------------------------ MODULE Nanocbor ------------------------------
(***************************************************************************)
(* The CBOR decoder of src/c/cardano/nanocbor/decoder.c as operators on a  *)
(* buffer d (a sequence of bytes) and an iterator it (nanocbor_value_t:    *)
(* cur and end are offsets into d from 0, flags one of FLAGS).  An         *)
(* operation that moves the iterator returns it beside its result code.    *)
(*                                                                         *)
(* Numbers.  TLC's integers have 32 bits, a CBOR head holds up to 64.  A   *)
(* head's value is exact below 2^30; BIG stands for 2^30 .. 2^31 - 1, HUGE *)
(* for larger ones, and the last 256 values of 64 bits are the negative    *)
(* numbers they are in two's complement, which is where a length plus the  *)
(* bytes of its head wraps round.                                          *)
(*                                                                         *)
(* Loops.  A loop of the decoder is a recursive function that holds its    *)
(* state after each round, up to a number of rounds that the bytes of the  *)
(* buffer bound.  Only a string whose length wraps to no bytes at all may  *)
(* take more, and the loop over it may never end: ENDLESS is returned for  *)
(* it, which is no code of the decoder.                                    *)
(***************************************************************************)
EXTENDS Integers, SequencesExt

(* nanocbor_error_t *)
NANOCBOR_OK == 0
NANOCBOR_ERR_OVERFLOW == -1
NANOCBOR_ERR_INVALID_TYPE == -2
NANOCBOR_ERR_END == -3
NANOCBOR_ERR_RECURSION == -4
NANOCBOR_NOT_FOUND == -5
ENDLESS == -6

(* The major types, the size codes, and the bytes with a name. *)
UINT == 0
NINT == 1
BSTR == 2
TSTR == 3
ARR == 4
MAP == 5
TAG == 6
FLOAT == 7

SIZE_BYTE == 24
SIZE_SHORT == 25
SIZE_WORD == 26
SIZE_LONG == 27
SIZE_INDEFINITE == 31

FALSE_BYTE == 244
TRUE_BYTE == 245
NULL_BYTE == 246
BREAK == 255
TAG_DEC_FRAC == 4

NANOCBOR_RECURSION_MAX == 10

BIG == 1024 * 1024 * 1024
HUGE == BIG + 1

FLAGS == {"none", "container", "indefinite"}

(***************************************************************************)
(* Reading heads                                                           *)
(***************************************************************************)
Byte(d, i) == d[i + 1]

decoder_init(d) == [cur |-> 0, end |-> Len(d), remaining |-> 0, flags |-> "none"]

OverEnd(it) == it.cur >= it.end

\* remaining is a uint32_t: it wraps below zero.
Advance(it, n) ==
  [it EXCEPT !.cur = @ + n, !.remaining = IF @ = 0 THEN HUGE ELSE @ - 1]

AdvanceIf(it, res) == IF res > 0 THEN Advance(it, res) ELSE it

at_end(d, it) ==
  \/ OverEnd(it)
  \/ it.flags = "indefinite" /\ ~OverEnd(it) /\ Byte(d, it.cur) = BREAK
  \/ it.flags = "container" /\ it.remaining = 0

get_type(d, it) ==
  IF at_end(d, it) THEN NANOCBOR_ERR_END ELSE Byte(d, it.cur) \div 32

\* The number in the four, the eight or the n bytes from i, most significant
\* first.
WordAt(d, i) ==
  IF Byte(d, i) >= 128 THEN HUGE
  ELSE IF Byte(d, i) >= 64 THEN BIG
  ELSE ((Byte(d, i) * 256 + Byte(d, i + 1)) * 256 + Byte(d, i + 2)) * 256
         + Byte(d, i + 3)

LongAt(d, i) ==
  IF \A k \in 0 .. 3 : Byte(d, i + k) = 0 THEN WordAt(d, i + 4)
  ELSE IF \A k \in 0 .. 6 : Byte(d, i + k) = 255 THEN Byte(d, i + 7) - 256
  ELSE HUGE

NumberAt(d, i, n) ==
  CASE n = 1 -> Byte(d, i)
    [] n = 2 -> Byte(d, i) * 256 + Byte(d, i + 1)
    [] n = 4 -> WordAt(d, i)
    [] n = 8 -> LongAt(d, i)

\* The bytes of the number behind a head, for each size code.
NumberLen(size) ==
  CASE size = SIZE_BYTE -> 1
    [] size = SIZE_SHORT -> 2
    [] size = SIZE_WORD -> 4
    [] size = SIZE_LONG -> 8

\* _get_uint64: the length of the head, or an error, and the number in it (0
\* where the callers initialised it and an error leaves it alone).
get_uint64(d, it, max, type) ==
  LET Error(e) == [res |-> e, value |-> 0]
      Sized(bytes) == IF it.cur + bytes >= it.end THEN Error(NANOCBOR_ERR_END)
                      ELSE [res |-> 1 + bytes, value |-> NumberAt(d, it.cur + 1, bytes)]
      Info(size) == IF size < SIZE_BYTE THEN [res |-> 1, value |-> size]
                    ELSE IF size > max THEN Error(NANOCBOR_ERR_OVERFLOW)
                    ELSE Sized(NumberLen(size))
      Typed(ctype) == IF ctype < 0 THEN Error(ctype)
                      ELSE IF type # ctype THEN Error(NANOCBOR_ERR_INVALID_TYPE)
                      ELSE Info(Byte(d, it.cur) % 32)
  IN  Typed(get_type(d, it))

(***************************************************************************)
(* Numbers, tags, simple values                                            *)
(***************************************************************************)
\* nanocbor_get_uint8, _uint16 and _uint32, told apart by the largest size.
get_uint(d, it, max) ==
  LET h == get_uint64(d, it, max, UINT)
  IN  [res |-> h.res, it |-> AdvanceIf(it, h.res), value |-> h.value]

\* nanocbor_get_int8, _int16 and _int32: the bound is on the head's number.
IntBound(max) ==
  CASE max = SIZE_BYTE -> 127
    [] max = SIZE_SHORT -> 32767
    [] max = SIZE_WORD -> BIG

get_int(d, it, max) ==
  LET Code(type, h) == IF type < 0 THEN type
                       ELSE IF type \notin {UINT, NINT} THEN NANOCBOR_ERR_INVALID_TYPE
                       ELSE IF h.value > IntBound(max) THEN NANOCBOR_ERR_OVERFLOW
                       ELSE h.res
      Number(type, h, res) ==
        [res |-> res, it |-> AdvanceIf(it, res),
         value |-> IF type = NINT THEN -h.value - 1
                   ELSE IF type = UINT THEN h.value
                   ELSE 0]
      Typed(type, h) == Number(type, h, Code(type, h))
  IN  Typed(get_type(d, it), get_uint64(d, it, max, get_type(d, it)))

\* A tag is not counted among the items of its container.
get_tag(d, it) ==
  LET h == get_uint64(d, it, SIZE_WORD, TAG)
  IN  IF h.res < 0 THEN [res |-> h.res, it |-> it, value |-> 0]
      ELSE [res |-> NANOCBOR_OK, it |-> [it EXCEPT !.cur = @ + h.res],
            value |-> h.value]

\* Mutant: the item is not counted.
value_match_uncounted(d, it, byte) ==
  IF OverEnd(it) THEN [res |-> NANOCBOR_ERR_END, it |-> it]
  ELSE IF Byte(d, it.cur) = byte
  THEN [res |-> NANOCBOR_OK, it |-> [it EXCEPT !.cur = @ + 1]]
  ELSE [res |-> NANOCBOR_ERR_INVALID_TYPE, it |-> it]

value_match_exact(d, it, byte) ==
  IF OverEnd(it) THEN [res |-> NANOCBOR_ERR_END, it |-> it]
  ELSE IF Byte(d, it.cur) = byte
  THEN [res |-> NANOCBOR_OK, it |-> Advance(it, 1)]
  ELSE [res |-> NANOCBOR_ERR_INVALID_TYPE, it |-> it]

get_null(d, it) == value_match_exact(d, it, NULL_BYTE)

get_bool(d, it) ==
  LET f == value_match_exact(d, it, FALSE_BYTE)
  IN  IF f.res < 0 THEN value_match_exact(d, it, TRUE_BYTE) ELSE f

(***************************************************************************)
(* Strings.  *len + res is computed in size_t: with an error (res < 0, len  *)
(* 0) it is huge, with a length just under 2^64 it wraps to a few bytes.    *)
(* On an error the length stays written and the buffer pointer does not.    *)
(***************************************************************************)
\* Mutant: the head's own bytes are forgotten.
StrFitsLong(it, len, res) ==
  it.end >= it.cur /\ res > 0 /\ len \in 0 .. it.end - it.cur

StrFits(it, len, res) ==
  it.end >= it.cur /\ len + res \in 0 .. it.end - it.cur

get_str(d, it, type) ==
  LET Str(h) ==
        IF StrFits(it, h.value, h.res)
        THEN [res |-> NANOCBOR_OK, it |-> Advance(it, h.res + h.value),
              buf |-> it.cur + h.res, len |-> h.value]
        ELSE [res |-> NANOCBOR_ERR_END, it |-> it, buf |-> -1, len |-> h.value]
  IN  Str(get_uint64(d, it, SIZE_LONG, type))

get_bstr(d, it) == get_str(d, it, BSTR)
get_tstr(d, it) == get_str(d, it, TSTR)

(***************************************************************************)
(* Containers                                                              *)
(***************************************************************************)
enter_container(d, it, type) ==
  LET Inside(n, count, flags) ==
        [res |-> NANOCBOR_OK,
         it |-> [cur |-> it.cur + n, end |-> it.end, remaining |-> count,
                 flags |-> flags]]
      Definite(h) == IF h.res < 0 THEN [res |-> h.res, it |-> it]
                     ELSE Inside(h.res, h.value, "container")
  IN  IF ~OverEnd(it) /\ Byte(d, it.cur) = type * 32 + SIZE_INDEFINITE
      THEN Inside(1, 0, "indefinite")
      ELSE Definite(get_uint64(d, it, SIZE_WORD, type))

enter_array(d, it) == enter_container(d, it, ARR)

\* A map holds twice as many items as pairs, and more than UINT32_MAX / 2
\* pairs are refused.
enter_map(d, it) ==
  LET Doubled(c) ==
        IF c.res < 0 THEN c
        ELSE IF c.it.remaining = HUGE THEN [c EXCEPT !.res = NANOCBOR_ERR_OVERFLOW]
        ELSE [c EXCEPT !.it.remaining = IF @ = BIG THEN BIG ELSE @ * 2]
  IN  Doubled(enter_container(d, it, MAP))

\* Mutant: the break byte is left to the parent.
leave_before_break(it, container) ==
  [it EXCEPT !.remaining = IF @ = 0 THEN 0 ELSE @ - 1, !.cur = container.cur]

\* An indefinite container ends in a break byte, which is stepped over whether
\* or not it is there.
leave_container(it, container) ==
  [it EXCEPT !.remaining = IF @ = 0 THEN 0 ELSE @ - 1,
             !.cur = IF container.flags = "indefinite" THEN container.cur + 1
                     ELSE container.cur]

get_decimal_frac(d, it) ==
  LET Left(tag, i, res) == [res |-> IF res < 0 THEN res ELSE NANOCBOR_OK,
                            it |-> leave_container(tag.it, i)]
      Mantissa(tag, m) == Left(tag, m.it, m.res)
      Exponent(tag, e) == IF e.res < 0 THEN Left(tag, e.it, e.res)
                          ELSE Mantissa(tag, get_int(d, e.it, SIZE_WORD))
      Array(tag, arr) ==
        IF tag.value # TAG_DEC_FRAC \/ arr.res # NANOCBOR_OK
        THEN [res |-> NANOCBOR_NOT_FOUND, it |-> tag.it]
        ELSE Exponent(tag, get_int(d, arr.it, SIZE_WORD))
      Tagged(tag) ==
        IF tag.res # NANOCBOR_OK THEN [res |-> NANOCBOR_NOT_FOUND, it |-> it]
        ELSE Array(tag, enter_array(d, tag.it))
  IN  Tagged(get_tag(d, it))

(***************************************************************************)
(* Skipping.  A failing item ends the loop over its container, and the     *)
(* container is left where the failure happened.                           *)
(***************************************************************************)
skip_simple(d, it) ==
  LET Simple(h) == [res |-> h.res, it |-> AdvanceIf(it, h.res)]
  IN  Simple(get_uint64(d, it, SIZE_LONG, get_type(d, it)))

\* The iterators of the nested calls of _skip_limited are a stack, the first
\* one the caller's.  Mutant: the limit counts double.
TooDeepLate(levels) == Len(levels) > 2 * NANOCBOR_RECURSION_MAX

TooDeep(levels) == Len(levels) > NANOCBOR_RECURSION_MAX

\* The innermost container is left: its parent goes on behind it.
Returned(levels) ==
  Append(Front(Front(levels)), leave_container(Last(Front(levels)), Last(levels)))

\* The innermost call enters a container, steps over an item, leaves its
\* container or fails.
skip_step(d, levels) ==
  LET it == Last(levels)
      Fail(e) == [res |-> e, levels |-> levels]
      Inside(c) == IF c.res < 0 THEN Fail(c.res)
                   ELSE [res |-> c.res, levels |-> Append(levels, c.it)]
      Over(i) == [res |-> i.res, levels |-> Append(Front(levels), i.it)]
      Item(type) ==
        CASE type < 0 -> Fail(type)
          [] type = MAP -> Inside(enter_map(d, it))
          [] type = ARR -> Inside(enter_array(d, it))
          [] type \in {BSTR, TSTR} -> Over(get_str(d, it, type))
          [] OTHER -> Over(skip_simple(d, it))
  IN  IF Len(levels) > 1 /\ at_end(d, it)
      THEN [res |-> NANOCBOR_OK, levels |-> Returned(levels)]
      ELSE IF TooDeep(levels) THEN Fail(NANOCBOR_ERR_RECURSION)
      ELSE Item(get_type(d, it))

\* The loop goes on until the outermost call is the only one left.
skip_round(d, s) ==
  IF Len(s.levels) = 1 THEN s
  ELSE IF s.res < 0 THEN [s EXCEPT !.levels = Returned(s.levels)]
  ELSE skip_step(d, s.levels)

\* Every item and every container is entered, and left, at a byte of its own.
SkipRounds(d) == 2 * Len(d)

skip_limited(d, it) ==
  LET after[n \in 0 .. SkipRounds(d)] ==
        IF n = 0 THEN skip_step(d, <<it>>) ELSE skip_round(d, after[n - 1])
  IN  after

skip(d, it) ==
  LET Done(s) == [res |-> IF s.res < 0 THEN s.res ELSE NANOCBOR_OK,
                  it |-> Head(s.levels)]
      Over(s) == Len(s.levels) = 1
      Final(after) ==
        IF \E n \in DOMAIN after : Over(after[n])
        THEN Done(after[CHOOSE n \in DOMAIN after : Over(after[n])])
        ELSE [res |-> ENDLESS, it |-> it]
  IN  Final(skip_limited(d, it))

get_subcbor(d, it) ==
  LET Slice(s) == [res |-> s.res, it |-> s.it, buf |-> it.cur,
                   len |-> s.it.cur - it.cur]
  IN  Slice(skip(d, it))

(***************************************************************************)
(* nanocbor_get_key_tstr: key is the sequence of the key's bytes.          *)
(***************************************************************************)
\* Mutant: a longer key that begins with the one looked for is taken for it.
SameKeyPrefix(d, s, key) == SubSeq(d, s.buf + 1, s.buf + Len(key)) = key

\* The string s just read is the key.
SameKey(d, s, key) ==
  s.len = Len(key) /\ SubSeq(d, s.buf + 1, s.buf + s.len) = key

\* One turn of the loop over the keys: s.more as long as it goes on.
key_round(d, key, s) ==
  LET Stop(res, i) == [res |-> res, it |-> i, more |-> FALSE]
      Value(v) == IF v.res < 0 THEN Stop(v.res, v.it)
                  ELSE [res |-> v.res, it |-> v.it, more |-> TRUE]
      Key(str) == IF str.res < 0 THEN Stop(str.res, str.it)
                  ELSE IF SameKey(d, str, key) THEN Stop(NANOCBOR_OK, str.it)
                  ELSE Value(skip(d, str.it))
  IN  IF ~s.more THEN s
      ELSE IF at_end(d, s.it) THEN Stop(s.res, s.it)
      ELSE Key(get_tstr(d, s.it))

\* Every key is at a byte of its own, and one more round finds the end.
KeyRounds(d) == Len(d) + 1

key_loop(d, it, key) ==
  LET after[n \in 0 .. KeyRounds(d)] ==
        IF n = 0 THEN [res |-> NANOCBOR_NOT_FOUND, it |-> it, more |-> TRUE]
        ELSE key_round(d, key, after[n - 1])
  IN  after

\* What a loop over keys ends with.
Stopped(after, it) ==
  LET Done(s) == [res |-> s.res, it |-> s.it]
  IN  IF \E n \in DOMAIN after : ~after[n].more
      THEN Done(after[CHOOSE n \in DOMAIN after : ~after[n].more])
      ELSE [res |-> ENDLESS, it |-> it]

get_key_tstr(d, it, key) == Stopped(key_loop(d, it, key), it)
=============================================================================
