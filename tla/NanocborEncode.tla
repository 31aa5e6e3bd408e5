--------------------------- MODULE NanocborEncode ---------------------------
(***************************************************************************)
(* The CBOR encoder of src/c/cardano/nanocbor/encoder.c writing into a     *)
(* buffer of limited size: one action per function of nanocbor.h.  len     *)
(* counts every byte asked for, cur moves only over the bytes written.     *)
(*                                                                         *)
(* A 64-bit number is the sequence of its eight bytes, most significant    *)
(* first, so nothing is lost of its width.  A float is its sign, exponent  *)
(* and fraction; of a double's fraction the first 23 bits are kept apart   *)
(* from the last 29.                                                       *)
(***************************************************************************)
EXTENDS CborItem

CONSTANTS
  Sizes,     \* the buffers' sizes
  Numbers,   \* 64-bit numbers
  Strings,   \* sequences of bytes
  Floats,    \* [sign, exp, frac]
  Doubles,   \* [sign, exp, frac, low]
  MaxCalls   \* bound: the calls made on one buffer

(* The values of bits. *)
Bit10 == 1024
Bit11 == 2048
Bit13 == 8192
Bit15 == 32768
Bit16 == 65536
Bit19 == 524288
Bit23 == 8388608
Bit24 == 16777216
Bit29 == 536870912

ASSUME SizesAssumption == Sizes \subseteq Nat

ASSUME NumbersAssumption == Numbers \subseteq [1 .. 8 -> 0 .. 255]

\* The length of a string is written in one byte or in the head itself.
ASSUME StringsAssumption ==
  \A str \in Strings : str \in Seq(0 .. 255) /\ Len(str) < 256

ASSUME FloatsAssumption ==
  Floats \subseteq [sign : 0 .. 1, exp : 0 .. 255, frac : 0 .. Bit23 - 1]

ASSUME DoublesAssumption ==
  Doubles \subseteq [sign : 0 .. 1, exp : 0 .. 2047, frac : 0 .. Bit23 - 1,
                     low : 0 .. Bit29 - 1]

VARIABLES
  size,   \* the buffer's size
  buf,    \* what was written: cur is Len(buf)
  len,    \* enc->len
  calls,  \* the items asked for: the bytes of each and what it means
  res     \* the last result

encode_vars == <<size, buf, len, calls, res>>

EncodeInit ==
  /\ size \in Sizes
  /\ buf = <<>>
  /\ len = 0
  /\ calls = <<>>
  /\ res = NANOCBOR_OK

(***************************************************************************)
(* An encoder e is [buf, len]; every function returns the encoder and its  *)
(* result.                                                                 *)
(***************************************************************************)
\* Mutant: the length stays when the bytes do not fit.
FitsCounted(e, n) == IF size - Len(e.buf) >= n THEN e.len + n ELSE e.len

\* _fits: the length that is counted, whether or not the bytes fit.
Counted(e, n) == e.len + n

Room(e, n) == size - Len(e.buf) >= n

\* Mutant: the number of bytes is the result whether or not they fit.
EmitUnseen(e, bytes) ==
  IF Room(e, Len(bytes))
  THEN [buf |-> e.buf \o bytes, len |-> Counted(e, Len(bytes)), res |-> Len(bytes)]
  ELSE [buf |-> e.buf, len |-> Counted(e, Len(bytes)), res |-> Len(bytes)]

\* _fits and the writing of the bytes, all of them or none.
Emit(e, bytes) ==
  IF Room(e, Len(bytes))
  THEN [buf |-> e.buf \o bytes, len |-> Counted(e, Len(bytes)), res |-> Len(bytes)]
  ELSE [buf |-> e.buf, len |-> Counted(e, Len(bytes)), res |-> NANOCBOR_ERR_END]

Zeros(n, k) == \A i \in 1 .. k : n[i] = 0

\* Mutant: 24 is written in the head itself.
ExtraBytesLate(n) ==
  CASE Zeros(n, 7) /\ n[8] <= SIZE_BYTE -> 0
    [] Zeros(n, 7) /\ n[8] > SIZE_BYTE -> 1
    [] Zeros(n, 6) /\ ~Zeros(n, 7) -> 2
    [] Zeros(n, 4) /\ ~Zeros(n, 6) -> 4
    [] OTHER -> 8

\* The bytes behind a head for the number n: the fewest that hold it.
ExtraBytes(n) ==
  CASE Zeros(n, 7) /\ n[8] < SIZE_BYTE -> 0
    [] Zeros(n, 7) /\ n[8] >= SIZE_BYTE -> 1
    [] Zeros(n, 6) /\ ~Zeros(n, 7) -> 2
    [] Zeros(n, 4) /\ ~Zeros(n, 6) -> 4
    [] OTHER -> 8

\* _fmt_uint64: the bytes of a head
fmt_uint64(n, type) ==
  LET info(x) == CASE x = 0 -> n[8] [] x = 1 -> SIZE_BYTE [] x = 2 -> SIZE_SHORT
                   [] x = 4 -> SIZE_WORD [] x = 8 -> SIZE_LONG
  IN  <<type * 32 + info(ExtraBytes(n))>> \o SubSeq(n, 9 - ExtraBytes(n), 8)

SmallNumber(k) == <<0, 0, 0, 0, 0, 0, 0, k>>

\* nanocbor_fmt_int: -(num + 1) turns the bits of a negative number round.
fmt_int(n) ==
  IF n[1] >= 128 THEN fmt_uint64([i \in 1 .. 8 |-> 255 - n[i]], NINT) ELSE fmt_uint64(n, UINT)

\* _single_in_range: a half float has five bits of exponent, ten of fraction.
InHalfRange(f) == f.exp <= 15 + 127 /\ f.exp >= 127 - 15 + 1 /\ f.frac % Bit13 = 0

InHalf(f) == f.exp = 255 \/ (f.exp = 0 /\ f.frac = 0) \/ InHalfRange(f)

\* Mutant: the exponent is cut off, not moved.
HalfExpCut(exp) == exp % 32

HalfExp(exp) == IF exp \notin {0, 255} THEN ((exp + 256 + 15 - 127) % 256) % 32 ELSE exp % 32

\* nanocbor_fmt_float
FloatBytes(f) ==
  IF InHalf(f)
  THEN LET half == f.sign * Bit15 + HalfExp(f.exp) * Bit10 + f.frac \div Bit13
       IN  <<FLOAT * 32 + SIZE_SHORT, half \div 256, half % 256>>
  ELSE <<FLOAT * 32 + SIZE_WORD, f.sign * 128 + f.exp \div 2,
         (f.exp % 2) * 128 + f.frac \div Bit16, (f.frac \div 256) % 256, f.frac % 256>>

InSingleRange(d) == d.exp <= 1023 + 127 /\ d.exp >= 1023 - 127 + 1 /\ d.low = 0

InSingle(d) ==
  \/ d.exp = 2047
  \/ d.exp = 0 /\ d.frac = 0 /\ d.low = 0
  \/ InSingleRange(d)

SingleExp(exp) == IF exp \notin {0, 2047} THEN (exp + 127 - 1023) % 256 ELSE exp % 256

\* nanocbor_fmt_double: the low bits of a double that is narrowed are dropped.
DoubleBytes(d) ==
  IF InSingle(d)
  THEN FloatBytes([sign |-> d.sign, exp |-> SingleExp(d.exp), frac |-> d.frac])
  ELSE <<FLOAT * 32 + SIZE_LONG, d.sign * 128 + d.exp \div 16,
         (d.exp % 16) * 16 + d.frac \div Bit19, (d.frac \div Bit11) % 256,
         (d.frac \div 8) % 256, (d.frac % 8) * 32 + d.low \div Bit24,
         (d.low \div Bit16) % 256, (d.low \div 256) % 256, d.low % 256>>

(***************************************************************************)
(* The functions                                                           *)
(***************************************************************************)
Asked(bytes, means) ==
  /\ Len(calls) < MaxCalls
  /\ calls' = Append(calls, [bytes |-> bytes, means |-> means])
  /\ UNCHANGED size

\* What a head or a float means; nothing for the other items.
Number(n, type) == [type |-> type, value |-> n]
Real(d) == [type |-> FLOAT, value |-> d]
Plain == [type |-> -1, value |-> 0]

\* One item of these bytes, written in one piece.
Called(bytes, means) ==
  /\ Asked(bytes, means)
  /\ \E e \in {Emit([buf |-> buf, len |-> len], bytes)} :
       buf' = e.buf /\ len' = e.len /\ res' = e.res

FmtBool == \E byte \in {FALSE_BYTE, TRUE_BYTE} : Called(<<byte>>, Plain)

FmtNull == Called(<<NULL_BYTE>>, Plain)

FmtIndefinite ==
  \E byte \in {ARR * 32 + SIZE_INDEFINITE, MAP * 32 + SIZE_INDEFINITE, BREAK} : Called(<<byte>>, Plain)

\* nanocbor_fmt_uint, _tag, _bstr and _tstr
FmtHead ==
  \E n \in Numbers, type \in {UINT, TAG, BSTR, TSTR} :
    Called(fmt_uint64(n, type), Number(n, type))

\* nanocbor_fmt_array and _map
FmtContainer ==
  \E n \in Numbers, type \in {ARR, MAP} :
    Called(fmt_uint64(n, type), Number(n, type))

\* nanocbor_fmt_int of a signed number: -1 - n is what a negative head holds.
FmtInt ==
  \E n \in Numbers :
    Called(fmt_int(n), IF n[1] >= 128 THEN Number([i \in 1 .. 8 |-> 255 - n[i]], NINT)
                       ELSE Number(n, UINT))

\* A float as the double it is.
Widened(f) ==
  [sign |-> f.sign, frac |-> f.frac, low |-> 0,
   exp |-> CASE f.exp = 255 -> 2047 [] f.exp = 0 -> 0
             [] OTHER -> f.exp - 127 + 1023]

FmtFloat == \E f \in Floats : Called(FloatBytes(f), Real(Widened(f)))

FmtDouble == \E d \in Doubles : Called(DoubleBytes(d), Real(d))

\* nanocbor_put_bstr, _tstr and _tstrn: the result of the head is not looked at.
PutStr ==
  \E str \in Strings, type \in {BSTR, TSTR} :
    LET head == fmt_uint64(SmallNumber(Len(str)), type)
    IN  /\ Asked(head \o str, Number(SmallNumber(Len(str)), type))
        /\ \E h \in {Emit([buf |-> buf, len |-> len], head)} :
             \E e \in {Emit(h, str)} :
               /\ buf' = e.buf
               /\ len' = e.len
               /\ res' = IF e.res >= 0 THEN NANOCBOR_OK ELSE e.res

\* An int32_t, made an int64_t.
IsInt32(n) == \A i \in 1 .. 4 : n[i] = IF n[5] >= 128 THEN 255 ELSE 0

\* nanocbor_fmt_decimal_frac: four items, and the sum of their results.
FmtDecimalFrac ==
  \E exponent, mantissa \in { n \in Numbers : IsInt32(n) } :
    LET tag == fmt_uint64(SmallNumber(TAG_DEC_FRAC), TAG)
        arr == fmt_uint64(SmallNumber(2), ARR)
        rest == arr \o fmt_int(exponent) \o fmt_int(mantissa)
    IN  /\ Asked(tag \o rest, Number(SmallNumber(TAG_DEC_FRAC), TAG))
        /\ \E a \in {Emit([buf |-> buf, len |-> len], tag)} :
           \E b \in {Emit(a, arr)} :
           \E c \in {Emit(b, fmt_int(exponent))} :
           \E e \in {Emit(c, fmt_int(mantissa))} :
             /\ buf' = e.buf
             /\ len' = e.len
             /\ res' = a.res + b.res + c.res + e.res

EncodeNext ==
  \/ FmtBool \/ FmtNull \/ FmtIndefinite \/ FmtHead \/ FmtContainer \/ FmtInt \/ FmtFloat
  \/ FmtDouble \/ PutStr \/ FmtDecimalFrac

EncodeSpec == EncodeInit /\ [][EncodeNext]_encode_vars

(***************************************************************************)
(* Properties                                                              *)
(***************************************************************************)
Bytes(k) == calls[k].bytes
Whole == FlattenSeq([k \in DOMAIN calls |-> Bytes(k)])
LastCall == calls[Len(calls)]

\* nanocbor_encoded_len says whether the buffer holds the encoding: it is the
\* length of everything asked for; when that fits, everything is there, and
\* when it does not, something is missing, although items asked for later may
\* have fitted again (encoder.c:37-42).  Either way cur never passes end.
LengthTells ==
  /\ Len(buf) <= size
  /\ len = Len(Whole)
  /\ buf = Whole <=> len <= size

\* The number a head holds, read by the decoder's own operators at the head's
\* width, is the number the caller gave, and no shorter head would hold it
\* (encoder.c:62-101, decoder.c:102-138).
HeadReadBack ==
  calls # <<>> /\ LastCall.means.type \in UINT .. TAG =>
    LET b == LastCall.bytes
        n == LastCall.means.value
        head == get_uint64(b, decoder_init(b), SIZE_LONG, LastCall.means.type)
    IN  /\ head.res > 0
        /\ IF head.res = 1 THEN n = SmallNumber(head.value)
           ELSE n = [i \in 1 .. 9 - head.res |-> 0] \o SubSeq(b, 2, head.res)
        /\ head.res = 2 => n[8] >= SIZE_BYTE
        /\ head.res > 2 => ~Zeros(n, 8 - (head.res - 1) \div 2)

\* The double that two, four or eight bytes behind a head mean.
DecodedReal(b) ==
  LET half == b[2] * 256 + b[3]
  IN  CASE Len(b) = 3 ->
             Widened([sign |-> half \div Bit15,
                      exp |-> LET e == (half \div Bit10) % 32
                              IN  CASE e = 31 -> 255 [] e = 0 -> 0 [] OTHER -> e - 15 + 127,
                      frac |-> (half % Bit10) * Bit13])
        [] Len(b) = 5 ->
             Widened([sign |-> b[2] \div 128, exp |-> (b[2] % 128) * 2 + b[3] \div 128,
                      frac |-> (b[3] % 128) * Bit16 + b[4] * 256 + b[5]])
        [] Len(b) = 9 ->
             [sign |-> b[2] \div 128, exp |-> (b[2] % 128) * 16 + b[3] \div 16,
              frac |-> (b[3] % 16) * Bit19 + b[4] * Bit11 + b[5] * 8 + b[6] \div 32,
              low |-> (b[6] % 32) * Bit24 + b[7] * Bit16 + b[8] * 256 + b[9]]

\* A float or double is written in fewer bytes only when the shorter form is
\* the same number, down to the last bit of its fraction and the ends of its
\* exponent's range.  Of a NaN only the first ten bits of the payload are kept,
\* and one with none of them set would come back as an infinity
\* (encoder.c:288-348).
RealKept ==
  calls # <<>> /\ LastCall.means.type = FLOAT =>
    LET d == LastCall.means.value
    IN  \/ DecodedReal(LastCall.bytes) = d
        \/ d.exp = 2047 /\ (d.low # 0 \/ d.frac % Bit13 # 0)

\* A call that reports its whole item has appended every byte of it, and one
\* that appended it reports no error.  nanocbor_put_bstr and _tstr do not look at
\* the result of the head, and nanocbor_fmt_decimal_frac adds up the results of
\* four items, errors among them (encoder.c:133-163, :350-357): the sum may come
\* out as 0 or more with an item missing, but never as the length of all four.
ResultTells ==
  [][LET b == LastCall'.bytes
         string == LastCall'.means.type \in {BSTR, TSTR} /\ Len(b) > HeadLen(b, 0)
     IN  /\ res' = (IF string THEN NANOCBOR_OK ELSE Len(b)) => buf' = buf \o b
         /\ buf' = buf \o b => res' \in {Len(b), NANOCBOR_OK}]_encode_vars
=============================================================================
