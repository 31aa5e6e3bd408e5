---------------------------- MODULE NanocborWalk ----------------------------
(***************************************************************************)
(* A caller of the nanocbor decoder walks over a buffer: one action per    *)
(* decoder operation of nanocbor.h.  Entered containers form a stack, the  *)
(* way a caller keeps one nanocbor_value_t per level; a parent stays where *)
(* the container begins until the container is left.  As nanocbor.h asks,  *)
(* items are read while the container is not exhausted and a container is  *)
(* left once it is.                                                        *)
(***************************************************************************)
EXTENDS CborItem, FiniteSets

CONSTANTS
  Inputs,     \* the buffers walked over
  Keys,       \* the text keys looked up, as sequences of bytes
  MaxLevels   \* the iterators a caller has at a time, one for each container

ASSUME BuffersAssumption == Inputs \subseteq Seq(0 .. 255) /\ Keys \subseteq Seq(0 .. 255)
ASSUME LevelsAssumption == MaxLevels \in Nat \ {0}

VARIABLES
  data,    \* the buffer
  levels,  \* the iterators, the innermost container's last
  last     \* the last operation: name, the iterator before it, its results

vars == <<data, levels, last>>

it == Last(levels)

NoString == [buf |-> 0, len |-> 0]

Ended == at_end(data, it)

\* An operation moved the innermost iterator and returned res.
MovedKey(op, next, res, str, key) ==
  /\ levels' = [levels EXCEPT ![Len(levels)] = next]
  /\ last' = [op |-> op, before |-> it, res |-> res, buf |-> str.buf, len |-> str.len,
              key |-> key]
  /\ UNCHANGED data

Moved(op, next, res, str) == MovedKey(op, next, res, str, <<>>)

Init ==
  /\ data \in Inputs
  /\ levels = <<decoder_init(data)>>
  /\ last = [op |-> "init", before |-> decoder_init(data), res |-> NANOCBOR_OK,
             buf |-> 0, len |-> 0, key |-> <<>>]

GetUint(max) ==
  /\ ~Ended
  /\ LET r == get_uint(data, it, max) IN Moved("number", r.it, r.res, NoString)

GetInt(max) ==
  /\ ~Ended
  /\ LET r == get_int(data, it, max) IN Moved("number", r.it, r.res, NoString)

GetTag ==
  /\ ~Ended
  /\ LET r == get_tag(data, it) IN Moved("tag", r.it, r.res, NoString)

GetDecimalFrac ==
  /\ ~Ended
  /\ LET r == get_decimal_frac(data, it) IN Moved("tag", r.it, r.res, NoString)

GetBstr ==
  /\ ~Ended
  /\ LET r == get_bstr(data, it) IN Moved("string", r.it, r.res, r)

GetTstr ==
  /\ ~Ended
  /\ LET r == get_tstr(data, it) IN Moved("string", r.it, r.res, r)

GetNull ==
  /\ ~Ended
  /\ LET r == get_null(data, it) IN Moved("simple", r.it, r.res, NoString)

GetBool ==
  /\ ~Ended
  /\ LET r == get_bool(data, it) IN Moved("simple", r.it, r.res, NoString)

Skip ==
  /\ ~Ended
  /\ LET r == skip(data, it) IN Moved("skip", r.it, r.res, NoString)

\* nanocbor_skip_simple "is unable to skip nested structures" (nanocbor.h:461):
\* it is called on the values that are a head and nothing else.
SkipSimple ==
  /\ get_type(data, it) \in {UINT, NINT, TAG, FLOAT}
  /\ LET r == skip_simple(data, it) IN Moved("simple", r.it, r.res, NoString)

GetSubcbor ==
  /\ ~Ended
  /\ LET r == get_subcbor(data, it) IN Moved("subcbor", r.it, r.res, r)

\* The search starts at the current item; the caller goes on at the value found.
GetKeyTstr(key) ==
  /\ ~Ended
  /\ Len(levels) > 1
  /\ LET r == get_key_tstr(data, it, key)
     IN  MovedKey("key", r.it, r.res, NoString, key)

Entered(op, c) ==
  /\ ~Ended
  /\ Len(levels) < MaxLevels
  /\ levels' = IF c.res = NANOCBOR_OK THEN Append(levels, c.it) ELSE levels
  /\ last' = [op |-> op, before |-> it, res |-> c.res, buf |-> 0, len |-> 0, key |-> <<>>]
  /\ UNCHANGED data

EnterArray == Entered("enter", enter_array(data, it))
EnterMap == Entered("enter", enter_map(data, it))

LeaveContainer ==
  /\ Ended
  /\ Len(levels) > 1
  /\ levels' = Returned(levels)
  /\ last' = [op |-> "leave", before |-> Last(Front(levels)), res |-> NANOCBOR_OK,
              buf |-> 0, len |-> 0, key |-> <<>>]
  /\ UNCHANGED data

Next ==
  \/ \E max \in {SIZE_BYTE, SIZE_SHORT, SIZE_WORD} : GetUint(max) \/ GetInt(max)
  \/ GetTag
  \/ GetDecimalFrac
  \/ GetBstr
  \/ GetTstr
  \/ GetNull
  \/ GetBool
  \/ Skip
  \/ SkipSimple
  \/ GetSubcbor
  \/ \E key \in Keys : GetKeyTstr(key)
  \/ EnterArray
  \/ EnterMap
  \/ LeaveContainer

Spec == Init /\ [][Next]_vars

TagFree == \A i \in DOMAIN data : data[i] \div 32 # TAG

(***************************************************************************)
(* Properties                                                              *)
(***************************************************************************)
\* An item that RFC 7049 calls well formed is skipped, and handed out by
\* nanocbor_get_subcbor, whole: to its last byte and no further.  Only an item
\* with ten containers or more in it may be refused, for its nesting
\* (decoder.c:392-430).
SkippedWhole ==
  last.op \in {"skip", "subcbor"} =>
    LET end == ItemEnd(data, last.before.cur)
        containers == { i \in last.before.cur + 1 .. end : data[i] \div 32 \in {ARR, MAP} }
    IN  end > 0 =>
          \/ last.res = NANOCBOR_OK /\ it.cur = end
          \/ /\ last.res = NANOCBOR_ERR_RECURSION
             /\ Cardinality(containers) >= NANOCBOR_RECURSION_MAX

SkipIsItem == TagFree => SkippedWhole

\* A container read item by item with the getters, and left when exhausted,
\* brings its parent to where nanocbor_skip would have brought it: the getters,
\* the nested walks and the skip count the same items (decoder.c:356-367).
WalkIsSkip ==
  TagFree /\ last.op = "leave" /\ skip(data, last.before).res = NANOCBOR_OK =>
    skip(data, last.before).it = it

\* Whatever length the head of a string declares, the walk goes on at the end of
\* the string that is returned, in the buffer and not before the string's head
\* (decoder.c:277-282).  So the string lies in the buffer, unless its length is
\* one of the nine below 2^64, -9 to -1 here: the sum of such a length and the
\* bytes of the head wraps round in the comparison of decoder.c:277.
StringInside ==
  last.op = "string" /\ last.res = NANOCBOR_OK =>
    /\ it.cur = last.buf + last.len
    /\ last.before.cur <= it.cur /\ it.cur <= Len(data)
    /\ last.len >= -9

\* Leaving an indefinite container whose break byte is missing steps over the
\* end of the buffer, once for each container left; the recursion limit and the
\* caller's own levels bound how far (decoder.c:361-363).
BoundedOverrun ==
  \A k \in DOMAIN levels :
    levels[k].cur <= Len(data) + NANOCBOR_RECURSION_MAX + MaxLevels

\* The bytes in front of offset i are the text string key, whichever of the
\* heads of RFC 7049 it has.
TextBefore(d, i, key) ==
  \E head \in 1 .. 9 :
    LET start == i - Len(key) - head
    IN  /\ start >= 0
        /\ Byte(d, start) \div 32 = TSTR
        /\ HeadLen(d, start) = head
        /\ HeadValue(d, start) = Len(key)
        /\ SubSeq(d, i - Len(key) + 1, i) = key

\* When nanocbor_get_key_tstr succeeds and the iterator it returns has an item
\* left, that item is the value of the key, however the keys before it are
\* spelled (decoder.c:432-458).
ValueOfKey ==
  last.op = "key" /\ last.res = NANOCBOR_OK /\ ~Ended =>
    TextBefore(data, it.cur, last.key)

(***************************************************************************)
(* The inductive invariant                                                 *)
(***************************************************************************)
Iterators(d) == [cur : Nat, end : {Len(d)}, remaining : Int, flags : FLAGS]

TypeOK ==
  /\ data \in Seq(0 .. 255)
  /\ levels \in Seq(Iterators(data))
  /\ Len(levels) \in 1 .. MaxLevels

\* Each container that was left may have taken its parent one byte further: the
\* outer the iterator, the further it may be.
Overrun ==
  \A k \in 1 .. Len(levels) :
    levels[k].cur <= Len(data) + NANOCBOR_RECURSION_MAX + (MaxLevels - k)

IndInv == TypeOK /\ Overrun /\ StringInside /\ ValueOfKey

\* A skip of the container at r comes by w, an iterator in that container.
Reaches(d, r, w) ==
  \E n \in 0 .. SkipRounds(d) : skip_limited(d, r)[n].levels = <<r, w>>

\* Each iterator of a stack is in a container its parent is in front of, at a
\* place that a skip of the container would come by.
AlongSkips(d, stack) ==
  \A k \in 1 .. Len(stack) - 1 :
    /\ ~at_end(d, stack[k])
    /\ skip(d, stack[k]).res = NANOCBOR_OK => Reaches(d, stack[k], stack[k + 1])

\* The walk is along its skips where no tag is met.
Along == TagFree => AlongSkips(data, levels)
=============================================================================
