--------------------------- MODULE MCNanocborWalk ---------------------------
(***************************************************************************)
(* The decoder on every buffer of up to four bytes from an alphabet of     *)
(* heads (integers, a one-byte number, strings, containers of both kinds,  *)
(* a break), on longer heads with every interesting number, on nested      *)
(* arrays around the recursion limit, and, for a run of its own, on tags.  *)
(***************************************************************************)
EXTENDS NanocborWalk

CONSTANTS Alphabet, MaxLen

Short == UNION { [1 .. n -> Alphabet] : n \in 1 .. MaxLen }

\* Heads of strings, arrays and maps with numbers of one to eight bytes.  The
\* length 2^64 - 9 is left to the proofs: a string that has it does not move the
\* iterator, so the walk over it is as long as the caller makes it.
Numbers ==
  {<<24, 0>>, <<24, 2>>, <<24, 255>>, <<25, 0, 2>>, <<25, 255, 255>>,
   <<26, 0, 0, 0, 2>>, <<26, 64, 0, 0, 0>>, <<26, 127, 255, 255, 255>>,
   <<26, 128, 0, 0, 0>>, <<27, 0, 0, 0, 0, 0, 0, 0, 2>>,
   <<27, 0, 0, 0, 1, 0, 0, 0, 0>>, <<27, 255, 255, 255, 255, 255, 255, 255, 255>>,
   <<27, 255, 255, 255, 255, 255, 255, 255, 248>>,
   <<27, 255, 255, 255, 255, 255, 255, 255, 246>>}

Heads ==
  { <<major * 32 + n[1]>> \o Tail(n) \o rest :
      major \in {UINT, NINT, BSTR, TSTR, ARR, MAP, FLOAT}, n \in Numbers,
      rest \in {<<>>, <<0>>, <<0, 0>>, <<0, 0, 0, 0>>} }

Repeat(b, n) == [k \in 1 .. n |-> b]

\* n arrays in one another, of one element or indefinite, closed or not.
Nested ==
  { Repeat(129, n) \o <<0>> : n \in 8 .. 12 }
  \cup { Repeat(129, n) \o <<128, 0>> : n \in 8 .. 12 }
  \cup { Repeat(159, n) \o <<0>> \o Repeat(255, n) : n \in 9 .. 11 }
  \cup { Repeat(159, n) : n \in {9, 10, 11, 15} }

\* Maps from text keys: {"a": 0, "ab": 0, "": 0}, with one key, with none, and
\* with a key whose length is in bytes of its own.
Maps ==
  {<<163, 97, 97, 0, 98, 97, 98, 0, 96, 0>>, <<162, 98, 97, 98, 0, 97, 97, 0>>,
   <<191, 98, 97, 98, 0, 97, 97, 0, 255>>, <<161, 97, 98, 0>>, <<160>>,
   <<162, 120, 1, 97, 0, 121, 0, 2, 97, 98, 0>>}

MCInputs == Short \cup Heads \cup Nested \cup Maps

MCKeys == {<<97>>, <<97, 98>>}
=============================================================================
