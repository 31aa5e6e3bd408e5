-------------------------- MODULE MCNanocborEncode --------------------------
(***************************************************************************)
(* The encoder with numbers at the ends of every width, strings at the     *)
(* width of a head, and floats and doubles at the ends of the ranges where *)
(* they are narrowed, in buffers of no to twelve bytes.                    *)
(***************************************************************************)
EXTENDS NanocborEncode

MCNumbers ==
  { SmallNumber(k) : k \in {23, 24, 255} }
  \cup {<<0, 0, 0, 0, 0, 0, 1, 0>>, <<0, 0, 0, 0, 0, 1, 0, 0>>,
        <<0, 0, 0, 0, 255, 255, 255, 255>>, <<0, 0, 0, 1, 0, 0, 0, 0>>,
        <<128, 0, 0, 0, 0, 0, 0, 0>>, <<255, 255, 255, 255, 255, 255, 255, 255>>}

MCStrings == {<<>>, <<1>>, [i \in 1 .. 23 |-> 1], [i \in 1 .. 24 |-> 1]}

MCFloats ==
  { [sign |-> 1, exp |-> e, frac |-> f] :
      e \in {0, 112, 113, 142, 143, 255}, f \in {0, 1, 2^12, 2^13, 2^23 - 2^13} }

MCDoubles ==
  { [sign |-> 0, exp |-> e, frac |-> f, low |-> l] :
      e \in {0, 896, 897, 1008, 1009, 1038, 1039, 1150, 1151, 2047},
      f \in {0, 2^13, 2^23 - 1}, l \in {0, 1} }
=============================================================================
