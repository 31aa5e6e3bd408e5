------------------------------ MODULE MCLoader ------------------------------
(***************************************************************************)
(* Three code hashes under two hash types: six cells, four of which are    *)
(* libraries and three export the function; together they are larger than  *)
(* the context, and than the memory.                                       *)
(***************************************************************************)
EXTENDS Loader

CONSTANTS h1, h2, h3

\* The libraries take 1, 3, 2 and 4 pages, the broken cells 2 and 5.
MCSize == [c \in Cells |-> CASE c = <<h1, "data">> -> 1
                             [] c = <<h1, "type">> -> 3
                             [] c = <<h2, "data">> -> 2
                             [] c = <<h2, "type">> -> 2
                             [] c = <<h3, "data">> -> 4
                             [] c = <<h3, "type">> -> 5]
MCLoadable == Cells \ {<<h2, "type">>, <<h3, "type">>}
MCExporting == {<<h1, "data">>, <<h1, "type">>, <<h3, "data">>}
=============================================================================
