------------------------------- MODULE Loader -------------------------------
(***************************************************************************)
(* CKBDLLoader of the Rust client (src/ckb-auth-rs/src/ckb_auth.rs): the   *)
(* dynamic libraries a lock script calls are loaded one behind the other   *)
(* into one static context and kept in a table, for the whole run.  Memory *)
(* is counted in pages from the start of the context; what lies behind the *)
(* context is other memory of the script, up to the end of the VM's.       *)
(*                                                                         *)
(* ckb_dlopen2 (ckb-std) is external: given an address and the room there, *)
(* it loads a cell that fits the room, or fails, before it writes anything *)
(* or half way.  get_lib passes the size of the whole context as the room  *)
(* at any offset.                                                          *)
(***************************************************************************)
EXTENDS Integers, FiniteSets, FiniteSetsExt, Functions

CONSTANTS
  Hashes, Types,  \* the code hashes and hash types asked for
  Size,           \* the pages a cell's library takes
  Loadable,       \* the cells that are valid libraries
  Exporting,      \* the cells with ckb_auth_validate among their symbols
  CONTEXT,        \* the pages of the context (512 KiB)
  PAGES           \* the pages from the context's start to the end of memory

Cells == Hashes \X Types

ASSUME SizesAssumption ==
  /\ CONTEXT \in Nat /\ PAGES \in Nat
  /\ Size \in [Cells -> Nat \ {0}]
  /\ Loadable \subseteq Cells /\ Exporting \subseteq Cells

VARIABLES
  memory,        \* whose bytes are in each page: of a cell, or of none
  context_used,  \* the offset of the next load
  loaded_lib,    \* the table: a library's key to where it was loaded
  answer         \* what get_validate_func returned last

vars == <<memory, context_used, loaded_lib, answer>>

Free == <<>>
Page == 0 .. PAGES - 1

Region(at, n) == { p \in Page : at <= p /\ p < at + n }

\* Mutant: one hash under two hash types is one library.
LibKeyHash(code_hash, hash_type) == <<code_hash, CHOOSE t \in Types : TRUE>>

LibKey(code_hash, hash_type) == <<code_hash, hash_type>>

Init ==
  /\ memory = [p \in Page |-> Free]
  /\ context_used = 0
  /\ loaded_lib = [k \in {} |-> 0]
  /\ answer = [res |-> "none", asked |-> Free, at |-> 0]

Answer(res, cell, at) == answer' = [res |-> res, asked |-> cell, at |-> at]

\* lib.get: the library stays loaded when the symbol is not there.
Symbol(cell, at) ==
  \/ cell \in Exporting /\ Answer("symbol", cell, at)
  \/ cell \notin Exporting /\ Answer("LoadDLFuncError", cell, at)

\* The pages of the cell's image, as far as they are written.
Write(cell, at, n) ==
  memory' = [p \in Page |-> IF p \in Region(at, n) THEN cell ELSE memory[p]]

\* Mutant: the last page is given away.
NextOffsetShort(n) == context_used + n - 1

NextOffset(n) == context_used + n

\* The library is in the table.
Hit(code_hash, hash_type) ==
  /\ LibKey(code_hash, hash_type) \in DOMAIN loaded_lib
  /\ Symbol(<<code_hash, hash_type>>, loaded_lib[LibKey(code_hash, hash_type)])
  /\ UNCHANGED <<memory, context_used, loaded_lib>>

Missing(code_hash, hash_type) ==
  LibKey(code_hash, hash_type) \notin DOMAIN loaded_lib

\* What ckb_dlopen2 takes: the room is the whole context wherever the load
\* begins, and the memory itself ends.
Fits(cell) == Size[cell] <= CONTEXT /\ context_used + Size[cell] <= PAGES

Load(code_hash, hash_type) ==
  LET cell == <<code_hash, hash_type>>
  IN  /\ Missing(code_hash, hash_type)
      /\ cell \in Loadable
      /\ Fits(cell)
      /\ Write(cell, context_used, Size[cell])
      /\ context_used' = NextOffset(Size[cell])
      /\ loaded_lib' = [k \in DOMAIN loaded_lib \cup {LibKey(code_hash, hash_type)} |->
                          IF k = LibKey(code_hash, hash_type) THEN context_used
                          ELSE loaded_lib[k]]
      /\ Symbol(cell, context_used)

\* Mutants: the offset moves with a load that fails; what was never added is
\* taken off.
FailedOffsetMoves(n) == context_used + n
FailedOffset(n) == context_used

\* No such library, too large, or not a library; n pages were written before
\* the failure showed.
LoadFails(code_hash, hash_type) ==
  LET cell == <<code_hash, hash_type>>
  IN  /\ Missing(code_hash, hash_type)
      /\ \/ ~Fits(cell) /\ UNCHANGED <<memory, context_used>>
         \/ /\ Fits(cell)
            /\ cell \notin Loadable
            /\ \E n \in 0 .. Size[cell] :
                 /\ Write(cell, context_used, n)
                 /\ context_used' = FailedOffset(n)
      /\ Answer("LoadDLError", cell, 0)
      /\ UNCHANGED loaded_lib

Next ==
  \E h \in Hashes, t \in Types : Hit(h, t) \/ Load(h, t) \/ LoadFails(h, t)

Spec == Init /\ [][Next]_vars

(***************************************************************************)
(* Properties                                                              *)
(***************************************************************************)
\* The loader's state has its types.
TypeOK ==
  /\ memory \in [Page -> Cells \cup {Free}]
  /\ context_used \in Nat
  /\ DOMAIN loaded_lib \subseteq Cells
  /\ \A k \in DOMAIN loaded_lib : loaded_lib[k] \in Nat
  /\ answer.res \in {"none", "symbol", "LoadDLFuncError", "LoadDLError"}

Holds(cell, at) == \A p \in Region(at, Size[cell]) : memory[p] = cell

\* A library in the table is whole for the rest of the run: no later load,
\* complete or broken off half way, writes into its pages (ckb_auth.rs:198-207).
LibraryIntact ==
  \A k \in DOMAIN loaded_lib : Holds(k, loaded_lib[k])

\* The function a caller is handed lies in the library of the cell it asked
\* for, by code hash and hash type, and that library exports it
\* (ckb_auth.rs:212-225).
RightSymbol ==
  answer.res = "symbol" =>
    answer.asked \in Exporting /\ Holds(answer.asked, answer.at)

\* A library is loaded once, and a load that fails takes nothing: the offset is
\* what the libraries in the table take together.  So nothing is loaded outside
\* the context before the libraries together are larger than it, the one case
\* in which the room get_lib passes (ckb_auth.rs:202) is not there.
OffsetIsSum ==
  context_used = MapThenSumSet(LAMBDA k : Size[k], DOMAIN loaded_lib)

\* LibraryIntact and RightSymbol made inductive: libraries lie below the offset.
IndInv ==
  /\ TypeOK
  /\ LibraryIntact
  /\ RightSymbol
  /\ \A k \in DOMAIN loaded_lib : loaded_lib[k] + Size[k] <= context_used
  /\ answer.res = "symbol" =>
       /\ answer.asked \in DOMAIN loaded_lib
       /\ answer.at = loaded_lib[answer.asked]
=============================================================================
