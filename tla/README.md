# ckb-auth in TLA+

ckb-auth is a library for CKB lock scripts. A lock script gives it an algorithm
id, a signature, a 32-byte message and a 20-byte public key hash, and learns
whether the wallet of that block chain signed the message with that key. This
directory holds TLA+ models of the library and of the clients that reach it,
their TLC instances and their TLAPS proofs.

## The system

### Parts

| Part | State it keeps | Operations |
|---|---|---|
| `verify_multisig` (c/auth.c) | `used_signatures`, the loop index | flag, length and script hash checks; one round per signature; the required first positions |
| `ckb_auth_validate`, `verify` (c/auth.c) | the converted message, the key hash found | argument checks, dispatch on the id, one `convert_*` and one `validate_signature_*` per id, comparison |
| owner lock (c/auth.c) | the input index | `is_lock_script_hash_present`: a search among the inputs |
| secp256k1 helper (c/secp256k1_helper_20210801.h) | the cell dep index | the search for the cell with the precomputed tables; the illegal callback, which ends the process |
| Cardano, Monero, Solana (c/auth.c, c/cardano) | parsed views of the signature bytes | CBOR, varints, message layouts, ed25519 |
| C client (c/ckb_auth.h) | the texts, the exit code | `ckb_auth`: link or spawn |
| Rust client (ckb-auth-rs) | the table of loaded libraries | id and category conversions, `ckb_auth_dl`, `ckb_auth_spawn`, `CKBDLLoader` |
| spawn entry (`main` of c/auth.c) | the decoded arguments | relocation, argument checks, decoding, call |
| hex (c/ckb_hex.h) | none | `ckb_bin2hex`, `ckb_hex2bin` |
| demo scripts (examples/) | the running hash | sighash over witnesses, call of `ckb_auth` |
| keccak (c/ckb_keccak256.h) | the sponge and its buffer | init, update, final, the permutation |
| nanocbor (c/cardano/nanocbor) | iterators over a buffer; the encoder's position and length | getters, containers, skip, search; formatters |

Other vendored code (libsecp256k1, mbedtls, ed25519, blake2b), the generator of
the tables, the command line tool and the test programs complete the
repository.

### How the parts interact

A lock script computes a message (sighash) and calls `ckb_auth`. Either that
loads the library into the script's own memory and calls `ckb_auth_validate`,
or it spawns the library's `main` in a child with four hexadecimal texts, and
the result comes back as an `int8_t` exit code. `ckb_auth_validate` checks its
arguments and goes to `verify_multisig`, to the owner lock's search or to
`verify`. All secp256k1 paths load the tables from a cell dep. An illegal
argument inside libsecp256k1 runs a callback that exits the VM process, which
is the caller's own one when linked.

### What is hard here

There is no concurrency and nothing persists. The hard parts are elsewhere:
partial failures (a broken cell dep or input, a callback that ends the process,
an exit code in place of a result), one signature presented to several
algorithms, greedy matching with repeated keys, two ways into the library that
should answer alike, limits that differ on both sides of a spawn, and unsigned
arithmetic on lengths taken from the signature. `PROJECT.json` lists each at
its line under `hazards`, with the properties that watch it.

### What makes each part correct

* multisig: accepts exactly the locks whose script is the committed one and
  that some assignment of signatures to distinct positions justifies;
* `ckb_auth_validate`: accepts what the wallet of the id signs, nothing else,
  and nothing under two ids; always ends;
* clients and `main`: deliver the arguments unchanged, report success only for
  an accepted call (for the Rust spawn, as far as ckb-std tells it the exit
  code), and answer alike linked and spawned;
* hex: decoding inverts encoding, whatever the case of the digits;
* demo scripts: the message passed on is the one the wallets sign, each witness
  byte covered once whatever the batches, and the signature is no part of it;
* Rust loader: a library once loaded stays whole, and the function handed out
  is the one of the cell asked for;
* Solana layout: what is compared is where the bytes say, and an accepted
  signature covers the message;
* nanocbor: items end where CBOR says, strings lie in the buffer, walking over
  a container and skipping it agree; the encoder stays in its buffer and what
  it writes means what it was given;
* Cardano parser: takes a wallet's transaction apart right, copies nothing from
  outside the signature, and the hash compared is among the bytes verified;
* keccak: the digest does not depend on how the message was cut into chunks,
  and the permutation is Keccak-f[1600].

## Modules

| Module | What it is |
|---|---|
| `Common` | sizes and result codes |
| `MultisigData` | a multisig call as data; `Authorised`, the locks to accept |
| `MultisigAuthority` | abstract specification: one decision, the right one |
| `Multisig` | `verify_multisig`, step by step |
| `MultisigProofs` | its theorems |
| `AuthData` | a call of `ckb_auth_validate` as data, what wallets sign, `Genuine` |
| `Auth` | `ckb_auth_validate`, step by step |
| `AuthProofs` | its theorems |
| `Hex` | c/ckb_hex.h as operators |
| `Entry` | the clients, the spawned `main` and the exit code |
| `EntryProofs` | its theorems |
| `Sighash`, `SighashProofs` | both demo scripts up to the call of `ckb_auth`, and its theorems |
| `Loader`, `LoaderProofs` | `CKBDLLoader` and its theorems |
| `SolanaLayout`, `SolanaProofs` | the bytes of a Solana signature, and its theorems |
| `Nanocbor` | the CBOR decoder as operators |
| `CborItem` | the reference for it: where an item ends by RFC 7049 |
| `NanocborWalk`, `NanocborProofs` | a caller that walks over a buffer with the decoder; the theorems about it, the encoder and `CardanoData` |
| `NanocborEncode` | the CBOR encoder |
| `CardanoData` | `get_cardano_data` over `Nanocbor` |
| `KeccakF` | the rounds of `sha3_permutation` as operators, and the reference for them |
| `Keccak`, `KeccakProofs` | `keccak_init`, `keccak_update`, `keccak_final` over those rounds, and its theorems |
| `MC...` | instances for TLC |

The modules form a chain of contracts. `Multisig` implements
`MultisigAuthority`. `Auth` uses `verify_multisig` by that contract (accept
exactly the `Authorised` locks, else any of its codes or the exit of the
callback). `Entry` uses `ckb_auth_validate` as a function of its arguments:
`call.outcome` is its result for the client's arguments and is any of the codes
`Auth` allows; had the arguments changed on the way, any result could come.
`Sighash` ends where `Entry` begins; `Loader` opens up the one step
`LoadLibrary` of `Entry`; `SolanaLayout` and `CardanoData` open up what `Auth`
takes as the flags `laid_out` and `parsed`. `CardanoData` is the composition of
the parser with the decoder: it calls the operators `NanocborWalk` checks.

`PROJECT.json` maps every definition to its source lines. In short:

* **Multisig.** `pc` walks through the checks in the order of the source;
  `used` is the set of positions marked in `used_signatures`, `i` the
  signatures verified. `VerifySignature` is one round of the loop: parse,
  recover, mark the least unused position that lists the key. The flag bytes
  are read before the length is checked, so a call may pair any flags with any
  length.
* **Auth.** `CheckArgs` and `Dispatch` are the head of `ckb_auth_validate`;
  `SearchDeps` is one round of the search for the tables; `VerifyRecid`,
  `VerifyHeader`, `VerifySchnorr`, `VerifyMonero`, `VerifyCardano` and
  `VerifySolana` are the `validate_signature_*` functions with the comparison
  that ends `verify`; `SearchInputs` is one round of the owner lock's search.
  `CallAgain` is the caller presenting an accepted signature under another id.
* **Entry.** `Enter` and `EnterRust` are the two clients, `EnterArgv` another
  script that spawns `main` directly. `LoadLibrary`, `Encode` and `SpawnCell`
  lead to `Validate`, the spawned ones through `CheckTexts` and `DecodeTexts`
  of `main`. `Exited` is what the client makes of the exit code, with both
  ways the Rust client may be told of it (`call.exit_err`). `CallOther` asks
  again by the other category. The Rust conversion
  of the category is modelled as the crate has it (an error); the demo script
  unwraps that error and panics, which also fails the script.
* **Sighash.** One specification for both scripts, which differ in the order of
  their steps, in the width of a sum and in ckb-std's refusal of data longer
  than the buffer. What blake2b was given is a sequence of runs of bytes, each
  known by the witness and the offsets it comes from; a run that continues the
  last one is joined to it, so streams are equal whatever the batches.
  `Begin`, `ReadPiece` and `EndPieces` are `load_and_hash_witness`. The reference
  is the standard sighash-all, which takes a group's inputs wherever they stand;
  the signer of the tests takes them one behind the other, as its transactions
  have them.
* **Loader.** Memory is pages from the start of the context to the end of the
  VM's memory, each holding bytes of one cell or of none. `Hit`, `Load` and
  `LoadFails` are the outcomes of `get_validate_func`; a load may fail before
  or after it has written any number of pages.
* **SolanaLayout.** Offsets from `signed_msg`, with the unsigned difference of
  the lengths (`SignedMsgLen`). A comparison outside the 512 bytes finds
  anything or faults. One action per check, one round of `read_varint_u16` and
  of the loop over the signers per step.
* **Nanocbor.** Buffers are sequences of real bytes. An operation takes the
  iterator and returns it with the result; `_skip_limited` works on the stack
  of its calls' iterators (`skip_step`). Its loop, and the one over the keys,
  is a recursive function from the number of rounds to the state; as each round
  takes a byte, `SkipRounds` and `KeyRounds` are enough, but for strings whose
  length wraps to no bytes at all (2^64 - 9), over which the loop of the code
  may not end. The model answers `ENDLESS` there. A head's number is exact below 2^30;
  larger ones are two classes, which the comparisons of the code do not tell
  apart further, and the last 256 values of 64 bits are negative, where a
  length plus a few bytes wraps round. `NanocborWalk` is any caller that does
  what nanocbor.h asks: it reads items while the container is not exhausted and
  leaves it once it is.
* **NanocborEncode.** 64-bit numbers are their eight bytes, floats and doubles
  sign, exponent and fraction; the bytes written are computed. Every piece goes
  through `Emit` (`_fits` and the copy), a string as two pieces and a decimal
  fraction as four, in the order of the code. Strings are shorter than 256
  bytes, so that their length takes one byte at most.
* **CardanoData.** One action per step of `get_cardano_data`. What is copied
  out is known by where it was copied from, the null pointer included. The loop
  of `get_item_by_key` is a recursive function of its rounds (`item_loop`) like
  the decoder's; a search or a skip that would never end is `ENDLESS`, which
  is no success.
* **Keccak.** A byte is its position in the message, so that the blocks
  absorbed show which bytes they hold; every position has the same value when
  it is mixed into the lanes. Alignment of a chunk is a choice. A call queues
  the blocks it cuts, and `MixBlock` and `Permute` are `sha3_process_block` and
  one round of `sha3_permutation` on them, done before the next call.
* **KeccakF.** A lane is the set of its one bits. Each transformation is done
  in place and in the order of the code; the reference `KeccakRound` is written
  by columns and rows, with rotation offsets and round constants generated by
  their definitions and not from the tables.

### What is abstracted

Hashes are terms: a digest is the record of the hash function, the magic text
and what was hashed; different terms do not collide. Recovery from a signature
over another digest or with another recovery id gives a key nobody listed, or
fails. Bytes of one scheme read as another may parse into anything but a valid
signature. In `Auth`, `laid_out` (Solana) and `parsed` (Cardano) stand for the
byte layouts. In `Entry`, bytes and texts are real sequences and hexadecimal is
computed digit by digit.

One external behaviour is left open. `ckb_auth_spawn` of the Rust crate passes
an error of ckb-std's `spawn_cell` on and drops the value of its `Ok`
(ckb_auth.rs:140-141). Whether `spawn_cell` makes an error of an exit code or
returns it in `Ok` cannot be read from the repository, and no test spawns a
failing `main` from Rust, so `Entry` has both (`exit_err`). In the second case
the Rust client reports success whatever `main` answers, and
`SuccessIsValidated` does not speak of it (`ExitUnseen`): a reader who relies
on the Rust spawn has to look at the version of ckb-std in use.

External behaviour the models rely on: `load_witness` of ckb-std returns an
error for data longer than the buffer, where the C syscall reports the full
length and copies what fits; a
missing cell or witness gives `CKB_INDEX_OUT_OF_BOUND`; `load_with_offset`
checks a library against the room it is told and fails where the VM's memory
ends; a read or write outside the VM's memory ends the process;
libsecp256k1 calls the illegal callback for a recovery id outside 0..3; key
serialisation after a successful recovery does not fail, and neither do the
mbedtls digest functions.

## Runs

| Run | Instance | Shows |
|---|---|---|
| `multisig` | one to three positions, eight key lists (repetitions included) up to renaming, every choice of signers, wrong messages and faulty signatures, every flag, length, hash and cell dep fault; 26,254 states | soundness, completeness, the inductive invariant, refinement of `MultisigAuthority` with its liveness |
| `auth` | a genuine call of every id, every single fault, 45 lists of cell deps, two calls with one signature; 26,918 states | `AcceptsOnlyGenuine`, `AcceptsEveryGenuine`, `OneDomain`, `IndInv`, `AlwaysEnds` |
| `entry` | every client, category, kind of id, library state and result, signatures around both limits, both readings of `spawn_cell`, spoilt texts for `main`; 14,596 states | `ArgumentsIntact`, `SuccessIsValidated`, `ValidatedSucceeds`, `SameCodeBothWays`, `IndInv` |
| `sighash` | both scripts; first witnesses of ten sizes around the header, the buffer and the batches with eight lock lengths, arguments right and wrong, groups among three inputs with zero to three other witnesses; 15,627 states | `SignsTheMessage`, `SignatureApart`, `CallsExactlySignable`, `AlwaysEnds` |
| `loader` | six cells, four of them libraries, together larger than the context and than memory; 487 states | `LibraryIntact`, `RightSymbol`, `OffsetIsSum` |
| `solana` | messages of 0 to 11 keys and up to 4 signers with 15 kinds of fault, numbers of keys of one to three bytes, declared lengths that wrap; 20,323 states | `AcceptsSigned`, `AcceptedCoversMessage`, `ReadsInside`, `AlwaysEnds` |
| `nanocbor` | every buffer of up to three bytes from thirteen, heads of every width, nesting around the limit, maps with keys, lengths around 2^64; 73,854 states | `SkipIsItem`, `WalkIsSkip`, `StringInside`, `BoundedOverrun`, `ValueOfKey` |
| `nanocbor_encode` | four buffer sizes, two calls, numbers at the ends of every width, strings, floats and doubles at the ends of the narrowed ranges; 154,452 states | `LengthTells`, `HeadReadBack`, `RealKept`, `ResultTells` |
| `cardano` | eight wallet transactions, one of them cut off anywhere and with each head replaced by 19 bytes, bodies and witness sets no wallet writes; 2,291 states | `WalletParsed`, `CopiedFromSignature`, `SignedCoversHash` |
| `keccak` | chunks of 0, 64, 71, 72, 136 and 272 bytes, messages to 344, reused contexts; 2,382 states | `ChunksDoNotMatter`, `KnownAnswers`, `RoundsAreKeccak` |
| `auth_doc`, `entry_spawn_doc` | the instances of `auth` and `entry` | two sentences of the documentation the code does not keep (below) |

**Why the bounds are enough.** Three positions are the least in which a
repeated key, a required position and a free one meet, so that a greedy choice
could go wrong. `SIZE_MAX = 3` lets lists of cell deps be shorter, as long and
longer than the search. Two calls (`MaxCalls`) suffice for `OneDomain`, which
is about pairs of ids. `CLIENT_LIMIT = 2` and `MAIN_LIMIT = 3` stand for 8192
and 65536 and keep their order; signatures of zero to four bytes lie on both
sides of each. `Sighash` has the code's own buffer sizes; `U32` stands for 2^32
and lies beyond every size in use. Three levels of witnesses behind a group of
two cover a witness of the group that is missing, one between the inputs and
two behind them. `Keccak` has the code's block of 136 bytes; its chunks end one
byte before, at and behind the block's boundary and hold up to two whole
blocks, so that each path of `keccak_update` and the padding into one byte are
taken. Three bytes
are enough for an item inside a container inside a container; what longer
buffers add (wide heads, depth, keys) is given separately. Two calls of the
encoder show one item that does not fit before one that does. In `loader` the
context holds any one library and no two of the larger ones. The theorems hold
for all values of their constants.

**Deadlock and fairness.** A finished call stutters explicitly (`Returned`,
`Ended`, `Done`), so deadlock checking is on and any missing case of a handler
would show. It is off where a caller simply stops: at the end of a buffer
(`NanocborWalk`) and at the bound of calls (`NanocborEncode`). The only
fairness is `WF_vars(Step)` in `Multisig`, `Auth`, `Sighash` and `SolanaLayout`:
each call is sequential and the VM runs a script to its end, so a step that can
be taken is taken. `CallAgain`, the caller's choice, gets none. The clients of
`Entry` run straight to their end and no property of theirs needs fairness.

**Divergences from the documentation.** Two are checked by runs (`findings` in
PROJECT.json):

1. docs/auth.md:81 gives Bitcoin a "65-byte uncompressed pubkey"; the code
   picks the form of the key from the header byte, and the wallets of the
   tests use compressed keys.
2. docs/auth.md:191 says spawn "shares same arguments and behavior to dynamic
   library"; the C client refuses to spawn with more than 8192 bytes of
   signature, less than a large multisig lock has.

Others show in the definitions, and the properties are stated so that they hold
of the code as it is:

* docs/auth.md:182 has a `message_size` for every id; `ckb_auth_validate` asks
  for 32 bytes in the conversions of `verify`, which multisig and the owner lock
  do not go through: there any size above 0 passes, multisig reads 32 bytes
  whatever it is (auth.c:992-994), and the owner lock reads none. `GenuineAs`
  says the same. Both clients and `main` always pass 32.
* The searches for the tables and for the owner's input stop at the first cell
  dep or input they cannot read. `Loadable` and `GenuineOwner` ask that none is
  broken before the match, so `AcceptsEveryGenuine` says nothing of those.
* docs/auth.md:217 says the Rust crate can call the functions of ckb-auth; its
  id type has no Litecoin, Cardano, Monero or Solana (`RustIds`).
* c/auth.c:418 says the last byte of a varint "should not have all zeroes in
  high bits"; the code demands that they are all zero, as Solana does
  (`LastByteFits`).
* nanocbor.h:367 gives `nanocbor_get_key_tstr` the result "NANOCBOR_OK if key
  was found"; it is also `NANOCBOR_OK` for a non-empty map without the key
  (`ValueOfKey` asks whether an item is left).
* nanocbor.h:443 says `nanocbor_skip` goes "to the next value"; of a tagged
  value it skips the tag only, and counts it as an item (`TagFree`).
* nanocbor.h:765 gives `nanocbor_fmt_decimal_frac` the result "Number of bytes
  written"; the code adds the results of its four items, errors included, so
  that in a buffer of three bytes the result can be 0 with three bytes written
  (1 + 1 + 1 - 3). `ResultTells` shows that the sum is never that of a whole
  item then, and `LengthTells` that `nanocbor_encoded_len` tells.
* nanocbor.h:638 says "NANOCBOR_OK if the string fits"; an empty string put
  into a full buffer also yields it (`PutStr`).

Nothing in the library calls `nanocbor_get_key_tstr` or the encoder. Cardano
transactions with tags are refused or parsed as `CardanoData` shows.

**What a few properties leave out, on purpose.** `ReadsInside` does not speak
of messages whose declared length wrapped or that name more signers than keys:
there the code compares bytes behind the message, and `AcceptedCoversMessage`
shows that this accepts nothing. `StringInside` speaks of every length: the walk
goes on inside the buffer and at the end of the string, and the length is one
that fits or one of the nine below 2^64 whose sum with the head's bytes wraps in
decoder.c:277; of such a string the caller is told a length the buffer does not
have. `SignedCoversHash` is about bodies that `nanocbor_skip` passed over without
an error. The code does not establish this, since it ignores the result
(cardano_lock_inc.h:207): of a body the skip refuses, one nested to the recursion
limit for instance, neither the runs nor the theorem say that the hash is signed.
What holds there too is `CopiedFromSignature`.
`CopiedFromSignature` is about calls that succeed: before that the hash may
have been copied from the null pointer, and the index read behind it fails.
`OffsetIsSum` says when a library is loaded past the context: not before the
libraries together are larger than it. `RealKept` excepts NaN payloads.

## Proofs

All theorems are proved with TLAPS for every value of the constants, from the
assumptions of the modules: `Stranger` is no listed key, the calls,
transactions, signatures and buffers are of the right type (`IsLock`, `IsRequest`,
`IsCall`, `IsTx`, `IsSignature`), numbers are eight bytes and the fields of
floats and doubles in their ranges, the bounds are positive, `CLIENT_LIMIT <=
MAIN_LIMIT`, `SIZE_T` and `U32` are larger than the sums that must not wrap,
chunks are shorter than 64 KiB. TLC evaluates the same assumptions in the runs.

* **MultisigProofs** (`TypeCorrect`, `Soundness`, `Completeness`,
  `Implements`). `IndInv` says that the marks are an assignment of the
  signatures verified so far (`Matched`), and that an authorised lock has a
  full assignment that agrees with them (`Completable`). Soundness follows from
  the first. Completeness needs the second, and its heart is the lemma
  `Exchange`: given a full assignment that agrees with the marks so far, the
  greedy choice of the next position can be swapped in; it stays an assignment
  because two positions that match the same signature list the same key. With
  both, the last step decides as `Authorised` says, which is the step
  simulation of `Implements`.
* **AuthProofs** (`TypeCorrect`, `Soundness`, `Completeness`, `Separation`).
  `IndInv` carries what the checks have established (`Passed`) and what the
  searches have gone past (`Searched`) to the step that decides. `Separation`
  rests on `GenuineOnce`: two ids never agree on digest and form of key, proved
  by cases on the scheme; every id in `accepted` is genuine for the same call.
* **EntryProofs** (`Delivery`, `Soundness`, `Completeness`, `SameCode`).
  `RoundTrip` shows that `ckb_hex2bin` inverts `ckb_bin2hex` and the upper case
  text, for sequences of any length; `CodesFit` that every code of
  `ckb_auth_validate` and `main` is its own `int8_t`. `OnTheWay` in `IndInv`
  remembers which texts are under way and that the limits were kept. `Soundness`
  leaves out one case, the Rust spawn with a `spawn_cell` that returns the exit
  code in `Ok` (`ExitUnseen`).
* **LoaderProofs** (`TypeCorrect`, `LibrariesStayIntact`, `SymbolIsRight`,
  `OffsetSummed`), for any cells, sizes and memory. `IndInv` adds that every
  library in the table lies below the offset of the next load, so that a load,
  whole or broken off, writes behind all of them, and that the last function
  handed out lies where the table says. From the assumption only that a library
  takes a page. `OffsetSummed` needs a theory of the sum over a set:
  `SumsExist`, `SumsAgree` and `SumsAdd` show that the fold of FiniteSetsExt is
  defined on every finite set, does not depend on the set it is computed in,
  and grows by the size of an element added.
* **SolanaProofs** (`SignedAccepted`, `AcceptedCovers`, `ComparesInside`), for
  any signatures and any `size_t`. `IndInv` carries from step to step what the
  varint has read so far (each byte said that another follows, the number is
  below its weight), that the sizes were checked, that the keys fitted before
  the blockhash was compared, and which signers were looked at in vain.
* **KeccakProofs** (`ChunksAbsorbed`), for chunks of any length and alignment.
  `Buffered` of `IndInv`: between the calls the blocks absorbed or queued are
  the whole blocks of the bytes fed and the buffer begins with the others. One
  call of `keccak_update` is then a piece of arithmetic with the number of
  whole blocks before and after it (`Regroup`).
* **SighashProofs** (`MessageSigned`, `SignatureOutside`, `SignableCalled`), for
  any transactions and any sizes of the buffers. `HashedSoFar` of `IndInv` says
  that what was hashed is the message up to where the loops stand: so many
  witnesses whole, and of the one in hand the bytes before `start + offset`.
  `ZeroedMore` and `FollowedMore` are one batch, `NextWitness` is that the
  loops come to the witnesses in the order the wallet takes them, `UptoSound`
  that no run of the stream touches the lock field, and `SignableHolds` that
  the two checks of the lock's length, with a sum that wraps, refuse nothing a
  lock holder can sign.
* **NanocborProofs** (`StringsInside`, `OverrunBounded`, `KeyBehind`), for
  buffers of any bytes and any keys. `HeadIs` shows that `_get_uint64` fails or
  has read a head of RFC 7049 that lies in the buffer; one lemma per operation
  follows from it. Bounding the overrun needs an invariant that is finer than
  the property: the iterator of level k is at most `10 + (MaxLevels - k)` bytes
  behind the end (`Overrun` of `IndInv`), since a parent gains one byte for each
  container left below it; the same holds, with the recursion limit, for the
  stack inside `nanocbor_skip` (`Stacks`). `LoopIs` shows that a loop whose
  rounds stay in a set has a state after each of them and all are in the set;
  `SkipLimitedIs` and `KeyLoopIs` are its two uses.

  `WalkLikeSkip` compares two programs: a caller with its own iterators and
  `nanocbor_skip` with the stack of its calls. `Reaches` says that a skip of the
  container in front of an iterator comes by a given place inside it; the
  invariant `AlongSkips` that every level of the caller is such a place for the
  level above it, as long as no tag was met and the skip succeeds. Entering a
  container is one round of the skip, reading or skipping an item inside it the
  rounds of the item's own skip (`ReachSkip`), and leaving the container is the
  round that ends it (`SkipDone`).
* **NanocborProofs** on `CardanoData` (`CopiesInside`, `HashIsSigned`), for
  signatures of any bytes. `CardanoInv` says that what the steps so far have
  read is what the decoder's operators find in the signature, so that the
  properties become facts about the decoder. `CopiesInside`: an index can only
  be read where the string before it was, hence the hash was not copied from
  the null pointer (`HashIs`), and a witness that was read takes at least the
  bytes that are taken off at the end (`WitnessLength`), hence the length does
  not wrap. `HashIsSigned` needs that `nanocbor_skip` of the body ends behind the
  hash: the caller's way to the hash is a way the skip also takes (`ReachItem`,
  `ReachBefore`), a skip never goes back (`SkipForward`, `SkipPast`), and the
  witness set is behind it (`BodyCovers`).
* **NanocborProofs** on the encoder (`EncodedLengthTells`, `HeadsReadBack`,
  `RealsKept`, `ResultsTell`), for buffers of any size and any calls. `EmitKeeps` is the heart of
  the first: once a piece did not fit, `len` is larger than the buffer for good,
  so that a later piece that fits can not make the length tell a lie. It is
  applied once for each piece, and `FlattenAppend` joins the pieces of a call to
  those before it. `HeadBack` runs `_get_uint64` on the bytes of `_fmt_uint64`, with
  anything behind them, for each of the five widths. `FloatBack` and `DoubleBack`
  find the fields again in the bytes of each width (`HalfFields`, `SingleFields`,
  `DoubleFields`) and undo the moved exponent (`HalfExpIs`, `SingleExpIs`).
  `ResultsTell` is a step property: `EmitIs` gives what one piece can return; a
  string with bytes is at least as long as its head, so it is never there
  without it (`PutStrReports`), and four results with an error among them never
  sum up to the length of the item (`FourResults`).

`Inductive` of each module states its `IndInv`, `CardanoInductive` and
`EncodeInductive` those of the parser and the encoder. TLC checks them as well:
in the runs of `multisig`, `auth` and `entry`, and for the others on the
instance of their run, with the invariant added; of the encoder's, whose types
TLC can not enumerate, the parts that are properties.

**Induction.** The library's induction theorems take an operator as a parameter,
which the provers cannot instantiate. Where a proof needs induction it takes a
least counterexample instead, which only needs a set: `AllNumbers` of
`SighashProofs` and `NanocborProofs` and `SmallestSet` of `LoaderProofs`, both from the library's
well-foundedness theorems. Recursive functions (`Upto`, the sum, the decoder's loops, the flattening of
the encoder's calls) are shown to be well defined the same way.

**Only model-checked:** liveness (`AlwaysEnds`, and the liveness half of
`DecidesByAuthority`), since the prover handles neither fairness nor ENABLED.
`SkipIsItem` compares the decoder with a recursion over the nesting of the data
(`ItemsEnd`), an induction out of the prover's reach. `WalletParsed` is about
given transactions and what is known of their parts; `KnownAnswers` and
`RoundsAreKeccak` are computations.

## Not modelled

* Curve arithmetic, blake2b, SHA-256 and the other vendored code but nanocbor:
  terms and flags stand for what they compute.
* `write_varint` of the Monero hash: it is called with one constant.
* `get_cardano_custom` and `calculate_outputs_len`: nothing calls them.
* The relocation loop of `main`: it depends on the linked image only.
* The table dump, the command line tool, the test programs: no state of their
  own. The wallets of the tests are used as the reference of what is signed.

## Plan

Done: all modules above and the theorems listed. What could follow:

1. `KeccakF`: each transformation in place is its reference, for any state.
2. `Auth` over the layouts implements `Auth` over their flags.
3. `WalletParsed` for a grammar of transactions in place of a list of them.
