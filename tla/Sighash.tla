------------------------------- MODULE Sighash -------------------------------
(***************************************************************************)
(* The demo lock scripts: main, generate_sighash_all and their helpers, in *)
(* C (examples/auth-demo) and in Rust (examples/auth-rust-demo).  The      *)
(* script hashes the transaction into the message to sign, takes the       *)
(* signature out of the first witness and calls ckb_auth.                  *)
(*                                                                         *)
(* Bytes are known by where they come from: the hashed stream is a         *)
(* sequence of runs [kind, of, from, to], the bytes from .. to - 1 of one  *)
(* witness, and a run that continues the last one is joined to it, so that *)
(* equal byte streams are equal sequences however they were cut.           *)
(***************************************************************************)
EXTENDS Integers, Sequences

CONSTANTS
    Txs,               \* the transactions, each with the script that runs
    MAX_WITNESS_SIZE,  \* room for the first witness
    ONE_BATCH_SIZE,    \* room for a piece of any other
    U32                \* how many values a uint32_t has

\* The lock field of a WitnessArgs: its length at 16, its content from 20 on.
LOCK == 20
ARGS_SIZE == 21 + 32 + 1 + 1

Sources == {"group", "input"}

\* One element per witness, its size; the inputs are 0 .. inputs - 1, group
\* lists those whose lock is this script.  lock_length is what bytes 16 .. 19
\* of the group's first witness hold, witness_args whether it is a WitnessArgs.
IsTx(t) ==
    /\ t.script \in {"c", "rust"}
    /\ t.args_len \in Nat
    /\ t.hash_type \in 0 .. 255
    /\ t.inputs \in Nat
    /\ t.witnesses \in Seq(Nat)
    /\ t.group \in Seq(0 .. t.inputs - 1)
    /\ Len(t.group) > 0
    /\ \A j, k \in 1 .. Len(t.group) : j < k => t.group[j] < t.group[k]
    /\ t.lock_length \in 0 .. U32 - 1
    /\ t.witness_args \in BOOLEAN
    /\ t.witness_args =>
         /\ t.group[1] < Len(t.witnesses)
         /\ LET size == t.witnesses[t.group[1] + 1]
            IN  size = 16 \/ size >= LOCK + t.lock_length

ASSUME SizesAssumption ==
    /\ MAX_WITNESS_SIZE \in Nat /\ MAX_WITNESS_SIZE > LOCK
    /\ ONE_BATCH_SIZE \in Nat \ {0}
    /\ U32 \in Nat /\ U32 > MAX_WITNESS_SIZE + 2 * LOCK

ASSUME TxsAssumption == \A t \in Txs : IsTx(t)

VARIABLES
    tx,
    pc,
    hashed,  \* what blake2b_update was given
    piece,   \* load_and_hash_witness: [start, index, source, len, offset]
    sig,     \* the slice of the first witness handed over as signature
    ret

vars == <<tx, pc, hashed, piece, sig, ret>>

Small(a, b) == IF a < b THEN a ELSE b

-----------------------------------------------------------------------------
\* The load_witness syscall.  A missing witness gives INDEX_OUT_OF_BOUND;
\* otherwise it reports what there is from start on and copies what fits.
\* ckb-std turns a datum longer than the buffer into LengthNotEnough.

WitnessAt(t, source, index) ==
    IF source = "input" THEN index
    ELSE IF index < Len(t.group) THEN t.group[index + 1] ELSE Len(t.witnesses)

Missing(t, source, index) == WitnessAt(t, source, index) >= Len(t.witnesses)

Size(t, source, index) == t.witnesses[WitnessAt(t, source, index) + 1]

TooLong(t, left, room) == t.script = "rust" /\ left > room

-----------------------------------------------------------------------------
Run(kind, of, from, to) == [kind |-> kind, of |-> of, from |-> from, to |-> to]

Joins(last, run) ==
    last.kind = run.kind /\ last.of = run.of /\ last.to = run.from

\* blake2b_update
Update(stream, run) ==
    IF run.from = run.to THEN stream
    ELSE IF stream # <<>> /\ Joins(stream[Len(stream)], run)
         THEN [stream EXCEPT ![Len(stream)].to = run.to]
         ELSE Append(stream, run)

TxHash == Run("tx_hash", 0, 0, 32)

\* The eight bytes of a length n.
Length(n) == Run("length", n, 0, 8)

-----------------------------------------------------------------------------
Init ==
    /\ tx \in Txs
    /\ pc = IF tx.script = "c" THEN "script" ELSE "sighash"
    /\ hashed = <<>>
    /\ piece = [start |-> 0, index |-> 0, source |-> "group", len |-> 0, offset |-> 0]
    /\ sig = [from |-> 0, to |-> 0]
    /\ ret = "none"

Goto(step) == pc' = step /\ UNCHANGED <<tx, ret>>

Return(code) ==
    /\ pc' = "done"
    /\ ret' = code
    /\ UNCHANGED <<tx, hashed, piece, sig>>

\* Mutant: the sum as if it could not wrap, and the field's length left out.
HoldsLockWide(len, lock_length) == len >= LOCK

\* extract_witness_lock; the sum is a uint32_t.
HoldsLock(len, lock_length) ==
    /\ len >= LOCK
    /\ len >= (LOCK + lock_length) % U32

\* The same test in Rust, with 64 bits.
HoldsLockRust(len, lock_length) ==
    /\ len >= LOCK
    /\ len >= LOCK + lock_length

\* main of the C script up to the arguments; the Rust main comes here with the
\* message already made, takes the signature and goes on to the call.
ReadScript ==
    /\ pc = "script"
    /\ \/ tx.args_len # ARGS_SIZE /\ Return("invalid")
       \/ /\ tx.script = "c"
          /\ tx.args_len = ARGS_SIZE
          /\ Goto("lock")
          /\ UNCHANGED <<hashed, piece, sig>>

\* Mutant: the lock field is taken to be the rest of the witness.
LockFieldRest(t) == [from |-> LOCK, to |-> Size(t, "group", 0)]

LockField(t) == [from |-> LOCK, to |-> LOCK + t.lock_length]

\* main of the C script takes the signature; witness_len is not capped here.
ReadLock ==
    /\ pc = "lock"
    /\ \/ Missing(tx, "group", 0) /\ Return("invalid")
       \/ /\ ~Missing(tx, "group", 0)
          /\ LET len == Size(tx, "group", 0)
             IN  \/ ~HoldsLock(len, tx.lock_length) /\ Return("invalid")
                 \/ /\ HoldsLock(len, tx.lock_length)
                    /\ sig' = LockField(tx)
                    /\ Goto("sighash")
                    /\ UNCHANGED <<hashed, piece>>

\* The Rust main after the message: arguments, WitnessArgs, all behind byte 20.
ReadScriptRust ==
    /\ pc = "script"
    /\ tx.script = "rust"
    /\ tx.args_len = ARGS_SIZE
    /\ \/ tx.hash_type > 2 /\ Return("invalid")
       \/ tx.hash_type <= 2 /\ ~tx.witness_args /\ Return("invalid")
       \/ /\ tx.hash_type <= 2
          /\ tx.witness_args
          /\ sig' = [from |-> LOCK, to |-> Size(tx, "group", 0)]
          /\ Goto("call")
          /\ UNCHANGED <<hashed, piece>>

-----------------------------------------------------------------------------
\* generate_sighash_all

\* read_len: how much of the first witness the buffer holds.
ReadLen(t) == Small(Size(t, "group", 0), MAX_WITNESS_SIZE)

Fits(t) ==
    IF t.script = "c" THEN HoldsLock(ReadLen(t), t.lock_length)
    ELSE HoldsLockRust(ReadLen(t), t.lock_length)

\* The transaction hash and the buffer, its lock field cleared.
HashFirst(t) ==
    LET w    == WitnessAt(t, "group", 0)
        to   == LOCK + t.lock_length
        head == Update(<<TxHash, Length(Size(t, "group", 0))>>, Run("byte", w, 0, LOCK))
        lock == Update(head, Run("zero", w, LOCK, to))
    IN  Update(lock, Run("byte", w, to, ReadLen(t)))

\* Load the first witness, find and clear its lock field, hash what the buffer
\* holds.  A lock_length that made the sum wrap makes memset run off the VM's
\* memory, which ends the process.
ReadFirst ==
    /\ pc = "sighash"
    /\ \/ Missing(tx, "group", 0) /\ Return("invalid")
       \/ /\ ~Missing(tx, "group", 0)
          /\ LET len == Size(tx, "group", 0)
             IN  \/ TooLong(tx, len, MAX_WITNESS_SIZE) /\ Return("invalid")
                 \/ /\ ~TooLong(tx, len, MAX_WITNESS_SIZE)
                    /\ \/ ~Fits(tx) /\ Return("invalid")
                       \/ Fits(tx) /\ tx.lock_length >= U32 - LOCK /\ Return("fault")
                       \/ /\ Fits(tx)
                          /\ tx.lock_length < U32 - LOCK
                          /\ hashed' = HashFirst(tx)
                          /\ Goto(IF ReadLen(tx) < len THEN "rest" ELSE "group")
                          /\ piece' = [piece EXCEPT !.index = 1]
                          /\ UNCHANGED sig

\* Mutant: the pieces of a witness restart at its beginning.
PieceRunFromZero(p) ==
    Run("byte", WitnessAt(tx, p.source, p.index), p.offset,
        p.offset + Small(p.len - p.offset, ONE_BATCH_SIZE))

\* What the next ckb_load_witness of load_and_hash_witness copies.
PieceRun(p) ==
    LET at == p.start + p.offset
    IN  Run("byte", WitnessAt(tx, p.source, p.index), at,
            at + Small(p.len - p.offset, ONE_BATCH_SIZE))

\* load_and_hash_witness up to its loop.
Begin(start, index, source, hash_length, loop) ==
    LET len == Size(tx, source, index) - start
        new == [start |-> start, index |-> index, source |-> source,
                len |-> len, offset |-> 0]
    IN  IF TooLong(tx, len, ONE_BATCH_SIZE) THEN Return("invalid")
        ELSE /\ hashed' = Update(IF hash_length THEN Update(hashed, Length(len))
                                 ELSE hashed, PieceRun(new))
             /\ piece' = [new EXCEPT !.offset = Small(len, ONE_BATCH_SIZE)]
             /\ Goto(loop)
             /\ UNCHANGED sig

\* What the buffer could not hold of the first witness.
ReadRest ==
    /\ pc = "rest"
    /\ Begin(ReadLen(tx), 0, "group", FALSE, "pieces")

\* The witnesses of the group's other inputs.
ReadGroup ==
    /\ pc = "group"
    /\ ~Missing(tx, "group", piece.index)
    /\ Begin(0, piece.index, "group", TRUE, "pieces")

\* ckb_calculate_inputs_len
InputsLen(t) == t.inputs

EndGroup ==
    /\ pc = "group"
    /\ Missing(tx, "group", piece.index)
    /\ piece' = [piece EXCEPT !.index = InputsLen(tx), !.source = "input"]
    /\ Goto("input")
    /\ UNCHANGED <<hashed, sig>>

\* The witnesses that belong to no input.
ReadExtra ==
    /\ pc = "input"
    /\ ~Missing(tx, "input", piece.index)
    /\ Begin(0, piece.index, "input", TRUE, "pieces")

\* blake2b_final, back in main; the Rust main reads its arguments only now.
EndSighash ==
    /\ pc = "input"
    /\ Missing(tx, "input", piece.index)
    /\ Goto(IF tx.script = "c" THEN "call" ELSE "script")
    /\ UNCHANGED <<hashed, piece, sig>>

Advance(p) == p.offset + Small(p.len - p.offset, ONE_BATCH_SIZE)

\* Mutant: the end of the witness counts as another piece.
MorePiecesToo(p) == p.offset <= p.len

MorePieces(p) == p.offset < p.len

\* One round of the loop of load_and_hash_witness.  In Rust the first load has
\* refused a witness that needs one.
ReadPiece ==
    /\ pc = "pieces"
    /\ MorePieces(piece)
    /\ hashed' = Update(hashed, PieceRun(piece))
    /\ piece' = [piece EXCEPT !.offset = Advance(piece)]
    /\ UNCHANGED <<tx, pc, sig, ret>>

EndPieces ==
    /\ pc = "pieces"
    /\ ~MorePieces(piece)
    /\ piece' = [piece EXCEPT !.index = @ + 1]
    /\ Goto(piece.source)
    /\ UNCHANGED <<hashed, sig>>

-----------------------------------------------------------------------------
\* ckb_auth is reached with the message and the signature.
Call == pc = "call" /\ Return("called")

Step ==
    \/ ReadScript \/ ReadScriptRust \/ ReadLock \/ ReadFirst \/ ReadRest
    \/ ReadGroup \/ EndGroup \/ ReadExtra \/ EndSighash \/ ReadPiece
    \/ EndPieces \/ Call

Ended == pc = "done" /\ UNCHANGED vars

Next == Step \/ Ended

Spec == Init /\ [][Next]_vars /\ WF_vars(Step)

-----------------------------------------------------------------------------
\* Properties

\* The message the wallets sign (get_message_to_sign_by_input_group of
\* tests/auth_rust/src/lib.rs): the transaction hash, the first witness with a
\* zeroed lock, then every other witness of the group and behind the inputs,
\* each whole and after its length.
\* The group is in order, so those of its other inputs that have a witness come
\* first.
GroupOthers(t) ==
    CHOOSE n \in 0 .. Len(t.group) - 1 :
        \A k \in 2 .. Len(t.group) : t.group[k] < Len(t.witnesses) <=> k <= n + 1

Extra(t) == IF Len(t.witnesses) > t.inputs THEN Len(t.witnesses) - t.inputs ELSE 0

Others(t) ==
    [k \in 1 .. GroupOthers(t) + Extra(t) |->
        IF k <= GroupOthers(t) THEN t.group[k + 1] ELSE t.inputs + (k - GroupOthers(t) - 1)]

\* The first witness, the lock field zeroed, as far as byte end.
Zeroed(t, end) ==
    LET w    == t.group[1]
        to   == LOCK + t.lock_length
        head == <<TxHash, Length(t.witnesses[w + 1])>>
        lock == Append(Append(head, Run("byte", w, 0, LOCK)), Run("zero", w, LOCK, to))
    IN  IF t.lock_length = 0 THEN Append(head, Run("byte", w, 0, end))
        ELSE IF end = to THEN lock
        ELSE Append(lock, Run("byte", w, to, end))

\* Witness w behind a stream, as far as byte end.
Followed(stream, t, w, end) ==
    LET length == Append(stream, Length(t.witnesses[w + 1]))
    IN  IF end = 0 THEN length ELSE Append(length, Run("byte", w, 0, end))

\* The stream after the first witness and k others.
Upto(t) ==
    LET o == Others(t)
        upto[k \in 0 .. GroupOthers(t) + Extra(t)] ==
            IF k = 0 THEN Zeroed(t, t.witnesses[t.group[1] + 1])
            ELSE Followed(upto[k - 1], t, o[k], t.witnesses[o[k] + 1])
    IN  upto

Message(t) == Upto(t)[GroupOthers(t) + Extra(t)]

\* The message handed to ckb_auth is the one the wallet signs, the standard
\* sighash-all over the script's group and the witnesses behind the inputs: no
\* byte of a witness is hashed twice, left out or moved, whatever the batches
\* (load_and_hash_witness) and the loops of generate_sighash_all do.
SignsTheMessage == ret = "called" => hashed = Message(tx)

\* The signature lies in the buffer it was read into, no byte of it is hashed,
\* and the bytes left out of the hash are all in it.  In C it is nothing but
\* these; the Rust script adds the fields behind the lock.
SignatureApart ==
    ret = "called" =>
      /\ sig.from <= sig.to
      /\ sig.to <= MAX_WITNESS_SIZE
      /\ \A k \in 1 .. Len(hashed) :
           hashed[k].of = tx.group[1] =>
             /\ hashed[k].kind = "zero" => hashed[k].from >= sig.from /\ hashed[k].to <= sig.to
             /\ hashed[k].kind = "byte" /\ tx.script = "c" /\ sig.from < sig.to =>
                  hashed[k].to <= sig.from \/ hashed[k].from >= sig.to

\* The transactions a lock holder can get to ckb_auth: the lock field ends in
\* the buffer; for Rust, besides, every witness fits its buffer and the first
\* is a WitnessArgs.
Signable(t) ==
    /\ t.args_len = ARGS_SIZE
    /\ t.group[1] < Len(t.witnesses)
    /\ LOCK + t.lock_length <= Small(t.witnesses[t.group[1] + 1], MAX_WITNESS_SIZE)
    /\ t.script = "rust" =>
         /\ t.hash_type <= 2
         /\ t.witness_args
         /\ t.witnesses[t.group[1] + 1] <= MAX_WITNESS_SIZE
         /\ \A k \in DOMAIN Others(t) : t.witnesses[Others(t)[k] + 1] <= ONE_BATCH_SIZE

\* Exactly these get there: the check of the capped length in
\* generate_sighash_all makes up for the uncapped one in main, and a length
\* that wraps round does not slip through.
CallsExactlySignable == pc = "done" => (ret = "called" <=> Signable(tx))

-----------------------------------------------------------------------------
\* What holds between the steps

Runs == [kind : {"tx_hash", "length", "byte", "zero"}, of : Nat, from : Nat, to : Nat \ {0}]

TypeOK ==
    /\ IsTx(tx)
    /\ pc \in {"script", "lock", "sighash", "rest", "group", "input", "pieces", "call", "done"}
    /\ hashed \in Seq(Runs)
    /\ piece \in [start : Nat, index : Nat, source : Sources, len : Nat, offset : Nat]
    /\ sig \in [from : Nat, to : Nat]
    /\ ret \in {"none", "invalid", "fault", "called"}

\* The first witness went through generate_sighash_all.
FirstRead ==
    \/ pc \in {"rest", "group", "pieces", "input", "call"}
    \/ pc = "script" /\ tx.script = "rust"

FirstHolds(t) ==
    /\ ~Missing(t, "group", 0)
    /\ LOCK + t.lock_length <= ReadLen(t)
    /\ t.script = "rust" => Size(t, "group", 0) <= MAX_WITNESS_SIZE

\* The C main has taken the signature by now; the Rust one when it calls.
SigRead ==
    /\ tx.script = "c" /\ pc \notin {"script", "done"} => tx.args_len = ARGS_SIZE
    /\ tx.script = "c" /\ pc \notin {"script", "lock", "done"} => sig = LockField(tx)
    /\ tx.script = "rust" => pc # "lock"
    /\ tx.script = "rust" /\ pc = "call" =>
         /\ tx.args_len = ARGS_SIZE /\ tx.hash_type <= 2 /\ tx.witness_args
         /\ sig = [from |-> LOCK, to |-> Size(tx, "group", 0)]

\* How many other witnesses come before the one in hand.
Before(p) ==
    IF p.source = "group" THEN p.index - 1 ELSE GroupOthers(tx) + (p.index - tx.inputs)

FirstInHand(p) == p.source = "group" /\ p.index = 0

\* In Rust each witness seen fits its buffer.
SeenFit(n) ==
    tx.script = "rust" => \A k \in 1 .. n : tx.witnesses[Others(tx)[k] + 1] <= ONE_BATCH_SIZE

InHand(p) ==
    /\ p.len = Size(tx, p.source, p.index) - p.start
    /\ p.offset <= p.len
    /\ p.offset = 0 => p.len = 0
    /\ IF FirstInHand(p)
       THEN p.start = ReadLen(tx) /\ p.len > 0 /\ hashed = Zeroed(tx, p.start + p.offset)
       ELSE /\ p.start = 0
            /\ p.source = "group" => Before(p) < GroupOthers(tx)
            /\ p.source = "input" => p.index >= tx.inputs
            /\ Before(p) + 1 \in DOMAIN Others(tx)
            /\ Others(tx)[Before(p) + 1] = WitnessAt(tx, p.source, p.index)
            /\ hashed = Followed(Upto(tx)[Before(p)], tx, WitnessAt(tx, p.source, p.index), p.offset)
            /\ SeenFit(Before(p) + 1)

\* What was hashed when is a beginning of the message.
HashedSoFar ==
    /\ pc = "rest" =>
         /\ hashed = Zeroed(tx, ReadLen(tx))
         /\ ReadLen(tx) < Size(tx, "group", 0)
    /\ pc \in {"group", "input"} =>
         /\ piece.source = pc
         /\ Before(piece) \in 0 .. GroupOthers(tx) + Extra(tx)
         /\ pc = "group" => Before(piece) <= GroupOthers(tx)
         /\ pc = "input" => piece.index >= tx.inputs
         /\ hashed = Upto(tx)[Before(piece)]
         /\ SeenFit(Before(piece))
    /\ pc = "pieces" => InHand(piece)
    /\ pc = "call" \/ (pc = "script" /\ tx.script = "rust") =>
         hashed = Message(tx) /\ SeenFit(GroupOthers(tx) + Extra(tx))

IndInv ==
    /\ TypeOK
    /\ pc # "done" => ret = "none"
    /\ IF FirstRead THEN FirstHolds(tx) ELSE pc = "done" \/ piece.source = "group"
    /\ SigRead
    /\ HashedSoFar
    /\ SignsTheMessage
    /\ SignatureApart
    /\ CallsExactlySignable

\* Every loop over pieces and witnesses ends.
AlwaysEnds == <>(pc = "done")
=============================================================================
