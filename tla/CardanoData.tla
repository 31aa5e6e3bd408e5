---------------------------- MODULE CardanoData -----------------------------
(***************************************************************************)
(* get_cardano_data (src/c/cardano/cardano_lock_inc.h): the hash to sign,  *)
(* the public key, the signature and the signed bytes are cut out of a     *)
(* Cardano transaction [body, {0: [[key, signature]]}, ...] in CBOR, the   *)
(* hash being the transaction id of the body's first input,                *)
(* {0: [[hash, 0], ...], ...}.  One action per step of the function; the   *)
(* bytes copied out are modelled by where they are copied from.            *)
(***************************************************************************)
EXTENDS Nanocbor

CONSTANT Signatures   \* records with the field bytes

ASSUME SignaturesAssumption == \A s \in Signatures : s.bytes \in Seq(0 .. 255)

VARIABLES
  pc,     \* the next step
  input,  \* the signature
  root,   \* root_arr_node
  out,    \* CardanoSignatureData, as slices of the signature
  err     \* the result

cardano_vars == <<pc, input, root, out, err>>

tx == input.bytes

CardanoSuccess == 0
CardanoErr_CBORParse == 202
CardanoErr_CBORType == 203
CardanoErr_InvaildCKBSignMsgLen == 204
CardanoErr_InvaildSignMsgIndex == 206
CardanoErr_InvaildPubKeyLen == 207
CardanoErr_InvaildSignLen == 208

BLAKE2B_BLOCK_SIZE == 32
PUBKEY_SIZE == 32
SIGNATURE_SIZE == 64

\* A slice of the signature; at is -1 for bytes copied from the null pointer.
Slice(at, len) == [at |-> at, len |-> len]
Unset == Slice(0, 0)

CardanoInit ==
  /\ pc = "root"
  /\ input \in Signatures
  /\ root = decoder_init(tx)
  /\ out = [ckb_sign_msg |-> Unset, public_key |-> Unset, signature |-> Unset,
            sign_message |-> Unset]
  /\ err = CardanoSuccess

Return(e) == pc' = "done" /\ err' = e

(***************************************************************************)
(* get_item_by_key: the value behind an integer key, counted from v on.    *)
(***************************************************************************)
\* One turn of the loop over the keys: s.more as long as it goes on.
item_round(d, key, s) ==
  LET Stop(code, i) == [res |-> code, it |-> i, more |-> FALSE]
      Value(v) == IF v.res < 0 THEN Stop(v.res, v.it) ELSE [s EXCEPT !.it = v.it]
      Key(k) == IF k.res <= 0 THEN Stop(NANOCBOR_NOT_FOUND, k.it)
                ELSE IF k.value = key THEN Stop(NANOCBOR_OK, k.it)
                ELSE Value(skip(d, k.it))
  IN  IF ~s.more THEN s
      ELSE IF at_end(d, s.it) THEN Stop(NANOCBOR_NOT_FOUND, s.it)
      ELSE Key(get_int(d, s.it, SIZE_WORD))

item_loop(d, v, key) ==
  LET after[n \in 0 .. KeyRounds(d)] ==
        IF n = 0 THEN [res |-> NANOCBOR_NOT_FOUND, it |-> v, more |-> TRUE]
        ELSE item_round(d, key, after[n - 1])
  IN  after

get_item_by_key(d, v, key) == Stopped(item_loop(d, v, key), v)

\* The first element of the array of arrays behind key 0, from inside.
FirstOfKeyZero(d, map) ==
  LET Elements(a) == IF a.res # NANOCBOR_OK THEN a ELSE enter_array(d, a.it)
      Value(v) == IF v.res # NANOCBOR_OK THEN v ELSE Elements(enter_array(d, v.it))
  IN  Value(get_item_by_key(d, map, 0))

\* A search that never ends has no result: it uses up the cycles of the VM.
NotFound(code) == IF code = ENDLESS THEN ENDLESS ELSE CardanoErr_CBORParse

(***************************************************************************)
(* The steps                                                               *)
(***************************************************************************)
\* nanocbor_get_type and nanocbor_enter_array on the whole signature.
EnterRoot ==
  /\ pc = "root"
  /\ \/ get_type(tx, root) # ARR /\ Return(CardanoErr_CBORType) /\ UNCHANGED root
     \/ /\ get_type(tx, root) = ARR
        /\ \E arr \in {enter_array(tx, root)} :
             \/ arr.res # NANOCBOR_OK /\ Return(CardanoErr_CBORParse) /\ UNCHANGED root
             \/ /\ arr.res = NANOCBOR_OK
                /\ root' = arr.it
                /\ pc' = "body"
                /\ UNCHANGED err
  /\ UNCHANGED <<input, out>>

IndexIsZero(index) == index.res >= 0 /\ index.value = 0

\* get_ckb_sign_hash: nanocbor_get_bstr's result is not looked at, so the length
\* of a string that does not fit passes and the copy is from the null pointer.
SignHash(first) ==
  \E hash \in {get_bstr(tx, first)} :
    \/ /\ hash.len # BLAKE2B_BLOCK_SIZE
       /\ Return(CardanoErr_InvaildCKBSignMsgLen)
       /\ UNCHANGED out
    \/ /\ hash.len = BLAKE2B_BLOCK_SIZE
       /\ out' = [out EXCEPT !.ckb_sign_msg = Slice(hash.buf, hash.len)]
       /\ \E index \in {get_int(tx, hash.it, SIZE_WORD)} :
            \/ ~IndexIsZero(index) /\ Return(CardanoErr_InvaildSignMsgIndex)
            \/ IndexIsZero(index) /\ pc' = "skip" /\ UNCHANGED err

GetSignHash ==
  /\ pc = "body"
  /\ \E body \in {enter_map(tx, root)} :
       \/ body.res # NANOCBOR_OK /\ Return(CardanoErr_CBORParse) /\ UNCHANGED out
       \/ /\ body.res = NANOCBOR_OK
          /\ \E first \in {FirstOfKeyZero(tx, body.it)} :
               \/ /\ first.res # NANOCBOR_OK
                  /\ Return(NotFound(first.res))
                  /\ UNCHANGED out
               \/ first.res = NANOCBOR_OK /\ SignHash(first.it)
  /\ UNCHANGED <<input, root>>

\* nanocbor_skip's result is not looked at either: wherever it stops, the next
\* step goes on.
SkipBody ==
  /\ pc = "skip"
  /\ \E body \in {skip(tx, root)} :
       \/ body.res = ENDLESS /\ Return(ENDLESS) /\ UNCHANGED root
       \/ /\ body.res # ENDLESS
          /\ root' = body.it
          /\ pc' = "witness"
          /\ UNCHANGED err
  /\ UNCHANGED <<input, out>>

\* get_sign_data: the key and the signature of the first witness.
SignData(first) ==
  \E key \in {get_bstr(tx, first)} :
    \/ key.res # NANOCBOR_OK /\ Return(CardanoErr_CBORParse) /\ UNCHANGED out
    \/ /\ key.res = NANOCBOR_OK
       /\ key.len # PUBKEY_SIZE
       /\ Return(CardanoErr_InvaildPubKeyLen)
       /\ UNCHANGED out
    \/ /\ key.res = NANOCBOR_OK
       /\ key.len = PUBKEY_SIZE
       /\ \E sig \in {get_bstr(tx, key.it)} :
            LET keyed == [out EXCEPT !.public_key = Slice(key.buf, key.len)]
            IN  \/ /\ sig.res # NANOCBOR_OK
                   /\ Return(CardanoErr_CBORParse)
                   /\ out' = keyed
                \/ /\ sig.res = NANOCBOR_OK
                   /\ sig.len # SIGNATURE_SIZE
                   /\ Return(CardanoErr_InvaildSignLen)
                   /\ out' = keyed
                \/ /\ sig.res = NANOCBOR_OK
                   /\ sig.len = SIGNATURE_SIZE
                   /\ pc' = "message"
                   /\ out' = [keyed EXCEPT !.signature = Slice(sig.buf, sig.len)]
                   /\ UNCHANGED err

GetSignData ==
  /\ pc = "witness"
  /\ \E map \in {enter_map(tx, root)} :
       \/ map.res # NANOCBOR_OK /\ Return(CardanoErr_CBORParse) /\ UNCHANGED out
       \/ /\ map.res = NANOCBOR_OK
          /\ \E first \in {FirstOfKeyZero(tx, map.it)} :
               \/ /\ first.res # NANOCBOR_OK
                  /\ Return(NotFound(first.res))
                  /\ UNCHANGED out
               \/ first.res = NANOCBOR_OK /\ SignData(first.it)
  /\ UNCHANGED <<input, root>>

\* Mutants: the four heads in front of the key are not counted; the key counts
\* as long as the signature; nothing is taken off.
SignMsgLenHeads(len) == len - 1 - (64 + 2) - (32 + 2) - 1
SignMsgLenTwice(len) == len - 1 - (64 + 2) - (64 + 2) - 4 - 1
SignMsgLenAll(len) == len

\* What is left of the signature without the array's head and, at its end, the
\* witness set and one byte: taken to be the body.
SignMsgLen(len) == len - 1 - (64 + 2) - (32 + 2) - 4 - 1

\* get_cardano_sign_message: the bytes that are hashed.
GetSignMessage ==
  /\ pc = "message"
  /\ out' = [out EXCEPT !.sign_message = Slice(1, SignMsgLen(Len(tx)))]
  /\ Return(CardanoSuccess)
  /\ UNCHANGED <<input, root>>

Done == pc = "done" /\ UNCHANGED cardano_vars

CardanoNext == EnterRoot \/ GetSignHash \/ SkipBody \/ GetSignData \/ GetSignMessage \/ Done

CardanoSpec == CardanoInit /\ [][CardanoNext]_cardano_vars

(***************************************************************************)
(* Properties                                                              *)
(***************************************************************************)
Inside(s) == s.at >= 0 /\ s.len >= 0 /\ s.at + s.len <= Len(tx)

Within(s, t) == t.at <= s.at /\ s.at + s.len <= t.at + t.len

Accepted == pc = "done" /\ err = CardanoSuccess

\* A transaction as the wallets write it, whatever else is in its body and
\* however its containers are written, is taken apart right: the hash, the key
\* and the signature are the ones it holds, and what is hashed is its body and
\* nothing but its body (get_cardano_sign_message counts 106 bytes around it).
WalletParsed ==
  pc = "done" /\ input.wallet =>
    /\ err = CardanoSuccess
    /\ out = input.parts

\* What is copied out on success comes from the signature: no length wrapped
\* round, the subtraction in get_cardano_sign_message did not, and the hash was
\* not copied from the null pointer, although the result of reading it is not
\* looked at (cardano_lock_inc.h:162, :177).
CopiedFromSignature ==
  Accepted =>
    /\ \A f \in DOMAIN out : Inside(out[f])
    /\ out.ckb_sign_msg.len = BLAKE2B_BLOCK_SIZE

\* Where the body begins: behind the head of the array.
BodyStart == enter_array(tx, decoder_init(tx)).it

\* The hash that is compared with the message to sign is among the bytes that
\* are hashed and verified, in any transaction whose body nanocbor_skip passed
\* over without an error, canonical or not: the witness set lies behind the
\* body and is never shorter than what get_cardano_sign_message takes off for
\* it.  The code does not establish that premise, as it ignores the result of
\* the skip (cardano_lock_inc.h:207), and nothing is claimed without it.
SignedCoversHash ==
  Accepted /\ skip(tx, BodyStart).res = NANOCBOR_OK =>
    Within(out.ckb_sign_msg, out.sign_message)

(***************************************************************************)
(* The inductive invariant: what a step read is told again from the        *)
(* signature at every step behind it.                                      *)
(***************************************************************************)
BodyFound == enter_array(tx, decoder_init(tx)).res = NANOCBOR_OK

HashRead ==
  LET map == enter_map(tx, BodyStart)
      first == FirstOfKeyZero(tx, map.it)
      hash == get_bstr(tx, first.it)
  IN  /\ map.res = NANOCBOR_OK /\ first.res = NANOCBOR_OK
      /\ hash.len = BLAKE2B_BLOCK_SIZE
      /\ IndexIsZero(get_int(tx, hash.it, SIZE_WORD))
      /\ out.ckb_sign_msg = Slice(hash.buf, hash.len)

BodySkipped == skip(tx, BodyStart).res # ENDLESS /\ root = skip(tx, BodyStart).it

WitnessRead ==
  LET map == enter_map(tx, root)
      first == FirstOfKeyZero(tx, map.it)
      key == get_bstr(tx, first.it)
      sig == get_bstr(tx, key.it)
  IN  /\ map.res = NANOCBOR_OK /\ first.res = NANOCBOR_OK
      /\ key.res = NANOCBOR_OK /\ key.len = PUBKEY_SIZE
      /\ sig.res = NANOCBOR_OK /\ sig.len = SIGNATURE_SIZE
      /\ out.public_key = Slice(key.buf, key.len)
      /\ out.signature = Slice(sig.buf, sig.len)

CardanoInv ==
  /\ input \in Signatures
  /\ DOMAIN out = {"ckb_sign_msg", "public_key", "signature", "sign_message"}
  /\ pc = "root" => root = decoder_init(tx)
  /\ pc \in {"body", "skip"} => root = BodyStart
  /\ pc \in {"body", "skip", "witness", "message"} \/ Accepted => BodyFound
  /\ pc \in {"skip", "witness", "message"} \/ Accepted => HashRead
  /\ pc \in {"witness", "message"} \/ Accepted => BodySkipped
  /\ pc = "message" \/ Accepted => WitnessRead
  /\ Accepted => out.sign_message = Slice(1, SignMsgLen(Len(tx)))
=============================================================================
