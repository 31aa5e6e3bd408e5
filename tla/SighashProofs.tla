---------------------------- MODULE SighashProofs ----------------------------
(***************************************************************************)
(* Proofs about Sighash, for any transactions and any sizes of the         *)
(* buffers: the scripts hash the message the wallet signs, no byte of the  *)
(* signature is in it, and exactly the transactions a lock holder can sign *)
(* get to ckb_auth.                                                        *)
(***************************************************************************)
EXTENDS Sighash, TLAPS, SequenceTheorems, WellFoundedInduction

\* A set of numbers has a least one.
LEMMA LeastNumber ==
  ASSUME NEW T, T \subseteq Nat, T # {}
  PROVE  \E m \in T : \A k \in T : m <= k
<1> DEFINE R == OpToRel(<, Nat)
<1>1. IsWellFoundedOn(R, Nat)
  BY NatLessThanWellFounded
<1>2. R = { ss \in Nat \X Nat : ss[1] < ss[2] }
  BY DEF OpToRel
<1> HIDE DEF R
<1>3. PICK m \in T : \A k \in T : ~(<<k, m>> \in R)
  BY <1>1, WFMin
<1>4. ASSUME NEW k \in T PROVE m <= k
  <2>1. <<k, m>> \in Nat \X Nat /\ <<k, m>>[1] = k /\ <<k, m>>[2] = m
    OBVIOUS
  <2>2. ~(k < m)
    BY <1>2, <1>3, <2>1
  <2>3. QED
    BY <2>2
<1>5. QED
  BY <1>4

\* Induction, for a set of numbers.
LEMMA AllNumbers ==
  ASSUME NEW S, 0 \in S, \A n \in Nat : n \in S => n + 1 \in S
  PROVE  \A n \in Nat : n \in S
<1> SUFFICES ASSUME NEW n \in Nat, n \notin S PROVE FALSE
  OBVIOUS
<1> DEFINE T == { k \in Nat : k \notin S }
<1>1. PICK m \in T : \A k \in T : m <= k
  BY LeastNumber
<1>2. m \in Nat /\ m # 0 /\ m - 1 \in Nat /\ m \notin S
  BY <1>1
<1>3. m - 1 \in S
  BY <1>1, <1>2
<1>4. (m - 1) + 1 = m
  BY <1>2
<1>5. QED
  BY <1>2, <1>3, <1>4

-----------------------------------------------------------------------------
\* What a transaction's group is.
LEMMA GroupIs ==
  ASSUME NEW t, IsTx(t)
  PROVE  /\ t.group \in Seq(Nat) /\ Len(t.group) \in Nat /\ Len(t.group) >= 1
         /\ t.witnesses \in Seq(Nat) /\ Len(t.witnesses) \in Nat /\ t.inputs \in Nat
         /\ t.lock_length \in Nat
         /\ \A k \in 1 .. Len(t.group) : t.group[k] \in Nat /\ t.group[k] < t.inputs
         /\ \A j, k \in 1 .. Len(t.group) : j < k => t.group[j] < t.group[k]
<1>1. t.group \in Seq(0 .. t.inputs - 1) /\ t.inputs \in Nat /\ t.witnesses \in Seq(Nat)
  BY DEF IsTx
<1>2. 0 .. t.inputs - 1 \subseteq Nat
  BY <1>1
<1>3. \A k \in 1 .. Len(t.group) : t.group[k] \in 0 .. t.inputs - 1
  BY <1>1, ElementOfSeq
<1>4. t.group \in Seq(Nat)
  BY <1>1, <1>2
<1>5. \A k \in 1 .. Len(t.group) : t.group[k] \in Nat /\ t.group[k] < t.inputs
  BY <1>1, <1>3
<1>6. t.lock_length \in Nat
  BY SizesAssumption DEF IsTx
<1>7. Len(t.group) \in Nat /\ Len(t.group) >= 1 /\ Len(t.witnesses) \in Nat
  BY <1>1, <1>4, LenProperties DEF IsTx
<1>8. QED
  BY <1>1, <1>4, <1>5, <1>6, <1>7 DEF IsTx

\* The inputs of the group that have a witness come first.
LEMMA GroupOthersIs ==
  ASSUME NEW t, IsTx(t)
  PROVE  /\ GroupOthers(t) \in 0 .. Len(t.group) - 1
         /\ \A k \in 2 .. Len(t.group) : t.group[k] < Len(t.witnesses) <=> k <= GroupOthers(t) + 1
<1> DEFINE L == Len(t.group)
           W == Len(t.witnesses)
           Good(n) == \A k \in 2 .. L : t.group[k] < W <=> k <= n + 1
           T == { k \in 2 .. L : ~(t.group[k] < W) }
<1>1. /\ L \in Nat /\ L >= 1 /\ W \in Nat
      /\ \A k \in 1 .. L : t.group[k] \in Nat
      /\ \A j, k \in 1 .. L : j < k => t.group[j] < t.group[k]
  BY GroupIs
<1> HIDE DEF L, W
<1>2. \E n \in 0 .. L - 1 : Good(n)
  <2>1. CASE T = {}
    <3>1. Good(L - 1)
      BY <1>1, <2>1
    <3>2. L - 1 \in 0 .. L - 1
      BY <1>1
    <3>3. QED
      BY <3>1, <3>2
  <2>2. CASE T # {}
    <3>1. T \subseteq Nat
      BY <1>1
    <3>2. PICK m \in T : \A k \in T : m <= k
      BY <2>2, <3>1, LeastNumber
    <3>3. m \in 2 .. L /\ ~(t.group[m] < W) /\ m - 2 \in 0 .. L - 1
      BY <1>1, <3>2
    <3>4. ASSUME NEW k \in 2 .. L PROVE t.group[k] < W <=> k <= (m - 2) + 1
      <4>1. CASE k < m
        BY <1>1, <3>2, <3>3, <4>1
      <4>2. CASE k = m
        BY <1>1, <3>3, <4>2
      <4>3. CASE k > m
        <5>1. t.group[m] < t.group[k] /\ t.group[m] \in Nat /\ t.group[k] \in Nat
          BY <1>1, <3>3, <4>3
        <5>2. QED
          BY <1>1, <3>3, <4>3, <5>1
      <4>4. QED
        BY <1>1, <3>3, <4>1, <4>2, <4>3
    <3>5. QED
      BY <3>3, <3>4
  <2>3. QED
    BY <2>1, <2>2
<1>3. GroupOthers(t) = CHOOSE n \in 0 .. L - 1 : Good(n)
  BY DEF GroupOthers, L, W
<1> HIDE DEF Good
<1>4. GroupOthers(t) \in 0 .. L - 1 /\ Good(GroupOthers(t))
  BY <1>2, <1>3
<1>5. QED
  BY <1>4 DEF Good, L, W

\* How many witnesses besides the first are hashed.
LEMMA Counts ==
  ASSUME NEW t, IsTx(t)
  PROVE  /\ GroupOthers(t) \in Nat /\ Extra(t) \in Nat /\ GroupOthers(t) + Extra(t) \in Nat
         /\ GroupOthers(t) < Len(t.group)
BY GroupIs, GroupOthersIs DEF Extra

\* Each of them is there and is not the first.
LEMMA OthersAre ==
  ASSUME NEW t, IsTx(t)
  PROVE  /\ DOMAIN Others(t) = 1 .. GroupOthers(t) + Extra(t)
         /\ \A k \in 1 .. GroupOthers(t) : Others(t)[k] = t.group[k + 1]
         /\ \A k \in 1 .. GroupOthers(t) + Extra(t) :
              /\ k > GroupOthers(t) => Others(t)[k] = t.inputs + (k - GroupOthers(t) - 1)
              /\ Others(t)[k] \in Nat /\ Others(t)[k] < Len(t.witnesses) /\ Others(t)[k] # t.group[1]
<1> DEFINE n == GroupOthers(t)
           e == Extra(t)
<1>1. /\ n \in Nat /\ e \in Nat /\ n < Len(t.group) /\ Len(t.group) \in Nat
      /\ \A k \in 2 .. Len(t.group) : t.group[k] < Len(t.witnesses) <=> k <= n + 1
      /\ e > 0 => e = Len(t.witnesses) - t.inputs
      /\ t.inputs \in Nat /\ Len(t.witnesses) \in Nat
  <2>1. t.inputs \in Nat /\ Len(t.witnesses) \in Nat /\ Len(t.group) \in Nat
    BY GroupIs
  <2>2. e > 0 => e = Len(t.witnesses) - t.inputs
    BY <2>1 DEF Extra
  <2>3. n \in Nat /\ e \in Nat /\ n < Len(t.group)
    BY Counts
  <2>4. QED
    BY <2>1, <2>2, <2>3, GroupOthersIs
<1>2. /\ \A k \in 1 .. Len(t.group) : t.group[k] \in Nat /\ t.group[k] < t.inputs
      /\ \A j, k \in 1 .. Len(t.group) : j < k => t.group[j] < t.group[k]
  BY GroupIs
<1>3. Others(t) = [k \in 1 .. n + e |-> IF k <= n THEN t.group[k + 1] ELSE t.inputs + (k - n - 1)]
  BY DEF Others
<1> HIDE DEF n, e
<1>4. ASSUME NEW k \in 1 .. n + e
      PROVE  /\ k <= n => Others(t)[k] = t.group[k + 1]
             /\ k > n => Others(t)[k] = t.inputs + (k - n - 1)
             /\ Others(t)[k] \in Nat /\ Others(t)[k] < Len(t.witnesses) /\ Others(t)[k] # t.group[1]
  <2>1. CASE k <= n
    <3>1. k + 1 \in 2 .. Len(t.group) /\ 1 \in 1 .. Len(t.group) /\ k + 1 \in 1 .. Len(t.group) /\ 1 < k + 1 /\ k + 1 <= n + 1
      BY <1>1, <2>1
    <3>2. Others(t)[k] = t.group[k + 1]
      BY <1>3, <2>1
    <3>3. t.group[k + 1] < Len(t.witnesses) /\ t.group[1] < t.group[k + 1] /\ t.group[k + 1] \in Nat /\ t.group[1] \in Nat
      BY <1>1, <1>2, <3>1
    <3>4. QED
      BY <1>1, <2>1, <3>2, <3>3
  <2>2. CASE k > n
    <3>1. Others(t)[k] = t.inputs + (k - n - 1)
      BY <1>1, <1>3, <2>2
    <3>2. t.group[1] \in Nat /\ t.group[1] < t.inputs
      BY <1>1, <1>2
    <3>3. QED
      BY <1>1, <2>2, <3>1, <3>2
  <2>3. QED
    BY <1>1, <2>1, <2>2
<1>5. \A k \in 1 .. n : k \in 1 .. n + e /\ k <= n
  BY <1>1
<1>6. DOMAIN Others(t) = 1 .. n + e
  BY <1>3
<1>7. QED
  BY <1>4, <1>5, <1>6 DEF n, e

\* The recursion that defines the message is well founded.
LEMMA UptoIs ==
  ASSUME NEW t, IsTx(t)
  PROVE  /\ Upto(t)[0] = Zeroed(t, t.witnesses[t.group[1] + 1])
         /\ \A k \in 1 .. GroupOthers(t) + Extra(t) :
              Upto(t)[k] = Followed(Upto(t)[k - 1], t, Others(t)[k], t.witnesses[Others(t)[k] + 1])
<1> DEFINE N == GroupOthers(t) + Extra(t)
           Z == Zeroed(t, t.witnesses[t.group[1] + 1])
           F(x, k) == Followed(x, t, Others(t)[k], t.witnesses[Others(t)[k] + 1])
           S == { m \in Nat : \E f : f = [k \in 0 .. m |-> IF k = 0 THEN Z ELSE F(f[k - 1], k)] }
<1>1. N \in Nat
  BY Counts
<1>2. Upto(t) = CHOOSE f : f = [k \in 0 .. N |-> IF k = 0 THEN Z ELSE F(f[k - 1], k)]
  BY DEF Upto
<1> HIDE DEF N, Z, F
<1>3. 0 \in S
  <2> DEFINE f == [k \in 0 .. 0 |-> Z]
  <2>1. f = [k \in 0 .. 0 |-> IF k = 0 THEN Z ELSE F(f[k - 1], k)]
    OBVIOUS
  <2>2. QED
    BY <2>1
<1>4. ASSUME NEW m \in Nat, m \in S PROVE m + 1 \in S
  <2>1. PICK f : f = [k \in 0 .. m |-> IF k = 0 THEN Z ELSE F(f[k - 1], k)]
    BY <1>4
  <2> DEFINE g == [k \in 0 .. m + 1 |-> IF k <= m THEN f[k] ELSE F(f[m], m + 1)]
  <2>2. ASSUME NEW k \in 0 .. m + 1
        PROVE  g[k] = IF k = 0 THEN Z ELSE F(g[k - 1], k)
    <3>1. CASE k = 0
      BY <2>1, <3>1
    <3>2. CASE k \in 1 .. m
      <4>1. k \in 0 .. m /\ k - 1 \in 0 .. m + 1 /\ k - 1 <= m /\ k # 0 /\ k <= m
        BY <3>2
      <4>2. f[k] = F(f[k - 1], k)
        BY <2>1, <4>1
      <4>3. g[k] = f[k] /\ g[k - 1] = f[k - 1]
        BY <4>1
      <4>4. QED
        BY <4>1, <4>2, <4>3
    <3>3. CASE k = m + 1
      <4>1. k # 0 /\ k - 1 = m /\ m \in 0 .. m + 1 /\ m <= m /\ ~(k <= m)
        BY <3>3
      <4>2. g[k] = F(f[m], m + 1) /\ g[m] = f[m]
        BY <4>1
      <4>3. QED
        BY <3>3, <4>1, <4>2
    <3>4. QED
      BY <3>1, <3>2, <3>3
  <2>3. g = [k \in 0 .. m + 1 |-> g[k]]
    OBVIOUS
  <2> HIDE DEF g
  <2>4. g = [k \in 0 .. m + 1 |-> IF k = 0 THEN Z ELSE F(g[k - 1], k)]
    BY <2>2, <2>3
  <2>5. QED
    BY <2>4
<1>5. N \in S
  BY <1>1, <1>3, <1>4, AllNumbers
<1>6. Upto(t) = [k \in 0 .. N |-> IF k = 0 THEN Z ELSE F(Upto(t)[k - 1], k)]
  BY <1>2, <1>5
<1>7. Upto(t)[0] = Z /\ \A k \in 1 .. N : Upto(t)[k] = F(Upto(t)[k - 1], k)
  BY <1>1, <1>6
<1>8. QED
  BY <1>7 DEF N, Z, F

-----------------------------------------------------------------------------
\* A run that continues the last one is joined to it.
LEMMA UpdateJoins ==
  ASSUME NEW stream \in Seq(Runs), NEW last \in Runs, NEW run \in Runs,
         Joins(last, run), run.from # run.to
  PROVE  Update(Append(stream, last), run) = Append(stream, [last EXCEPT !.to = run.to])
<1> DEFINE a == Append(stream, last)
           b == Append(stream, [last EXCEPT !.to = run.to])
<1>1. [last EXCEPT !.to = run.to] \in Runs
  BY DEF Runs
<1>2. /\ a \in Seq(Runs) /\ Len(a) = Len(stream) + 1 /\ Len(stream) \in Nat
      /\ \A k \in 1 .. Len(stream) : a[k] = stream[k]
      /\ a[Len(stream) + 1] = last
  BY AppendProperties, LenProperties
<1>3. /\ b \in Seq(Runs) /\ Len(b) = Len(stream) + 1
      /\ \A k \in 1 .. Len(stream) : b[k] = stream[k]
      /\ b[Len(stream) + 1] = [last EXCEPT !.to = run.to]
  BY <1>1, AppendProperties
<1> HIDE DEF a, b
<1>4. a # <<>>
  BY <1>2, EmptySeq
<1>5. Update(a, run) = [a EXCEPT ![Len(a)] = [last EXCEPT !.to = run.to]]
  BY <1>2, <1>4 DEF Update
<1> DEFINE c == [a EXCEPT ![Len(a)] = [last EXCEPT !.to = run.to]]
<1>6. /\ c \in Seq(Runs) /\ Len(c) = Len(a)
      /\ \A k \in 1 .. Len(a) : c[k] = IF k = Len(a) THEN [last EXCEPT !.to = run.to] ELSE a[k]
  BY <1>1, <1>2
<1> HIDE DEF c
<1>7. \A k \in 1 .. Len(stream) + 1 : c[k] = b[k]
  BY <1>2, <1>3, <1>6
<1>8. c = b
  BY <1>2, <1>3, <1>6, <1>7, SeqEqual
<1>9. QED
  BY <1>5, <1>8 DEF a, b, c

\* Any other run is put behind it.
LEMMA UpdateAppends ==
  ASSUME NEW stream \in Seq(Runs), NEW last \in Runs, NEW run \in Runs,
         ~Joins(last, run), run.from # run.to
  PROVE  Update(Append(stream, last), run) = Append(Append(stream, last), run)
<1>1. /\ Append(stream, last) \in Seq(Runs) /\ Len(Append(stream, last)) = Len(stream) + 1
      /\ Append(stream, last)[Len(stream) + 1] = last
  BY AppendProperties
<1>2. QED
  BY <1>1 DEF Update

\* Every run ends behind byte 0, so a run that starts there continues none.
LEMMA UpdateFromZero ==
  ASSUME NEW stream \in Seq(Runs), NEW run \in Runs, run.from = 0
  PROVE  Update(stream, run) = Append(stream, run)
<1>1. run.to # 0 /\ run.from # run.to
  BY DEF Runs
<1>2. CASE stream = <<>>
  BY <1>1, <1>2 DEF Update
<1>3. CASE stream # <<>>
  <2>1. Len(stream) \in 1 .. Len(stream)
    BY <1>3, EmptySeq, LenProperties
  <2>2. stream[Len(stream)] \in Runs
    BY <2>1, ElementOfSeq
  <2>3. ~Joins(stream[Len(stream)], run)
    BY <2>2 DEF Joins, Runs
  <2>4. QED
    BY <1>1, <2>3 DEF Update
<1>4. QED
  BY <1>2, <1>3

-----------------------------------------------------------------------------
\* A run that does not end at byte 0 is one the stream may hold.
LEMMA RunIs ==
  ASSUME NEW kind \in {"tx_hash", "length", "byte", "zero"}, NEW of \in Nat,
         NEW from \in Nat, NEW to \in Nat, to # 0
  PROVE  /\ Run(kind, of, from, to) \in Runs
         /\ Run(kind, of, from, to).kind = kind /\ Run(kind, of, from, to).of = of
         /\ Run(kind, of, from, to).from = from /\ Run(kind, of, from, to).to = to
BY DEF Run, Runs

\* What the first witness is when generate_sighash_all has read it.
LEMMA FirstIs ==
  ASSUME NEW t, IsTx(t), FirstHolds(t)
  PROVE  /\ WitnessAt(t, "group", 0) = t.group[1] /\ t.group[1] \in Nat
         /\ t.group[1] < Len(t.witnesses)
         /\ Size(t, "group", 0) = t.witnesses[t.group[1] + 1]
         /\ t.witnesses[t.group[1] + 1] \in Nat /\ ReadLen(t) \in Nat
         /\ ReadLen(t) <= t.witnesses[t.group[1] + 1] /\ ReadLen(t) <= MAX_WITNESS_SIZE
         /\ t.lock_length \in Nat /\ LOCK + t.lock_length <= ReadLen(t)
<1>1. /\ Len(t.group) >= 1 /\ Len(t.group) \in Nat /\ t.group[1] \in Nat /\ t.lock_length \in Nat
      /\ t.witnesses \in Seq(Nat) /\ Len(t.witnesses) \in Nat
  BY GroupIs
<1>2. WitnessAt(t, "group", 0) = t.group[1]
  BY <1>1 DEF WitnessAt
<1>3. t.group[1] < Len(t.witnesses)
  BY <1>1, <1>2 DEF FirstHolds, Missing
<1>4. t.group[1] + 1 \in 1 .. Len(t.witnesses)
  BY <1>1, <1>3
<1>5. t.witnesses[t.group[1] + 1] \in Nat
  BY <1>1, <1>4, ElementOfSeq
<1>6. Size(t, "group", 0) = t.witnesses[t.group[1] + 1]
  BY <1>2 DEF Size
<1>7. /\ ReadLen(t) \in Nat /\ ReadLen(t) <= t.witnesses[t.group[1] + 1]
      /\ ReadLen(t) <= MAX_WITNESS_SIZE
  BY <1>5, <1>6, SizesAssumption DEF ReadLen, Small
<1>8. QED
  BY <1>1, <1>2, <1>3, <1>5, <1>6, <1>7 DEF FirstHolds

\* The beginning of the stream, in its three forms.
LEMMA ZeroedParts ==
  ASSUME NEW t, IsTx(t), FirstHolds(t)
  PROVE  LET w    == t.group[1]
             head == <<TxHash, Length(t.witnesses[w + 1])>>
             lock == Append(head, Run("byte", w, 0, LOCK))
         IN  /\ head \in Seq(Runs) /\ lock \in Seq(Runs)
             /\ Run("byte", w, 0, LOCK) \in Runs
             /\ Run("zero", w, LOCK, LOCK + t.lock_length) \in Runs
             /\ \A end \in Nat : end >= LOCK + t.lock_length =>
                  /\ Run("byte", w, 0, end) \in Runs
                  /\ Run("byte", w, LOCK + t.lock_length, end) \in Runs
                  /\ Zeroed(t, end) =
                       IF t.lock_length = 0 THEN Append(head, Run("byte", w, 0, end))
                       ELSE IF end = LOCK + t.lock_length
                       THEN Append(lock, Run("zero", w, LOCK, LOCK + t.lock_length))
                       ELSE Append(Append(lock, Run("zero", w, LOCK, LOCK + t.lock_length)),
                                   Run("byte", w, LOCK + t.lock_length, end))
<1> DEFINE w == t.group[1]
           size == t.witnesses[w + 1]
           head == <<TxHash, Length(size)>>
           lock == Append(head, Run("byte", w, 0, LOCK))
<1>1. w \in Nat /\ size \in Nat /\ t.lock_length \in Nat
  BY FirstIs
<1>2. TxHash \in Runs /\ Length(size) \in Runs
  BY <1>1 DEF TxHash, Length, Run, Runs
<1>3. head \in Seq(Runs)
  BY <1>2
<1>4. /\ LOCK \in Nat /\ LOCK # 0 /\ LOCK + t.lock_length \in Nat /\ LOCK + t.lock_length # 0
      /\ 0 \in Nat
  BY <1>1 DEF LOCK
<1>5. Run("byte", w, 0, LOCK) \in Runs
  BY <1>1, <1>4, RunIs
<1>6. Run("zero", w, LOCK, LOCK + t.lock_length) \in Runs
  BY <1>1, <1>4, RunIs
<1>7. ASSUME NEW end \in Nat, end >= LOCK + t.lock_length
      PROVE  Run("byte", w, 0, end) \in Runs /\ Run("byte", w, LOCK + t.lock_length, end) \in Runs
  <2>1. end # 0
    BY <1>1, <1>4, <1>7
  <2>2. QED
    BY <1>1, <1>4, <2>1, RunIs
<1>8. lock \in Seq(Runs)
  BY <1>3, <1>5, AppendProperties
<1>9. QED
  BY <1>3, <1>5, <1>6, <1>7, <1>8 DEF Zeroed

\* It is a stream of runs, and hashing further bytes of the first witness
\* continues it.
LEMMA ZeroedSeq ==
  ASSUME NEW t, IsTx(t), FirstHolds(t), NEW end \in Nat, end >= LOCK + t.lock_length
  PROVE  Zeroed(t, end) \in Seq(Runs)
<1> DEFINE w == t.group[1]
           l == t.lock_length
           head == <<TxHash, Length(t.witnesses[w + 1])>>
           lock == Append(head, Run("byte", w, 0, LOCK))
           zero == Run("zero", w, LOCK, LOCK + l)
           whole == Run("byte", w, 0, end)
           last == Run("byte", w, LOCK + l, end)
<1>1. /\ head \in Seq(Runs) /\ lock \in Seq(Runs) /\ zero \in Runs
      /\ whole \in Runs /\ last \in Runs
      /\ Zeroed(t, end) = IF l = 0 THEN Append(head, whole)
                          ELSE IF end = LOCK + l THEN Append(lock, zero)
                          ELSE Append(Append(lock, zero), last)
  BY ZeroedParts
<1> HIDE DEF head, lock, zero, whole, last
<1>2. QED
  BY <1>1, AppendProperties

\* Hashing the next bytes of the first witness reads on to where they end.
LEMMA ZeroedMore ==
  ASSUME NEW t, IsTx(t), FirstHolds(t), NEW end \in Nat, end >= LOCK + t.lock_length,
         NEW more \in Nat, more > end
  PROVE  Update(Zeroed(t, end), Run("byte", t.group[1], end, more)) = Zeroed(t, more)
<1> DEFINE w == t.group[1]
           l == t.lock_length
           head == <<TxHash, Length(t.witnesses[w + 1])>>
           lock == Append(head, Run("byte", w, 0, LOCK))
           zero == Run("zero", w, LOCK, LOCK + l)
           run == Run("byte", w, end, more)
<1>1. /\ head \in Seq(Runs) /\ lock \in Seq(Runs) /\ zero \in Runs
      /\ Run("byte", w, 0, end) \in Runs /\ Run("byte", w, LOCK + l, end) \in Runs
      /\ Zeroed(t, end) = IF l = 0 THEN Append(head, Run("byte", w, 0, end))
                          ELSE IF end = LOCK + l THEN Append(lock, zero)
                          ELSE Append(Append(lock, zero), Run("byte", w, LOCK + l, end))
  BY ZeroedParts
<1>2. w \in Nat /\ l \in Nat /\ LOCK \in Nat
  BY FirstIs DEF LOCK
<1>3. more >= LOCK + l /\ more # LOCK + l /\ more # 0 /\ end # more
  BY <1>2
<1>4. Zeroed(t, more) = IF l = 0 THEN Append(head, Run("byte", w, 0, more))
                        ELSE Append(Append(lock, zero), Run("byte", w, LOCK + l, more))
  BY <1>3, ZeroedParts
<1>5. run \in Runs /\ run.kind = "byte" /\ run.of = w /\ run.from = end /\ run.to = more
  BY <1>2, <1>3 DEF Run, Runs
<1> HIDE DEF head, lock, zero, run
<1>6. CASE l = 0
  <2>1. Joins(Run("byte", w, 0, end), run)
    BY <1>5 DEF Joins, Run
  <2>2. [Run("byte", w, 0, end) EXCEPT !.to = run.to] = Run("byte", w, 0, more)
    BY <1>5 DEF Run
  <2>3. Update(Append(head, Run("byte", w, 0, end)), run) = Append(head, Run("byte", w, 0, more))
    BY <1>1, <1>3, <1>5, <2>1, <2>2, UpdateJoins
  <2>4. QED
    BY <1>1, <1>4, <1>6, <2>3 DEF run
<1>7. CASE l # 0 /\ end = LOCK + l
  <2>1. ~Joins(zero, run)
    BY <1>5 DEF Joins, Run, zero
  <2>2. Update(Append(lock, zero), run) = Append(Append(lock, zero), run)
    BY <1>1, <1>3, <1>5, <2>1, UpdateAppends
  <2>3. run = Run("byte", w, LOCK + l, more)
    BY <1>7 DEF run
  <2>4. QED
    BY <1>1, <1>4, <1>7, <2>2, <2>3 DEF run
<1>8. CASE l # 0 /\ end # LOCK + l
  <2>1. Joins(Run("byte", w, LOCK + l, end), run)
    BY <1>5 DEF Joins, Run
  <2>2. [Run("byte", w, LOCK + l, end) EXCEPT !.to = run.to] = Run("byte", w, LOCK + l, more)
    BY <1>5 DEF Run
  <2>3. Append(lock, zero) \in Seq(Runs)
    BY <1>1, AppendProperties
  <2>4. Update(Append(Append(lock, zero), Run("byte", w, LOCK + l, end)), run)
          = Append(Append(lock, zero), Run("byte", w, LOCK + l, more))
    <3> DEFINE a == Append(lock, zero)
               b == Run("byte", w, LOCK + l, end)
    <3>1. a \in Seq(Runs) /\ b \in Runs /\ Joins(b, run) /\ run.from # run.to
      BY <1>1, <1>3, <1>5, <2>1, <2>3
    <3>2. [b EXCEPT !.to = run.to] = Run("byte", w, LOCK + l, more)
      BY <2>2
    <3> HIDE DEF a, b
    <3>3. Update(Append(a, b), run) = Append(a, [b EXCEPT !.to = run.to])
      BY <1>5, <3>1, UpdateJoins
    <3>4. QED
      BY <3>2, <3>3 DEF a, b
  <2>5. QED
    BY <1>1, <1>4, <1>8, <2>4 DEF run
<1>9. QED
  BY <1>6, <1>7, <1>8

\* generate_sighash_all hashes what its buffer holds of the first witness as the
\* wallet does.
LEMMA FirstHashed ==
  ASSUME NEW t, IsTx(t), FirstHolds(t)
  PROVE  HashFirst(t) = Zeroed(t, ReadLen(t))
<1> DEFINE w == t.group[1]
           l == t.lock_length
           to == LOCK + l
           head == <<TxHash, Length(t.witnesses[w + 1])>>
           open == Run("byte", w, 0, LOCK)
           lock == Append(head, open)
           zero == Run("zero", w, LOCK, to)
           end == ReadLen(t)
           last == Run("byte", w, to, end)
<1>1. /\ WitnessAt(t, "group", 0) = w /\ Size(t, "group", 0) = t.witnesses[w + 1]
      /\ end \in Nat /\ to <= end /\ w \in Nat /\ l \in Nat
  BY FirstIs
<1>2. HashFirst(t) = Update(Update(Update(head, open), zero), last)
  BY <1>1 DEF HashFirst
<1>3. /\ head \in Seq(Runs) /\ lock \in Seq(Runs) /\ zero \in Runs /\ open \in Runs /\ last \in Runs
      /\ Zeroed(t, end) = IF l = 0 THEN Append(head, Run("byte", w, 0, end))
                          ELSE IF end = to THEN Append(lock, zero)
                          ELSE Append(Append(lock, zero), last)
  <2>1. end >= to
    BY <1>1 DEF LOCK
  <2>2. QED
    BY <1>1, <2>1, ZeroedParts
<1>4. /\ open.from = 0 /\ open.to = LOCK /\ open.kind = "byte" /\ open.of = w
      /\ zero.from = LOCK /\ zero.to = to /\ zero.kind = "zero" /\ zero.of = w
      /\ last.from = to /\ last.to = end /\ last.kind = "byte" /\ last.of = w
  BY DEF Run
<1>5. [open EXCEPT !.to = end] = Run("byte", w, 0, end)
  BY DEF Run
<1>6. (LOCK = to <=> l = 0) /\ LOCK \in Nat
  BY <1>1 DEF LOCK
<1> SUFFICES HashFirst(t) = Zeroed(t, end)
  OBVIOUS
<1> HIDE DEF head, open, lock, zero, end, last, to
<1>7. Update(head, open) = lock
  BY <1>3, <1>4, UpdateFromZero DEF lock
<1>8. CASE l = 0
  <2>1. Update(lock, zero) = lock
    BY <1>4, <1>6, <1>8 DEF Update
  <2>2. CASE to = end
    <3>1. Update(lock, last) = lock
      BY <1>4, <2>2 DEF Update
    <3>2. open = Run("byte", w, 0, end)
      BY <1>6, <1>8, <2>2 DEF open
    <3>3. QED
      BY <1>2, <1>3, <1>7, <1>8, <2>1, <3>1, <3>2 DEF lock
  <2>3. CASE to # end
    <3>1. Joins(open, last) /\ last.from # last.to
      BY <1>4, <1>6, <1>8, <2>3 DEF Joins
    <3>2. Update(lock, last) = Append(head, [open EXCEPT !.to = last.to])
      BY <1>3, <3>1, UpdateJoins DEF lock
    <3>3. QED
      BY <1>2, <1>3, <1>4, <1>5, <1>7, <1>8, <2>1, <3>2
  <2>4. QED
    BY <2>2, <2>3
<1>9. CASE l # 0
  <2>1. ~Joins(open, zero) /\ zero.from # zero.to
    BY <1>4, <1>6, <1>9 DEF Joins
  <2>2. Update(lock, zero) = Append(lock, zero)
    BY <1>3, <2>1, UpdateAppends DEF lock
  <2>3. CASE to = end
    <3>1. Update(Append(lock, zero), last) = Append(lock, zero)
      BY <1>4, <2>3 DEF Update
    <3>2. QED
      BY <1>2, <1>3, <1>7, <1>9, <2>2, <2>3, <3>1
  <2>4. CASE to # end
    <3>1. ~Joins(zero, last) /\ last.from # last.to
      BY <1>4, <2>4 DEF Joins
    <3>2. Update(Append(lock, zero), last) = Append(Append(lock, zero), last)
      BY <1>3, <3>1, UpdateAppends
    <3>3. QED
      BY <1>2, <1>3, <1>7, <1>9, <2>2, <2>4, <3>2
  <2>5. QED
    BY <2>3, <2>4
<1>10. QED
  BY <1>8, <1>9

\* A witness behind a stream: its length, and its bytes as they are hashed.
LEMMA FollowedSeq ==
  ASSUME NEW stream \in Seq(Runs), NEW t, NEW w \in Nat, t.witnesses[w + 1] \in Nat, NEW end \in Nat
  PROVE  /\ Followed(stream, t, w, end) \in Seq(Runs)
         /\ Length(t.witnesses[w + 1]) \in Runs
         /\ Update(stream, Length(t.witnesses[w + 1])) = Followed(stream, t, w, 0)
<1> DEFINE length == Length(t.witnesses[w + 1])
           run == Run("byte", w, 0, end)
<1>1. length \in Runs /\ length.from = 0
  BY DEF Length, Run, Runs
<1>2. end # 0 => run \in Runs
  BY DEF Run, Runs
<1>3. Followed(stream, t, w, end) = IF end = 0 THEN Append(stream, length) ELSE Append(Append(stream, length), run)
  BY DEF Followed
<1>4. Followed(stream, t, w, 0) = Append(stream, length)
  BY DEF Followed
<1> HIDE DEF length, run
<1>5. Append(stream, length) \in Seq(Runs)
  BY <1>1, AppendProperties
<1>6. Followed(stream, t, w, end) \in Seq(Runs)
  BY <1>2, <1>3, <1>5, AppendProperties
<1>7. Update(stream, length) = Append(stream, length)
  BY <1>1, UpdateFromZero
<1>8. QED
  BY <1>1, <1>4, <1>6, <1>7 DEF length

\* The same for another witness.
LEMMA FollowedMore ==
  ASSUME NEW stream \in Seq(Runs), NEW t, NEW w \in Nat, t.witnesses[w + 1] \in Nat,
         NEW end \in Nat, NEW more \in Nat, more > end
  PROVE  Update(Followed(stream, t, w, end), Run("byte", w, end, more)) = Followed(stream, t, w, more)
<1> DEFINE length == Length(t.witnesses[w + 1])
           a == Append(stream, length)
           had == Run("byte", w, 0, end)
           run == Run("byte", w, end, more)
<1>1. length \in Runs
  BY FollowedSeq
<1>2. a \in Seq(Runs)
  BY <1>1, AppendProperties
<1>3. run \in Runs /\ run.from = end /\ run.to = more /\ run.kind = "byte" /\ run.of = w
  BY DEF Run, Runs
<1>4. /\ Followed(stream, t, w, end) = IF end = 0 THEN a ELSE Append(a, had)
      /\ Followed(stream, t, w, more) = Append(a, Run("byte", w, 0, more))
  BY DEF Followed
<1>5. end # 0 => had \in Runs /\ Joins(had, run)
  BY DEF Run, Runs, Joins
<1>6. [had EXCEPT !.to = run.to] = Run("byte", w, 0, more)
  BY DEF Run
<1> HIDE DEF length, a, had, run
<1>7. CASE end = 0
  <2>1. Update(a, run) = Append(a, run)
    BY <1>2, <1>3, <1>7, UpdateFromZero
  <2>2. run = Run("byte", w, 0, more)
    BY <1>7 DEF run
  <2>3. QED
    BY <1>4, <1>7, <2>1, <2>2 DEF run
<1>8. CASE end # 0
  <2>1. Update(Append(a, had), run) = Append(a, [had EXCEPT !.to = run.to])
    BY <1>2, <1>3, <1>5, <1>8, UpdateJoins
  <2>2. QED
    BY <1>4, <1>6, <1>8, <2>1 DEF run
<1>9. QED
  BY <1>7, <1>8

-----------------------------------------------------------------------------
\* No run of the first witness mixes bytes of the lock field with others.
RunApart(t, r) ==
    r.of = t.group[1] =>
      /\ r.kind = "zero" => r.from = LOCK /\ r.to = LOCK + t.lock_length
      /\ r.kind = "byte" /\ t.lock_length > 0 => r.to <= LOCK \/ r.from >= LOCK + t.lock_length

Apart(t, stream) == \A k \in 1 .. Len(stream) : RunApart(t, stream[k])

\* A run apart put behind a stream apart.
LEMMA AppendApart ==
  ASSUME NEW t, NEW stream \in Seq(Runs), NEW r \in Runs, Apart(t, stream), RunApart(t, r)
  PROVE  Apart(t, Append(stream, r))
<1>1. /\ Len(Append(stream, r)) = Len(stream) + 1 /\ Len(stream) \in Nat
      /\ \A k \in 1 .. Len(stream) : Append(stream, r)[k] = stream[k]
      /\ Append(stream, r)[Len(stream) + 1] = r
  BY AppendProperties, LenProperties
<1>2. ASSUME NEW k \in 1 .. Len(stream) + 1 PROVE RunApart(t, Append(stream, r)[k])
  <2>1. CASE k = Len(stream) + 1
    BY <1>1, <2>1
  <2>2. CASE k \in 1 .. Len(stream)
    BY <1>1, <2>2 DEF Apart
  <2>3. QED
    BY <1>1, <2>1, <2>2
<1>3. QED
  BY <1>1, <1>2 DEF Apart

\* The first witness is apart from its lock field.
LEMMA ZeroedApart ==
  ASSUME NEW t, IsTx(t), FirstHolds(t), NEW end \in Nat, end >= LOCK + t.lock_length
  PROVE  Apart(t, Zeroed(t, end))
<1> DEFINE w == t.group[1]
           l == t.lock_length
           length == Length(t.witnesses[w + 1])
           head == <<TxHash, length>>
           open == Run("byte", w, 0, LOCK)
           lock == Append(head, open)
           zero == Run("zero", w, LOCK, LOCK + l)
           whole == Run("byte", w, 0, end)
           last == Run("byte", w, LOCK + l, end)
<1>1. /\ head \in Seq(Runs) /\ lock \in Seq(Runs) /\ zero \in Runs /\ open \in Runs
      /\ whole \in Runs /\ last \in Runs
      /\ Zeroed(t, end) = IF l = 0 THEN Append(head, whole)
                          ELSE IF end = LOCK + l THEN Append(lock, zero)
                          ELSE Append(Append(lock, zero), last)
  BY ZeroedParts
<1>2. l \in Nat /\ LOCK \in Nat
  BY FirstIs DEF LOCK
<1>3. /\ RunApart(t, TxHash) /\ RunApart(t, length) /\ RunApart(t, open) /\ RunApart(t, zero)
      /\ RunApart(t, last) /\ (l = 0 => RunApart(t, whole))
  BY <1>2 DEF RunApart, TxHash, Length, Run
<1>4. Len(head) = 2 /\ head[1] = TxHash /\ head[2] = length
  OBVIOUS
<1> HIDE DEF head, length
<1>5. Apart(t, head)
  BY <1>3, <1>4 DEF Apart
<1> HIDE DEF open, zero, whole, last
<1>6. Apart(t, lock)
  BY <1>1, <1>3, <1>5, AppendApart
<1> HIDE DEF lock
<1>7. Apart(t, Append(lock, zero)) /\ Append(lock, zero) \in Seq(Runs)
  BY <1>1, <1>3, <1>6, AppendApart, AppendProperties
<1>8. Apart(t, Append(Append(lock, zero), last))
  BY <1>1, <1>3, <1>7, AppendApart
<1>9. l = 0 => Apart(t, Append(head, whole))
  BY <1>1, <1>3, <1>5, AppendApart
<1>10. QED
  BY <1>1, <1>7, <1>8, <1>9

\* Another witness is none of the first one's.
LEMMA FollowedApart ==
  ASSUME NEW t, NEW stream \in Seq(Runs), Apart(t, stream), NEW w \in Nat, w # t.group[1],
         t.witnesses[w + 1] \in Nat, NEW end \in Nat
  PROVE  Apart(t, Followed(stream, t, w, end))
<1> DEFINE length == Length(t.witnesses[w + 1])
           run == Run("byte", w, 0, end)
<1>1. length \in Runs /\ RunApart(t, length)
  BY DEF RunApart, Length, Run, Runs
<1>2. end # 0 => run \in Runs /\ RunApart(t, run)
  BY DEF RunApart, Run, Runs
<1>3. Followed(stream, t, w, end) = IF end = 0 THEN Append(stream, length) ELSE Append(Append(stream, length), run)
  BY DEF Followed
<1> HIDE DEF length, run
<1>4. Append(stream, length) \in Seq(Runs) /\ Apart(t, Append(stream, length))
  BY <1>1, AppendApart, AppendProperties
<1>5. end # 0 => Apart(t, Append(Append(stream, length), run))
  BY <1>2, <1>4, AppendApart
<1>6. QED
  BY <1>3, <1>4, <1>5

\* The message and its beginnings are streams in which the lock field of the
\* first witness is apart.
LEMMA UptoSound ==
  ASSUME NEW t, IsTx(t), FirstHolds(t)
  PROVE  \A k \in 0 .. GroupOthers(t) + Extra(t) : Upto(t)[k] \in Seq(Runs) /\ Apart(t, Upto(t)[k])
<1> DEFINE N == GroupOthers(t) + Extra(t)
           Sound(x) == x \in Seq(Runs) /\ Apart(t, x)
           S == { k \in Nat : k <= N => Sound(Upto(t)[k]) }
<1>1. N \in Nat
  BY Counts
<1>2. 0 \in S
  <2>1. /\ Upto(t)[0] = Zeroed(t, t.witnesses[t.group[1] + 1])
        /\ t.witnesses[t.group[1] + 1] \in Nat
        /\ t.witnesses[t.group[1] + 1] >= LOCK + t.lock_length
    <3>1. /\ t.witnesses[t.group[1] + 1] \in Nat /\ ReadLen(t) \in Nat /\ t.lock_length \in Nat
          /\ ReadLen(t) <= t.witnesses[t.group[1] + 1] /\ LOCK + t.lock_length <= ReadLen(t)
      BY FirstIs
    <3>2. t.witnesses[t.group[1] + 1] >= LOCK + t.lock_length
      BY <3>1 DEF LOCK
    <3>3. QED
      BY <3>1, <3>2, UptoIs
  <2>2. QED
    BY <2>1, ZeroedSeq, ZeroedApart
<1>3. ASSUME NEW k \in Nat, k \in S PROVE k + 1 \in S
  <2>1. SUFFICES ASSUME k + 1 <= N PROVE Sound(Upto(t)[k + 1])
    OBVIOUS
  <2>2. k + 1 \in 1 .. N /\ (k + 1) - 1 = k /\ k <= N
    BY <1>1, <2>1
  <2> DEFINE w == Others(t)[k + 1]
  <2>3. w \in Nat /\ w < Len(t.witnesses) /\ w # t.group[1]
    BY <2>2, OthersAre
  <2>4. t.witnesses \in Seq(Nat) /\ Len(t.witnesses) \in Nat
    BY GroupIs
  <2>5. w + 1 \in 1 .. Len(t.witnesses)
    BY <2>3, <2>4
  <2>6. t.witnesses[w + 1] \in Nat
    BY <2>4, <2>5, ElementOfSeq
  <2>7. Upto(t)[k + 1] = Followed(Upto(t)[k], t, w, t.witnesses[w + 1])
    BY <2>2, UptoIs
  <2>8. Upto(t)[k] \in Seq(Runs) /\ Apart(t, Upto(t)[k])
    BY <1>3, <2>2
  <2> HIDE DEF w
  <2>9. QED
    BY <2>3, <2>6, <2>7, <2>8, FollowedSeq, FollowedApart
<1> HIDE DEF S
<1>4. \A k \in Nat : k \in S
  BY <1>2, <1>3, AllNumbers
<1>5. QED
  BY <1>1, <1>4 DEF S

-----------------------------------------------------------------------------
\* A refusal keeps the invariant when the transaction cannot be signed for.
LEMMA RefuseInd ==
  ASSUME IndInv, NEW code \in {"invalid", "fault"}, Return(code), ~Signable(tx)
  PROVE  IndInv'
<1>1. /\ pc' = "done" /\ ret' = code /\ tx' = tx /\ hashed' = hashed /\ piece' = piece /\ sig' = sig
      /\ code # "called"
  BY DEF Return
<1>2. TypeOK'
  BY <1>1 DEF IndInv, TypeOK
<1>3. SigRead' /\ HashedSoFar' /\ ~FirstRead'
  BY <1>1 DEF SigRead, HashedSoFar, FirstRead, IndInv
<1>4. SignsTheMessage' /\ SignatureApart'
  BY <1>1 DEF SignsTheMessage, SignatureApart
<1>5. CallsExactlySignable'
  BY <1>1 DEF CallsExactlySignable
<1>6. QED
  BY <1>1, <1>2, <1>3, <1>4, <1>5 DEF IndInv

\* Going on keeps what the invariant says of results.
LEMMA GoOn ==
  ASSUME IndInv, pc # "done", tx' = tx, ret' = ret, pc' # "done"
  PROVE  /\ ret' = "none" /\ IsTx(tx) /\ IsTx(tx')
         /\ SignsTheMessage' /\ SignatureApart' /\ CallsExactlySignable'
<1>1. ret = "none" /\ IsTx(tx)
  BY DEF IndInv, TypeOK
<1>2. QED
  BY <1>1 DEF SignsTheMessage, SignatureApart, CallsExactlySignable

\* Inside generate_sighash_all nothing else changes.
Inside == {"rest", "group", "pieces", "input"}

\* So it is enough there that what was hashed is right.
LEMMA InsideInd ==
  ASSUME IndInv, pc \in Inside, pc' \in Inside, tx' = tx, ret' = ret, sig' = sig,
         hashed' \in Seq(Runs),
         piece' \in [start : Nat, index : Nat, source : Sources, len : Nat, offset : Nat],
         HashedSoFar'
  PROVE  IndInv'
<1>1. /\ ret' = "none" /\ IsTx(tx') /\ SignsTheMessage' /\ SignatureApart' /\ CallsExactlySignable'
      /\ FirstHolds(tx)
  BY GoOn DEF Inside, IndInv, FirstRead
<1>2. TypeOK'
  BY <1>1 DEF IndInv, TypeOK, Inside
<1>3. SigRead'
  BY DEF IndInv, SigRead, Inside
<1>4. FirstRead' /\ FirstHolds(tx)'
  <2>1. FirstHolds(tx)'
    BY <1>1
  <2>2. QED
    BY <2>1 DEF FirstRead, Inside
<1>5. QED
  BY <1>1, <1>2, <1>3, <1>4 DEF IndInv

\* The next witness the loops come to is the next of the others.
LEMMA NextWitness ==
  ASSUME IndInv, pc \in {"group", "input"}, ~Missing(tx, pc, piece.index)
  PROVE  LET b == Before(piece)
             w == WitnessAt(tx, pc, piece.index)
         IN  /\ b \in Nat /\ b + 1 \in DOMAIN Others(tx) /\ b + 1 \in 1 .. GroupOthers(tx) + Extra(tx)
             /\ Others(tx)[b + 1] = w
             /\ w \in Nat /\ tx.witnesses[w + 1] \in Nat
             /\ pc = "group" => piece.index # 0 /\ b < GroupOthers(tx)
             /\ pc = "input" => piece.index >= tx.inputs
             /\ Upto(tx)[b] \in Seq(Runs)
             /\ hashed = Upto(tx)[b] /\ SeenFit(b)
<1> DEFINE b == Before(piece)
           w == WitnessAt(tx, pc, piece.index)
           n == GroupOthers(tx)
           e == Extra(tx)
<1>1. IsTx(tx) /\ FirstHolds(tx) /\ piece.index \in Nat
  BY DEF IndInv, TypeOK, FirstRead
<1>2. /\ piece.source = pc /\ b \in 0 .. n + e /\ (pc = "group" => b <= n)
      /\ (pc = "input" => piece.index >= tx.inputs) /\ hashed = Upto(tx)[b] /\ SeenFit(b)
  BY DEF IndInv, HashedSoFar
<1>3. n \in Nat /\ e \in Nat /\ n < Len(tx.group) /\ Len(tx.witnesses) \in Nat /\ tx.inputs \in Nat /\ Len(tx.group) \in Nat
  BY <1>1, Counts, GroupIs
<1>4. w < Len(tx.witnesses)
  <2>1. ~(w >= Len(tx.witnesses))
    BY DEF Missing
  <2>2. w \in Nat
    <3>1. CASE pc = "input"
      BY <1>1, <3>1 DEF WitnessAt
    <3>2. CASE pc = "group" /\ piece.index < Len(tx.group)
      <4>1. piece.index + 1 \in 1 .. Len(tx.group)
        BY <1>1, <1>3, <3>2
      <4>2. QED
        BY <1>1, <3>2, <4>1, GroupIs DEF WitnessAt
    <3>3. CASE pc = "group" /\ ~(piece.index < Len(tx.group))
      BY <1>3, <3>3 DEF WitnessAt
    <3>4. QED
      BY <3>1, <3>2, <3>3
  <2>3. QED
    BY <1>3, <2>1, <2>2
<1>5. b + 1 \in 1 .. n + e /\ Others(tx)[b + 1] = w /\ (pc = "group" => piece.index # 0 /\ b < n)
  <2>1. CASE pc = "group"
    <3>1. b = piece.index - 1
      BY <1>2, <2>1 DEF Before
    <3>2. piece.index < Len(tx.group) /\ w = tx.group[piece.index + 1]
      BY <1>1, <1>3, <1>4, <2>1 DEF WitnessAt
    <3>3. piece.index >= 1 /\ piece.index + 1 \in 2 .. Len(tx.group)
      BY <1>1, <1>2, <1>3, <3>1, <3>2
    <3>4. piece.index + 1 <= n + 1
      BY <1>1, <1>4, <3>2, <3>3, GroupOthersIs
    <3>5. b < n /\ b + 1 = piece.index /\ b + 1 \in 1 .. n /\ b + 1 \in 1 .. n + e
      BY <1>1, <1>2, <1>3, <3>1, <3>3, <3>4
    <3>6. Others(tx)[b + 1] = tx.group[(b + 1) + 1]
      BY <1>1, <3>5, OthersAre
    <3>7. QED
      BY <1>1, <3>2, <3>3, <3>5, <3>6
  <2>2. CASE pc = "input"
    <3>1. b = n + (piece.index - tx.inputs) /\ w = piece.index /\ piece.index >= tx.inputs
      BY <1>2, <2>2 DEF Before, WitnessAt
    <3>2. e = Len(tx.witnesses) - tx.inputs
      BY <1>1, <1>3, <1>4, <3>1 DEF Extra
    <3>3. b + 1 \in 1 .. n + e /\ b + 1 > n /\ tx.inputs + ((b + 1) - n - 1) = piece.index
      BY <1>1, <1>3, <1>4, <3>1, <3>2
    <3>4. Others(tx)[b + 1] = tx.inputs + ((b + 1) - n - 1)
      BY <1>1, <3>3, OthersAre
    <3>5. QED
      BY <2>2, <3>1, <3>3, <3>4
  <2>3. QED
    BY <2>1, <2>2
<1>6. w \in Nat /\ DOMAIN Others(tx) = 1 .. n + e
  BY <1>1, <1>5, OthersAre
<1>7. tx.witnesses[w + 1] \in Nat
  <2>1. w + 1 \in 1 .. Len(tx.witnesses) /\ tx.witnesses \in Seq(Nat)
    BY <1>1, <1>3, <1>4, <1>6, GroupIs
  <2>2. QED
    BY <2>1, ElementOfSeq
<1>8. Upto(tx)[b] \in Seq(Runs)
  BY <1>1, <1>2, UptoSound
<1>9. b \in Nat
  BY <1>2, <1>3
<1>10. QED
  BY <1>2, <1>5, <1>6, <1>7, <1>8, <1>9

\* A witness too long for the Rust script's buffer is one nobody can sign for.
LEMMA NotSignable ==
  ASSUME IsTx(tx), tx.script = "rust", NEW k \in DOMAIN Others(tx),
         tx.witnesses[Others(tx)[k] + 1] \in Nat,
         tx.witnesses[Others(tx)[k] + 1] > ONE_BATCH_SIZE
  PROVE  ~Signable(tx)
<1>1. ~(tx.witnesses[Others(tx)[k] + 1] <= ONE_BATCH_SIZE)
  BY SizesAssumption
<1>2. QED
  BY <1>1 DEF Signable

\* What fits of n bytes into a buffer of ONE_BATCH_SIZE.
LEMMA SmallIs ==
  ASSUME NEW n \in Nat
  PROVE  /\ Small(n, ONE_BATCH_SIZE) \in Nat /\ Small(n, ONE_BATCH_SIZE) <= n
         /\ Small(n, ONE_BATCH_SIZE) = 0 <=> n = 0
BY SizesAssumption DEF Small

\* The next witness is begun: its length and its first piece are hashed.
LEMMA NextInd ==
  ASSUME IndInv, pc \in {"group", "input"}, ~Missing(tx, pc, piece.index),
         Begin(0, piece.index, pc, TRUE, "pieces")
  PROVE  IndInv'
<1> DEFINE b == Before(piece)
           w == WitnessAt(tx, pc, piece.index)
           size == tx.witnesses[w + 1]
           first == Small(size, ONE_BATCH_SIZE)
           new == [start |-> 0, index |-> piece.index, source |-> pc, len |-> size, offset |-> 0]
<1>1. /\ b \in Nat /\ b + 1 \in DOMAIN Others(tx) /\ b + 1 \in 1 .. GroupOthers(tx) + Extra(tx)
      /\ Others(tx)[b + 1] = w
      /\ w \in Nat /\ size \in Nat
      /\ pc = "group" => piece.index # 0 /\ b < GroupOthers(tx)
      /\ pc = "input" => piece.index >= tx.inputs
      /\ Upto(tx)[b] \in Seq(Runs)
      /\ hashed = Upto(tx)[b] /\ SeenFit(b)
  BY NextWitness
<1>2. IsTx(tx) /\ piece.index \in Nat
  BY DEF IndInv, TypeOK
<1>3. Size(tx, pc, piece.index) = size /\ size - 0 = size
  BY <1>1 DEF Size
<1>s. first \in Nat /\ first <= size /\ (first = 0 <=> size = 0)
  <2>1. size \in Nat
    BY <1>1
  <2> HIDE DEF size
  <2>2. QED
    BY <2>1, SmallIs
<1>4. CASE TooLong(tx, size, ONE_BATCH_SIZE)
  <2>1. Return("invalid")
    BY <1>3, <1>4 DEF Begin
  <2>2. ~Signable(tx)
    BY <1>1, <1>2, <1>4, NotSignable DEF TooLong
  <2>3. QED
    BY <2>1, <2>2, RefuseInd
<1>5. CASE ~TooLong(tx, size, ONE_BATCH_SIZE)
  <2>1. /\ hashed' = Update(Update(hashed, Length(size)), PieceRun(new))
        /\ piece' = [new EXCEPT !.offset = first]
        /\ pc' = "pieces" /\ tx' = tx /\ ret' = ret /\ sig' = sig
    BY <1>3, <1>5 DEF Begin, Goto
  <2>2. PieceRun(new) = Run("byte", w, 0, first)
    <3>1. new.start = 0 /\ new.offset = 0 /\ new.len = size /\ new.source = pc /\ new.index = piece.index
      OBVIOUS
    <3>2. 0 + 0 = 0 /\ size - 0 = size /\ 0 + first = first
      <4> HIDE DEF size, first
      <4>1. QED
        BY <1>1, <1>s
    <3>3. PieceRun(new) = Run("byte", WitnessAt(tx, new.source, new.index), new.start + new.offset,
                              new.start + new.offset + Small(new.len - new.offset, ONE_BATCH_SIZE))
      BY DEF PieceRun
    <3> HIDE DEF new
    <3>4. new.start + new.offset = 0 /\ new.len - new.offset = size
      BY <3>1, <3>2
    <3> HIDE DEF size, first
    <3>5. QED
      BY <3>1, <3>2, <3>3, <3>4 DEF first
  <2>3. Update(hashed, Length(size)) = Followed(Upto(tx)[b], tx, w, 0)
    BY <1>1, FollowedSeq
  <2>4. hashed' = Followed(Upto(tx)[b], tx, w, first)
    <3>1. CASE size = 0
      <4>1. first = 0
        BY <1>s, <3>1
      <4>2. PieceRun(new).from = PieceRun(new).to
        BY <2>2, <4>1 DEF Run
      <4>3. QED
        BY <2>1, <2>3, <4>1, <4>2 DEF Update
    <3>2. CASE size # 0
      <4>1. first \in Nat /\ first > 0
        <5> HIDE DEF size, first
        <5>1. QED
          BY <1>s, <3>2
      <4>2. QED
        <5>1. Update(Followed(Upto(tx)[b], tx, w, 0), Run("byte", w, 0, first)) = Followed(Upto(tx)[b], tx, w, first)
          <6> DEFINE u == Upto(tx)[b]
          <6>1. u \in Seq(Runs) /\ w \in Nat /\ tx.witnesses[w + 1] \in Nat /\ 0 \in Nat
            BY <1>1
          <6> HIDE DEF u, w, size, first
          <6>2. Update(Followed(u, tx, w, 0), Run("byte", w, 0, first)) = Followed(u, tx, w, first)
            BY <4>1, <6>1, FollowedMore
          <6>3. QED
            BY <6>2 DEF u
        <5>2. QED
          BY <2>1, <2>2, <2>3, <5>1
    <3>3. QED
      BY <3>1, <3>2
  <2>5. hashed' \in Seq(Runs)
    BY <1>1, <2>4, SmallIs, FollowedSeq
  <2>6. /\ piece' \in [start : Nat, index : Nat, source : Sources, len : Nat, offset : Nat]
        /\ piece'.start = 0 /\ piece'.index = piece.index /\ piece'.source = pc
        /\ piece'.len = size /\ piece'.offset = first
    BY <1>1, <1>2, <2>1, SmallIs DEF Sources
  <2>7. piece.source = pc
    BY DEF IndInv, HashedSoFar
  <2>8. Before(piece)' = b /\ ~FirstInHand(piece)'
    BY <1>1, <2>1, <2>6, <2>7 DEF Before, FirstInHand
  <2>9. SeenFit(b + 1)
    <3>1. tx.script = "rust" => size <= ONE_BATCH_SIZE
      BY <1>1, <1>5, SizesAssumption DEF TooLong
    <3>2. \A k \in 1 .. b + 1 : k \in 1 .. b \/ k = b + 1
      BY <1>1
    <3>3. QED
      BY <1>1, <3>1, <3>2 DEF SeenFit
  <2>10. InHand(piece)'
    <3>1. /\ piece'.len = Size(tx, piece'.source, piece'.index) - piece'.start
          /\ piece'.offset <= piece'.len /\ (piece'.offset = 0 => piece'.len = 0)
      BY <1>1, <1>3, <2>6, SmallIs
    <3>2. hashed' = Followed(Upto(tx)[b], tx, WitnessAt(tx, piece'.source, piece'.index), piece'.offset)
      BY <2>4, <2>6
    <3>3. Others(tx)[b + 1] = WitnessAt(tx, piece'.source, piece'.index)
      BY <1>1, <2>6
    <3> HIDE DEF b
    <3>4. SeenFit(Before(piece) + 1)'
      BY <2>1, <2>8, <2>9 DEF SeenFit
    <3>5. /\ piece'.source = "group" => b < GroupOthers(tx)
          /\ piece'.source = "input" => piece'.index >= tx.inputs
      BY <1>1, <2>6
    <3>6. QED
      BY <1>1, <2>1, <2>6, <2>8, <3>1, <3>2, <3>3, <3>4, <3>5 DEF InHand
  <2>11. HashedSoFar'
    BY <2>1, <2>10 DEF HashedSoFar
  <2>12. QED
    BY <2>1, <2>5, <2>6, <2>11, InsideInd DEF Inside
<1>6. QED
  BY <1>4, <1>5

\* What the buffer could not hold of the first witness is begun.
LEMMA RestInd == IndInv /\ ReadRest => IndInv'
<1> SUFFICES ASSUME IndInv, ReadRest PROVE IndInv'
  OBVIOUS
<1> DEFINE w == tx.group[1]
           size == tx.witnesses[w + 1]
           start == ReadLen(tx)
           len == size - start
           first == Small(len, ONE_BATCH_SIZE)
           new == [start |-> start, index |-> 0, source |-> "group", len |-> len, offset |-> 0]
<1>1. /\ pc = "rest" /\ IsTx(tx) /\ FirstHolds(tx) /\ hashed = Zeroed(tx, start)
      /\ start < Size(tx, "group", 0) /\ Begin(start, 0, "group", FALSE, "pieces")
  BY DEF ReadRest, IndInv, TypeOK, FirstRead, HashedSoFar
<1>2. /\ WitnessAt(tx, "group", 0) = w /\ w \in Nat
      /\ Size(tx, "group", 0) = size /\ size \in Nat /\ start \in Nat
      /\ tx.lock_length \in Nat /\ LOCK + tx.lock_length <= start
  BY <1>1, FirstIs
<1>3. len \in Nat /\ len > 0
  BY <1>1, <1>2
<1>4. first \in Nat /\ first <= len /\ first > 0
  <2> HIDE DEF len
  <2>1. QED
    BY <1>3, SmallIs
<1>5. ~TooLong(tx, len, ONE_BATCH_SIZE)
  <2>1. tx.script = "rust" => size <= MAX_WITNESS_SIZE
    BY <1>1, <1>2 DEF FirstHolds
  <2>2. size <= MAX_WITNESS_SIZE => start = size
    BY <1>2, SizesAssumption DEF ReadLen, Small
  <2>3. QED
    BY <1>1, <1>2, <2>1, <2>2 DEF TooLong
<1>6. /\ hashed' = Update(hashed, PieceRun(new))
      /\ piece' = [new EXCEPT !.offset = first]
      /\ pc' = "pieces" /\ tx' = tx /\ ret' = ret /\ sig' = sig
  BY <1>1, <1>2, <1>5 DEF Begin, Goto
<1>7. PieceRun(new) = Run("byte", w, start, start + first)
  <2>1. new.start = start /\ new.offset = 0 /\ new.len = len /\ new.source = "group" /\ new.index = 0
    OBVIOUS
  <2>2. PieceRun(new) = Run("byte", WitnessAt(tx, new.source, new.index), new.start + new.offset,
                            new.start + new.offset + Small(new.len - new.offset, ONE_BATCH_SIZE))
    BY DEF PieceRun
  <2> HIDE DEF new, len, start
  <2>3. new.start + new.offset = start /\ new.len - new.offset = len
    BY <1>2, <1>3, <2>1
  <2>4. QED
    BY <1>2, <2>1, <2>2, <2>3
<1>8. hashed' = Zeroed(tx, start + first)
  <2>1. start + first \in Nat /\ start + first > start /\ start >= LOCK + tx.lock_length
    <3> HIDE DEF start, first
    <3>1. QED
      BY <1>2, <1>4 DEF LOCK
  <2> DEFINE more == start + first
  <2> HIDE DEF more, start, first
  <2>2. more \in Nat /\ more > start /\ start \in Nat
    BY <1>2, <2>1 DEF more
  <2>3. Update(Zeroed(tx, start), Run("byte", w, start, more)) = Zeroed(tx, more)
    BY <1>1, <2>1, <2>2, ZeroedMore
  <2>4. QED
    BY <1>1, <1>6, <1>7, <2>3 DEF more
<1>9. hashed' \in Seq(Runs)
  <2>1. start + first \in Nat /\ start + first >= LOCK + tx.lock_length
    <3> HIDE DEF start, first
    <3>1. QED
      BY <1>2, <1>4 DEF LOCK
  <2>2. QED
    BY <1>1, <1>8, <2>1, ZeroedSeq
<1>10. /\ piece' \in [start : Nat, index : Nat, source : Sources, len : Nat, offset : Nat]
       /\ piece'.start = start /\ piece'.index = 0 /\ piece'.source = "group"
       /\ piece'.len = len /\ piece'.offset = first
  <2> HIDE DEF start, len, first
  <2>1. QED
    BY <1>2, <1>3, <1>4, <1>6 DEF Sources
<1>11. InHand(piece)'
  <2>1. piece'.len = Size(tx, piece'.source, piece'.index) - piece'.start
    BY <1>2, <1>10
  <2>2. piece'.offset <= piece'.len /\ piece'.offset # 0 /\ piece'.len > 0
    <3> HIDE DEF len, first
    <3>1. QED
      BY <1>3, <1>4, <1>10
  <2>3. FirstInHand(piece)'
    BY <1>10 DEF FirstInHand
  <2>4. piece'.start = ReadLen(tx) /\ hashed' = Zeroed(tx, piece'.start + piece'.offset)
    BY <1>8, <1>10
  <2>5. QED
    BY <1>6, <2>1, <2>2, <2>3, <2>4 DEF InHand
<1>12. HashedSoFar'
  BY <1>6, <1>11 DEF HashedSoFar
<1>13. QED
  BY <1>1, <1>6, <1>9, <1>10, <1>12, InsideInd DEF Inside

\* What load_and_hash_witness has in hand.
LEMMA HandIs ==
  ASSUME IndInv, pc = "pieces"
  PROVE  /\ IsTx(tx) /\ FirstHolds(tx) /\ InHand(piece)
         /\ piece \in [start : Nat, index : Nat, source : Sources, len : Nat, offset : Nat]
         /\ WitnessAt(tx, piece.source, piece.index) \in Nat
         /\ tx.witnesses[WitnessAt(tx, piece.source, piece.index) + 1] \in Nat
         /\ FirstInHand(piece) => WitnessAt(tx, piece.source, piece.index) = tx.group[1]
         /\ ~FirstInHand(piece) =>
              /\ Before(piece) \in Nat /\ Before(piece) + 1 \in 1 .. GroupOthers(tx) + Extra(tx)
              /\ Upto(tx)[Before(piece)] \in Seq(Runs)
<1> DEFINE w == WitnessAt(tx, piece.source, piece.index)
           b == Before(piece)
<1>1. /\ IsTx(tx) /\ FirstHolds(tx) /\ InHand(piece)
      /\ piece \in [start : Nat, index : Nat, source : Sources, len : Nat, offset : Nat]
  BY DEF IndInv, TypeOK, FirstRead, HashedSoFar
<1>2. CASE FirstInHand(piece)
  <2>1. w = WitnessAt(tx, "group", 0)
    BY <1>2 DEF FirstInHand
  <2>2. w = tx.group[1] /\ w \in Nat /\ tx.witnesses[w + 1] \in Nat
    BY <1>1, <2>1, FirstIs
  <2>3. QED
    BY <1>1, <1>2, <2>2
<1>3. CASE ~FirstInHand(piece)
  <2>1. b + 1 \in DOMAIN Others(tx) /\ Others(tx)[b + 1] = w
    BY <1>1, <1>3 DEF InHand
  <2>2. /\ b + 1 \in 1 .. GroupOthers(tx) + Extra(tx) /\ w \in Nat /\ w < Len(tx.witnesses)
        /\ GroupOthers(tx) + Extra(tx) \in Nat
    BY <1>1, <2>1, OthersAre, Counts
  <2>3. b \in Int
    BY <1>1, <2>2, GroupIs, Counts DEF Before, Sources
  <2>4. b \in Nat /\ b \in 0 .. GroupOthers(tx) + Extra(tx)
    <3> HIDE DEF b
    <3>1. QED
      BY <2>2, <2>3
  <2>5. Upto(tx)[b] \in Seq(Runs)
    BY <1>1, <2>4, UptoSound
  <2>6. w + 1 \in 1 .. Len(tx.witnesses) /\ tx.witnesses \in Seq(Nat)
    BY <1>1, <2>2, GroupIs
  <2>7. tx.witnesses[w + 1] \in Nat
    BY <2>6, ElementOfSeq
  <2>8. QED
    BY <1>1, <1>3, <2>2, <2>4, <2>5, <2>7
<1>4. QED
  BY <1>2, <1>3

\* Another piece of the witness in hand.
LEMMA PieceInd == IndInv /\ ReadPiece => IndInv'
<1> SUFFICES ASSUME IndInv, ReadPiece PROVE IndInv'
  OBVIOUS
<1> DEFINE w == WitnessAt(tx, piece.source, piece.index)
           had == piece.offset
           more == Small(piece.len - had, ONE_BATCH_SIZE)
           u == Upto(tx)[Before(piece)]
<1>1. /\ pc = "pieces" /\ had < piece.len /\ pc' = pc /\ tx' = tx /\ ret' = ret /\ sig' = sig
      /\ hashed' = Update(hashed, PieceRun(piece))
      /\ piece' = [piece EXCEPT !.offset = had + more]
  BY DEF ReadPiece, MorePieces, Advance
<1>2. /\ IsTx(tx) /\ FirstHolds(tx) /\ InHand(piece)
      /\ piece \in [start : Nat, index : Nat, source : Sources, len : Nat, offset : Nat]
      /\ w \in Nat /\ tx.witnesses[w + 1] \in Nat
      /\ FirstInHand(piece) => w = tx.group[1]
      /\ ~FirstInHand(piece) => u \in Seq(Runs)
  BY <1>1, HandIs
<1>3. /\ piece.start \in Nat /\ piece.len \in Nat /\ had \in Nat
      /\ piece.index \in Nat /\ piece.source \in Sources
  BY <1>2
<1>4. more \in Nat /\ more > 0 /\ had + more \in Nat /\ had + more <= piece.len
  <2> DEFINE left == piece.len - had
  <2>1. left \in Nat /\ left > 0
    BY <1>1, <1>3
  <2>2. more = Small(left, ONE_BATCH_SIZE)
    OBVIOUS
  <2> HIDE DEF left, more
  <2>3. more \in Nat /\ more <= left /\ more > 0
    BY <2>1, <2>2, SmallIs
  <2>4. QED
    BY <1>3, <2>3 DEF left
<1>5. PieceRun(piece) = Run("byte", w, piece.start + had, piece.start + had + more)
  BY DEF PieceRun
<1>6. /\ piece' \in [start : Nat, index : Nat, source : Sources, len : Nat, offset : Nat]
      /\ piece'.start = piece.start /\ piece'.index = piece.index /\ piece'.source = piece.source
      /\ piece'.len = piece.len /\ piece'.offset = had + more
  <2> HIDE DEF more
  <2>1. QED
    BY <1>1, <1>2, <1>3, <1>4
<1>7. /\ piece'.len = Size(tx, piece'.source, piece'.index) - piece'.start
      /\ piece'.offset <= piece'.len /\ piece'.offset # 0
  <2>1. piece.len = Size(tx, piece.source, piece.index) - piece.start
    BY <1>2 DEF InHand
  <2> HIDE DEF more
  <2>2. QED
    BY <1>3, <1>4, <1>6, <2>1
<1>8. CASE FirstInHand(piece)
  <2>1. /\ piece.start = ReadLen(tx) /\ hashed = Zeroed(tx, piece.start + had)
        /\ LOCK + tx.lock_length <= piece.start /\ tx.lock_length \in Nat
    BY <1>2, <1>8, FirstIs DEF InHand
  <2> DEFINE end == piece.start + had
             next == piece.start + had + more
  <2>2. /\ end \in Nat /\ end >= LOCK + tx.lock_length /\ next \in Nat /\ next > end
        /\ next >= LOCK + tx.lock_length /\ next = piece.start + (had + more)
    <3> HIDE DEF more
    <3>1. QED
      BY <1>3, <1>4, <2>1 DEF LOCK
  <2>3. hashed = Zeroed(tx, end) /\ hashed' = Update(hashed, Run("byte", tx.group[1], end, next))
    BY <1>1, <1>2, <1>5, <1>8, <2>1
  <2>n. next = piece'.start + piece'.offset
    BY <1>6, <2>2
  <2> HIDE DEF end, next
  <2>4. hashed' = Zeroed(tx, next) /\ hashed' \in Seq(Runs)
    BY <1>2, <2>2, <2>3, ZeroedMore, ZeroedSeq
  <2>5. FirstInHand(piece)' /\ piece'.len > 0
    BY <1>1, <1>3, <1>6, <1>8 DEF FirstInHand
  <2>6. InHand(piece)'
    BY <1>1, <1>6, <1>7, <2>1, <2>4, <2>5, <2>n DEF InHand
  <2>7. HashedSoFar'
    BY <1>1, <2>6 DEF HashedSoFar
  <2>8. QED
    BY <1>1, <1>6, <2>4, <2>7, InsideInd DEF Inside
<1>9. CASE ~FirstInHand(piece)
  <2>1. /\ piece.start = 0 /\ hashed = Followed(u, tx, w, had)
        /\ piece.source = "group" => Before(piece) < GroupOthers(tx)
        /\ piece.source = "input" => piece.index >= tx.inputs
        /\ Before(piece) + 1 \in DOMAIN Others(tx)
        /\ Others(tx)[Before(piece) + 1] = w
        /\ SeenFit(Before(piece) + 1)
    BY <1>2, <1>9 DEF InHand
  <2> DEFINE next == had + more
  <2>2. piece.start + had = had /\ piece.start + had + more = next
    <3> HIDE DEF more
    <3>1. QED
      BY <1>3, <1>4, <2>1
  <2>3. next \in Nat /\ next > had
    <3> HIDE DEF more
    <3>1. QED
      BY <1>3, <1>4
  <2>4. hashed' = Update(Followed(u, tx, w, had), Run("byte", w, had, next))
    BY <1>1, <1>5, <2>1, <2>2
  <2>n. next = piece'.offset
    BY <1>6
  <2>5. u \in Seq(Runs)
    BY <1>2, <1>9
  <2>6. Before(piece)' = Before(piece) /\ ~FirstInHand(piece)'
    BY <1>1, <1>6, <1>9 DEF Before, FirstInHand
  <2>7. WitnessAt(tx, piece'.source, piece'.index) = w /\ piece'.start = 0
    BY <1>6, <2>1
  <2>8. SeenFit(Before(piece) + 1)'
    BY <1>1, <2>1, <2>6 DEF SeenFit
  <2>9. hashed' = Followed(u, tx, w, next) /\ hashed' \in Seq(Runs)
    <3> HIDE DEF u, w, next, had
    <3>1. had \in Nat
      BY <1>3
    <3>2. Update(Followed(u, tx, w, had), Run("byte", w, had, next)) = Followed(u, tx, w, next)
      BY <1>2, <2>3, <2>5, <3>1, FollowedMore
    <3>3. Followed(u, tx, w, next) \in Seq(Runs)
      BY <1>2, <2>3, <2>5, FollowedSeq
    <3>4. QED
      BY <2>4, <3>2, <3>3
  <2>10. hashed' = Followed(Upto(tx)[Before(piece)], tx, WitnessAt(tx, piece'.source, piece'.index), piece'.offset)
    BY <2>7, <2>9, <2>n
  <2>11. /\ piece'.source = "group" => Before(piece) < GroupOthers(tx)
         /\ piece'.source = "input" => piece'.index >= tx.inputs
         /\ Others(tx)[Before(piece) + 1] = WitnessAt(tx, piece'.source, piece'.index)
    BY <1>6, <2>1, <2>7
  <2>13. InHand(piece)'
    BY <1>1, <1>7, <2>1, <2>6, <2>7, <2>8, <2>10, <2>11 DEF InHand
  <2>14. HashedSoFar'
    BY <1>1, <2>13 DEF HashedSoFar
  <2>15. QED
    BY <1>1, <1>6, <2>9, <2>14, InsideInd DEF Inside
<1>10. QED
  BY <1>8, <1>9

\* The witness in hand is through: the stream is that of one witness more.
LEMMA PiecesEndInd == IndInv /\ EndPieces => IndInv'
<1> SUFFICES ASSUME IndInv, EndPieces PROVE IndInv'
  OBVIOUS
<1> DEFINE w == WitnessAt(tx, piece.source, piece.index)
           n == GroupOthers(tx)
           e == Extra(tx)
           b == Before(piece)
<1>1. /\ pc = "pieces" /\ ~(piece.offset < piece.len) /\ pc' = piece.source
      /\ tx' = tx /\ ret' = ret /\ sig' = sig /\ hashed' = hashed
      /\ piece' = [piece EXCEPT !.index = piece.index + 1]
  BY DEF EndPieces, MorePieces, Goto
<1>2. /\ IsTx(tx) /\ FirstHolds(tx) /\ InHand(piece)
      /\ piece \in [start : Nat, index : Nat, source : Sources, len : Nat, offset : Nat]
      /\ w \in Nat /\ tx.witnesses[w + 1] \in Nat
      /\ FirstInHand(piece) => w = tx.group[1]
      /\ ~FirstInHand(piece) => b \in Nat /\ b + 1 \in 1 .. n + e
  BY <1>1, HandIs
<1>3. /\ piece.start \in Nat /\ piece.len \in Nat /\ piece.offset \in Nat
      /\ piece.index \in Nat /\ piece.source \in Sources
  BY <1>2
<1>4. piece.offset = piece.len /\ piece.len = tx.witnesses[w + 1] - piece.start
  BY <1>1, <1>2, <1>3 DEF InHand, Size
<1>5. /\ piece' \in [start : Nat, index : Nat, source : Sources, len : Nat, offset : Nat]
      /\ piece'.index = piece.index + 1 /\ piece'.source = piece.source
  BY <1>1, <1>2, <1>3
<1>6. hashed \in Seq(Runs) /\ n \in Nat /\ e \in Nat /\ n + e \in Nat /\ tx.inputs \in Nat
  BY <1>2, Counts, GroupIs DEF IndInv, TypeOK
<1>7. /\ Before(piece)' \in 0 .. n + e
      /\ piece.source = "group" => Before(piece)' <= n
      /\ piece.source = "input" => piece'.index >= tx.inputs
      /\ hashed = Upto(tx)[Before(piece)'] /\ SeenFit(Before(piece))'
  <2>1. CASE FirstInHand(piece)
    <3>1. piece.source = "group" /\ piece.index = 0
      BY <2>1 DEF FirstInHand
    <3>2. Before(piece)' = 0
      BY <1>1, <1>5, <3>1 DEF Before
    <3>3. piece.start + piece.offset = tx.witnesses[w + 1] /\ hashed = Zeroed(tx, piece.start + piece.offset)
      BY <1>2, <1>3, <1>4, <2>1 DEF InHand
    <3>4. hashed = Upto(tx)[0]
      BY <1>2, <2>1, <3>3, UptoIs
    <3>5. SeenFit(Before(piece))'
      BY <1>1, <3>2 DEF SeenFit
    <3>6. QED
      BY <1>6, <3>1, <3>2, <3>4, <3>5
  <2>2. CASE ~FirstInHand(piece)
    <3>1. /\ piece.start = 0 /\ hashed = Followed(Upto(tx)[b], tx, w, piece.offset)
          /\ piece.source = "group" => b < n
          /\ piece.source = "input" => piece.index >= tx.inputs
          /\ Others(tx)[b + 1] = w
          /\ SeenFit(b + 1)
      BY <1>2, <2>2 DEF InHand
    <3>2. b \in Nat /\ b + 1 \in 1 .. n + e /\ (b + 1) - 1 = b
      <4>1. b \in Nat /\ b + 1 \in 1 .. n + e
        BY <1>2, <2>2
      <4> HIDE DEF b
      <4>2. QED
        BY <4>1
    <3>3. piece.offset = tx.witnesses[w + 1]
      BY <1>2, <1>3, <1>4, <3>1
    <3>4. Upto(tx)[b + 1] = Followed(Upto(tx)[(b + 1) - 1], tx, Others(tx)[b + 1], tx.witnesses[Others(tx)[b + 1] + 1])
      <4> HIDE DEF b
      <4>1. QED
        BY <1>2, <3>2, UptoIs
    <3>5. hashed = Upto(tx)[b + 1]
      BY <3>1, <3>2, <3>3, <3>4
    <3>6. Before(piece)' = b + 1
      <4>1. CASE piece.source = "group"
        BY <1>1, <1>3, <1>5, <4>1 DEF Before
      <4>2. CASE piece.source = "input"
        <5>1. piece'.source # "group" /\ piece.source # "group"
          BY <1>5, <4>2
        <5>2. b = n + (piece.index - tx.inputs)
          BY <5>1 DEF Before
        <5>3. Before(piece)' = GroupOthers(tx)' + (piece'.index - tx'.inputs)
          BY <5>1 DEF Before
        <5>4. GroupOthers(tx)' = n
          BY <1>1
        <5> HIDE DEF b, n
        <5>5. Before(piece)' = n + ((piece.index + 1) - tx.inputs)
          BY <1>1, <1>5, <5>3, <5>4
        <5>6. n \in Int /\ piece.index \in Int /\ tx.inputs \in Int
          BY <1>3, <1>6
        <5>7. n + ((piece.index + 1) - tx.inputs) = (n + (piece.index - tx.inputs)) + 1
          BY <5>6
        <5>8. QED
          BY <5>2, <5>5, <5>7
      <4>3. QED
        BY <1>3, <4>1, <4>2 DEF Sources
    <3>7. SeenFit(Before(piece))'
      BY <1>1, <3>1, <3>6 DEF SeenFit
    <3>8. piece.source = "input" => piece'.index >= tx.inputs
      BY <1>3, <1>5, <1>6, <3>1
    <3> HIDE DEF b, n, e
    <3>9. b + 1 \in 0 .. n + e /\ (piece.source = "group" => b + 1 <= n)
      BY <1>6, <3>1, <3>2
    <3>10. QED
      BY <3>5, <3>6, <3>7, <3>8, <3>9
  <2>3. QED
    BY <2>1, <2>2
<1>8. pc' \in {"group", "input"} /\ piece'.source = pc'
  BY <1>1, <1>3, <1>5 DEF Sources
<1>9. HashedSoFar'
  BY <1>1, <1>7, <1>8 DEF HashedSoFar
<1>10. QED
  BY <1>1, <1>5, <1>6, <1>8, <1>9, InsideInd DEF Inside

\* The group is through when its next witness is missing.
LEMMA GroupEndInd == IndInv /\ EndGroup => IndInv'
<1> SUFFICES ASSUME IndInv, EndGroup PROVE IndInv'
  OBVIOUS
<1> DEFINE n == GroupOthers(tx)
           e == Extra(tx)
<1>1. /\ pc = "group" /\ Missing(tx, "group", piece.index) /\ pc' = "input"
      /\ tx' = tx /\ ret' = ret /\ sig' = sig /\ hashed' = hashed
      /\ piece' = [piece EXCEPT !.index = tx.inputs, !.source = "input"]
  BY DEF EndGroup, Goto, InputsLen
<1>2. IsTx(tx) /\ piece \in [start : Nat, index : Nat, source : Sources, len : Nat, offset : Nat]
  BY DEF IndInv, TypeOK
<1>3. /\ n \in Nat /\ e \in Nat /\ n + e \in Nat /\ tx.inputs \in Nat /\ n < Len(tx.group)
      /\ Len(tx.group) \in Nat /\ Len(tx.witnesses) \in Nat /\ hashed \in Seq(Runs)
  BY <1>2, Counts, GroupIs DEF IndInv, TypeOK
<1>4. /\ piece.source = "group" /\ Before(piece) = piece.index - 1 /\ piece.index \in Nat
      /\ Before(piece) \in 0 .. n + e /\ Before(piece) <= n
      /\ hashed = Upto(tx)[Before(piece)] /\ SeenFit(Before(piece))
  BY <1>1, <1>2 DEF IndInv, HashedSoFar, Before
<1>5. Before(piece) = n
  <2>1. SUFFICES ASSUME Before(piece) # n PROVE FALSE
    OBVIOUS
  <2>2. piece.index <= n /\ piece.index >= 1
    BY <1>3, <1>4, <2>1
  <2>3. piece.index + 1 \in 2 .. Len(tx.group) /\ piece.index + 1 \in 1 .. Len(tx.group) /\ piece.index + 1 <= n + 1
    BY <1>3, <1>4, <2>2
  <2>4. tx.group[piece.index + 1] < Len(tx.witnesses) /\ tx.group[piece.index + 1] \in Nat
    BY <1>2, <2>3, GroupOthersIs, GroupIs
  <2>5. WitnessAt(tx, "group", piece.index) = tx.group[piece.index + 1]
    BY <1>3, <1>4, <2>3 DEF WitnessAt
  <2>6. QED
    BY <1>1, <1>3, <2>4, <2>5 DEF Missing
<1>6. /\ piece' \in [start : Nat, index : Nat, source : Sources, len : Nat, offset : Nat]
      /\ piece'.index = tx.inputs /\ piece'.source = "input"
  BY <1>1, <1>2, <1>3 DEF Sources
<1>7. Before(piece)' = n
  BY <1>1, <1>3, <1>6 DEF Before
<1>8. SeenFit(Before(piece))'
  BY <1>1, <1>4, <1>5, <1>7 DEF SeenFit
<1>9. n \in 0 .. n + e /\ hashed = Upto(tx)[n] /\ tx.inputs >= tx.inputs
  BY <1>3, <1>4, <1>5
<1>10. HashedSoFar'
  BY <1>1, <1>6, <1>7, <1>8, <1>9 DEF HashedSoFar
<1>11. QED
  BY <1>1, <1>3, <1>6, <1>10, InsideInd DEF Inside

\* The witnesses are through when the next behind the inputs is missing: the
\* stream is the message.
LEMMA SighashEndInd == IndInv /\ EndSighash => IndInv'
<1> SUFFICES ASSUME IndInv, EndSighash PROVE IndInv'
  OBVIOUS
<1> DEFINE n == GroupOthers(tx)
           e == Extra(tx)
<1>1. /\ pc = "input" /\ Missing(tx, "input", piece.index)
      /\ pc' = IF tx.script = "c" THEN "call" ELSE "script"
      /\ tx' = tx /\ ret' = ret /\ sig' = sig /\ hashed' = hashed /\ piece' = piece
  BY DEF EndSighash, Goto
<1>2. /\ TypeOK /\ IsTx(tx) /\ FirstHolds(tx) /\ piece.index \in Nat /\ tx.script \in {"c", "rust"}
  BY <1>1 DEF IndInv, TypeOK, FirstRead, IsTx
<1>3. n \in Nat /\ e \in Nat /\ tx.inputs \in Nat /\ Len(tx.witnesses) \in Nat
  BY <1>2, Counts, GroupIs
<1>4. /\ piece.source = "input" /\ piece.index >= tx.inputs
      /\ Before(piece) = n + (piece.index - tx.inputs) /\ Before(piece) \in 0 .. n + e
      /\ hashed = Upto(tx)[Before(piece)] /\ SeenFit(Before(piece))
  BY <1>1 DEF IndInv, HashedSoFar, Before
<1>5. Before(piece) = n + e
  <2>1. piece.index >= Len(tx.witnesses)
    BY <1>1 DEF Missing, WitnessAt
  <2>2. e <= piece.index - tx.inputs
    BY <1>2, <1>3, <1>4, <2>1 DEF Extra
  <2> HIDE DEF n, e
  <2>3. QED
    BY <1>2, <1>3, <1>4, <2>2
<1>6. hashed = Message(tx) /\ SeenFit(n + e)
  BY <1>4, <1>5 DEF Message
<1>7. SeenFit(GroupOthers(tx) + Extra(tx))' /\ (hashed = Message(tx))'
  BY <1>1, <1>6 DEF SeenFit
<1>8. pc' \in {"call", "script"} /\ (pc' = "script" => tx.script = "rust") /\ (pc' = "call" => tx.script = "c")
  BY <1>1, <1>2
<1>9. HashedSoFar'
  BY <1>7, <1>8 DEF HashedSoFar
<1>10. FirstRead' /\ FirstHolds(tx)'
  BY <1>1, <1>2, <1>8 DEF FirstRead
<1>11. SigRead'
  BY <1>1, <1>2, <1>8 DEF IndInv, SigRead
<1>12. ret' = "none" /\ SignsTheMessage' /\ SignatureApart' /\ CallsExactlySignable'
  BY <1>1, <1>8, GoOn
<1>13. TypeOK'
  BY <1>1, <1>2, <1>8, <1>12 DEF TypeOK
<1>14. QED
  BY <1>9, <1>10, <1>11, <1>12, <1>13 DEF IndInv

-----------------------------------------------------------------------------
\* What the checks of the lock field make of a transaction that can be signed
\* for: the sum does not wrap, and the field ends in the buffer.
LEMMA SignableHolds ==
  ASSUME NEW t, IsTx(t), Signable(t)
  PROVE  /\ t.args_len = ARGS_SIZE /\ ~Missing(t, "group", 0)
         /\ t.lock_length < U32 - LOCK
         /\ HoldsLock(Size(t, "group", 0), t.lock_length)
         /\ Fits(t)
         /\ ~TooLong(t, Size(t, "group", 0), MAX_WITNESS_SIZE)
         /\ t.script = "rust" => t.hash_type <= 2 /\ t.witness_args
<1> DEFINE size == t.witnesses[t.group[1] + 1]
           l == t.lock_length
<1>1. /\ Len(t.group) >= 1 /\ Len(t.group) \in Nat /\ t.group[1] \in Nat /\ l \in Nat
      /\ t.witnesses \in Seq(Nat) /\ Len(t.witnesses) \in Nat
  BY GroupIs
<1>2. WitnessAt(t, "group", 0) = t.group[1] /\ t.group[1] < Len(t.witnesses)
  BY <1>1 DEF WitnessAt, Signable
<1>3. t.group[1] + 1 \in 1 .. Len(t.witnesses)
  BY <1>1, <1>2
<1>4. size \in Nat /\ Size(t, "group", 0) = size
  BY <1>1, <1>2, <1>3, ElementOfSeq DEF Size
<1>5. LOCK + l <= Small(size, MAX_WITNESS_SIZE) /\ ReadLen(t) = Small(size, MAX_WITNESS_SIZE)
  BY <1>4 DEF Signable, ReadLen
<1>6. Small(size, MAX_WITNESS_SIZE) <= size /\ Small(size, MAX_WITNESS_SIZE) <= MAX_WITNESS_SIZE
  <2> HIDE DEF size
  <2>1. QED
    BY <1>4, SizesAssumption DEF Small
<1>7. ReadLen(t) \in Nat
  BY <1>4, <1>5, SizesAssumption DEF Small
<1> HIDE DEF size, l
<1>8. LOCK + l \in Nat /\ LOCK + l < U32 /\ LOCK + l <= ReadLen(t) /\ LOCK + l <= size /\ LOCK <= LOCK + l
  BY <1>1, <1>4, <1>5, <1>6, <1>7, SizesAssumption DEF LOCK
<1>9. (LOCK + l) % U32 = LOCK + l
  BY <1>8, SizesAssumption
<1>10. LOCK <= size /\ LOCK <= ReadLen(t) /\ l < U32 - LOCK
  BY <1>1, <1>4, <1>7, <1>8, SizesAssumption DEF LOCK
<1>11. HoldsLock(size, l) /\ Fits(t)
  BY <1>8, <1>9, <1>10 DEF Fits, HoldsLock, HoldsLockRust, l
<1>12. ~TooLong(t, size, MAX_WITNESS_SIZE)
  BY <1>4, SizesAssumption DEF Signable, TooLong, size
<1>13. ~Missing(t, "group", 0)
  BY <1>1, <1>2 DEF Missing
<1>14. QED
  BY <1>4, <1>10, <1>11, <1>12, <1>13 DEF Signable, l

\* The arguments of the C script, and a refusal of either script's.
LEMMA ScriptInd == IndInv /\ ReadScript => IndInv'
<1> SUFFICES ASSUME IndInv, ReadScript PROVE IndInv'
  OBVIOUS
<1>0. pc = "script" /\ IsTx(tx)
  BY DEF ReadScript, IndInv, TypeOK
<1>1. CASE tx.args_len # ARGS_SIZE /\ Return("invalid")
  BY <1>1, RefuseInd DEF Signable
<1>2. CASE tx.script = "c" /\ tx.args_len = ARGS_SIZE /\ Goto("lock") /\ UNCHANGED <<hashed, piece, sig>>
  <2>1. pc' = "lock" /\ tx' = tx /\ ret' = ret /\ hashed' = hashed /\ piece' = piece /\ sig' = sig
    BY <1>2 DEF Goto
  <2>2. ret' = "none" /\ SignsTheMessage' /\ SignatureApart' /\ CallsExactlySignable'
    BY <1>0, <2>1, GoOn
  <2>3. TypeOK'
    BY <2>1, <2>2 DEF IndInv, TypeOK
  <2>4. ~FirstRead /\ ~FirstRead'
    BY <1>0, <1>2, <2>1 DEF FirstRead
  <2>5. piece'.source = "group"
    BY <1>0, <2>1, <2>4 DEF IndInv
  <2>6. SigRead' /\ HashedSoFar'
    BY <1>2, <2>1 DEF SigRead, HashedSoFar
  <2>7. QED
    BY <2>2, <2>3, <2>4, <2>5, <2>6 DEF IndInv
<1>3. QED
  BY <1>1, <1>2 DEF ReadScript

\* The C script takes the signature.
LEMMA LockInd == IndInv /\ ReadLock => IndInv'
<1> SUFFICES ASSUME IndInv, ReadLock PROVE IndInv'
  OBVIOUS
<1> DEFINE len == Size(tx, "group", 0)
<1>0. pc = "lock" /\ IsTx(tx) /\ tx.script = "c" /\ tx.args_len = ARGS_SIZE
  BY DEF ReadLock, IndInv, TypeOK, SigRead, IsTx
<1>1. CASE Missing(tx, "group", 0) /\ Return("invalid")
  BY <1>0, <1>1, RefuseInd, SignableHolds
<1>2. CASE ~HoldsLock(len, tx.lock_length) /\ Return("invalid")
  BY <1>0, <1>2, RefuseInd, SignableHolds
<1>3. CASE sig' = LockField(tx) /\ Goto("sighash") /\ UNCHANGED <<hashed, piece>>
  <2>1. /\ pc' = "sighash" /\ tx' = tx /\ ret' = ret /\ hashed' = hashed /\ piece' = piece
        /\ sig' = LockField(tx)
    BY <1>3 DEF Goto
  <2>2. ret' = "none" /\ SignsTheMessage' /\ SignatureApart' /\ CallsExactlySignable'
    BY <1>0, <2>1, GoOn
  <2>3. sig' \in [from : Nat, to : Nat]
    <3>1. tx.lock_length \in Nat
      BY <1>0, GroupIs
    <3>2. QED
      BY <2>1, <3>1 DEF LockField, LOCK
  <2>4. TypeOK'
    BY <2>1, <2>2, <2>3 DEF IndInv, TypeOK
  <2>5. ~FirstRead /\ ~FirstRead'
    BY <1>0, <2>1 DEF FirstRead
  <2>6. piece'.source = "group"
    BY <1>0, <2>1, <2>5 DEF IndInv
  <2>7. SigRead' /\ HashedSoFar'
    BY <1>0, <2>1 DEF SigRead, HashedSoFar, LockField
  <2>8. QED
    BY <2>2, <2>4, <2>5, <2>6, <2>7 DEF IndInv
<1>4. QED
  BY <1>1, <1>2, <1>3 DEF ReadLock

\* The Rust script takes the signature, the message made.
LEMMA ScriptRustInd == IndInv /\ ReadScriptRust => IndInv'
<1> SUFFICES ASSUME IndInv, ReadScriptRust PROVE IndInv'
  OBVIOUS
<1>0. pc = "script" /\ IsTx(tx) /\ tx.script = "rust" /\ tx.args_len = ARGS_SIZE
  BY DEF ReadScriptRust, IndInv, TypeOK
<1>h. tx.hash_type \in 0 .. 255
  BY <1>0 DEF IsTx
<1>1. CASE tx.hash_type > 2 /\ Return("invalid")
  BY <1>0, <1>h, <1>1, RefuseInd, SignableHolds
<1>2. CASE ~tx.witness_args /\ Return("invalid")
  BY <1>0, <1>2, RefuseInd, SignableHolds
<1>3. CASE /\ tx.hash_type <= 2 /\ tx.witness_args
           /\ sig' = [from |-> LOCK, to |-> Size(tx, "group", 0)]
           /\ Goto("call") /\ UNCHANGED <<hashed, piece>>
  <2>1. /\ pc' = "call" /\ tx' = tx /\ ret' = ret /\ hashed' = hashed /\ piece' = piece
        /\ sig' = [from |-> LOCK, to |-> Size(tx, "group", 0)]
    BY <1>3 DEF Goto
  <2>2. ret' = "none" /\ SignsTheMessage' /\ SignatureApart' /\ CallsExactlySignable'
    BY <1>0, <2>1, GoOn
  <2>3. FirstRead /\ FirstRead' /\ FirstHolds(tx)
    BY <1>0, <2>1 DEF FirstRead, IndInv
  <2>4. FirstHolds(tx)'
    BY <2>1, <2>3
  <2>5. sig' \in [from : Nat, to : Nat]
    <3>1. Size(tx, "group", 0) \in Nat
      BY <1>0, <2>3, FirstIs
    <3>2. QED
      BY <2>1, <3>1 DEF LOCK
  <2>6. TypeOK'
    BY <2>1, <2>2, <2>5 DEF IndInv, TypeOK
  <2>7. hashed = Message(tx) /\ SeenFit(GroupOthers(tx) + Extra(tx))
    BY <1>0 DEF IndInv, HashedSoFar
  <2>8. SeenFit(GroupOthers(tx) + Extra(tx))' /\ (hashed = Message(tx))'
    BY <2>1, <2>7 DEF SeenFit
  <2>9. HashedSoFar'
    BY <2>1, <2>8 DEF HashedSoFar
  <2>10. SigRead'
    BY <1>0, <1>3, <2>1 DEF SigRead
  <2>11. QED
    BY <2>2, <2>3, <2>4, <2>6, <2>9, <2>10 DEF IndInv
<1>4. QED
  BY <1>1, <1>2, <1>3 DEF ReadScriptRust

\* The first witness is hashed when its lock field ends in the buffer.
LEMMA FirstInd == IndInv /\ ReadFirst => IndInv'
<1> SUFFICES ASSUME IndInv, ReadFirst PROVE IndInv'
  OBVIOUS
<1> DEFINE len == Size(tx, "group", 0)
<1>0. pc = "sighash" /\ IsTx(tx)
  BY DEF ReadFirst, IndInv, TypeOK
<1>1. CASE Missing(tx, "group", 0) /\ Return("invalid")
  BY <1>0, <1>1, RefuseInd, SignableHolds
<1>2. CASE TooLong(tx, len, MAX_WITNESS_SIZE) /\ Return("invalid")
  BY <1>0, <1>2, RefuseInd, SignableHolds
<1>3. CASE ~Fits(tx) /\ Return("invalid")
  BY <1>0, <1>3, RefuseInd, SignableHolds
<1>4. CASE tx.lock_length >= U32 - LOCK /\ Return("fault")
  <2>1. tx.lock_length \in Nat /\ U32 \in Nat
    BY <1>0, GroupIs, SizesAssumption
  <2>2. ~(tx.lock_length < U32 - LOCK)
    BY <1>4, <2>1 DEF LOCK
  <2>3. QED
    BY <1>0, <1>4, <2>2, RefuseInd, SignableHolds
<1>5. CASE /\ ~Missing(tx, "group", 0) /\ ~TooLong(tx, len, MAX_WITNESS_SIZE)
           /\ Fits(tx) /\ tx.lock_length < U32 - LOCK
           /\ hashed' = HashFirst(tx)
           /\ Goto(IF ReadLen(tx) < len THEN "rest" ELSE "group")
           /\ piece' = [piece EXCEPT !.index = 1]
           /\ UNCHANGED sig
  <2>1. /\ pc' = (IF ReadLen(tx) < len THEN "rest" ELSE "group") /\ tx' = tx /\ ret' = ret
        /\ sig' = sig /\ hashed' = HashFirst(tx) /\ piece' = [piece EXCEPT !.index = 1]
    BY <1>5 DEF Goto
  <2>2. FirstHolds(tx)
    <3>1. /\ Len(tx.group) >= 1 /\ Len(tx.group) \in Nat /\ tx.group[1] \in Nat
          /\ tx.lock_length \in Nat /\ tx.witnesses \in Seq(Nat) /\ Len(tx.witnesses) \in Nat
      BY <1>0, GroupIs
    <3>2. WitnessAt(tx, "group", 0) = tx.group[1]
      BY <3>1 DEF WitnessAt
    <3>3. tx.group[1] + 1 \in 1 .. Len(tx.witnesses)
      BY <1>5, <3>1, <3>2 DEF Missing
    <3>4. len \in Nat
      BY <3>1, <3>2, <3>3, ElementOfSeq DEF Size
    <3>5. ReadLen(tx) \in Nat
      BY <3>4, SizesAssumption DEF ReadLen, Small
    <3>6. LOCK + tx.lock_length \in Nat /\ LOCK + tx.lock_length < U32
      BY <1>5, <3>1, SizesAssumption DEF LOCK
    <3>7. (LOCK + tx.lock_length) % U32 = LOCK + tx.lock_length
      BY <3>6, SizesAssumption
    <3>8. LOCK + tx.lock_length <= ReadLen(tx)
      BY <1>5, <3>5, <3>6, <3>7 DEF Fits, HoldsLock, HoldsLockRust
    <3>9. tx.script = "rust" => len <= MAX_WITNESS_SIZE
      BY <1>5, <3>4, SizesAssumption DEF TooLong
    <3>10. QED
      BY <1>5, <3>8, <3>9 DEF FirstHolds
  <2>3. /\ len = tx.witnesses[tx.group[1] + 1] /\ len \in Nat /\ ReadLen(tx) \in Nat
        /\ ReadLen(tx) <= len /\ ReadLen(tx) >= LOCK + tx.lock_length
    <3>1. tx.lock_length \in Nat /\ LOCK + tx.lock_length <= ReadLen(tx) /\ ReadLen(tx) \in Nat
      BY <1>0, <2>2, FirstIs
    <3>2. ReadLen(tx) >= LOCK + tx.lock_length
      BY <3>1 DEF LOCK
    <3>3. QED
      BY <1>0, <2>2, <3>2, FirstIs
  <2>4. hashed' = Zeroed(tx, ReadLen(tx)) /\ hashed' \in Seq(Runs)
    BY <1>0, <2>1, <2>2, <2>3, FirstHashed, ZeroedSeq
  <2>5. piece \in [start : Nat, index : Nat, source : Sources, len : Nat, offset : Nat] /\ piece.source = "group"
    BY <1>0 DEF IndInv, TypeOK, FirstRead
  <2>6. /\ piece' \in [start : Nat, index : Nat, source : Sources, len : Nat, offset : Nat]
        /\ piece'.index = 1 /\ piece'.source = "group"
    BY <2>1, <2>5
  <2>7. pc' \in {"rest", "group"} /\ (pc' = "rest" => ReadLen(tx) < len) /\ (pc' = "group" => ReadLen(tx) = len)
    BY <2>1, <2>3
  <2>8. ret' = "none" /\ SignsTheMessage' /\ SignatureApart' /\ CallsExactlySignable'
    BY <1>0, <2>1, <2>7, GoOn
  <2>9. TypeOK'
    BY <1>0, <2>1, <2>4, <2>6, <2>7, <2>8 DEF IndInv, TypeOK
  <2>10. FirstRead' /\ FirstHolds(tx)'
    BY <2>1, <2>2, <2>7 DEF FirstRead
  <2>11. SigRead'
    BY <1>0, <2>1, <2>7 DEF IndInv, SigRead
  <2>12. pc' = "rest" => HashedSoFar'
    BY <2>1, <2>4, <2>7 DEF HashedSoFar
  <2>13. pc' = "group" => HashedSoFar'
    <3> SUFFICES ASSUME pc' = "group" PROVE HashedSoFar'
      OBVIOUS
    <3>1. Before(piece)' = 0
      BY <2>6 DEF Before
    <3>2. hashed' = Upto(tx)[0]
      BY <1>0, <2>3, <2>4, <2>7, UptoIs
    <3>3. GroupOthers(tx) \in Nat /\ Extra(tx) \in Nat
      BY <1>0, Counts
    <3>4. 0 \in 0 .. GroupOthers(tx) + Extra(tx) /\ 0 <= GroupOthers(tx)
      BY <3>3
    <3>5. SeenFit(Before(piece))'
      BY <3>1 DEF SeenFit
    <3>6. QED
      BY <2>1, <2>6, <3>1, <3>2, <3>4, <3>5 DEF HashedSoFar
  <2>14. QED
    BY <2>7, <2>8, <2>9, <2>10, <2>11, <2>12, <2>13 DEF IndInv
<1>6. QED
  BY <1>1, <1>2, <1>3, <1>4, <1>5 DEF ReadFirst

\* ckb_auth is called for the message, for a signature apart from it, and only
\* when the lock holder could get there.
LEMMA CallInd == IndInv /\ Call => IndInv'
<1> SUFFICES ASSUME IndInv, Call PROVE IndInv'
  OBVIOUS
<1> DEFINE N == GroupOthers(tx) + Extra(tx)
           l == tx.lock_length
           size == tx.witnesses[tx.group[1] + 1]
<1>1. /\ pc = "call" /\ pc' = "done" /\ ret' = "called" /\ tx' = tx
      /\ hashed' = hashed /\ piece' = piece /\ sig' = sig
  BY DEF Call, Return
<1>2. /\ TypeOK /\ IsTx(tx) /\ FirstHolds(tx) /\ hashed = Message(tx) /\ SeenFit(N)
      /\ tx.args_len = ARGS_SIZE /\ tx.script \in {"c", "rust"}
  BY <1>1 DEF IndInv, TypeOK, FirstRead, HashedSoFar, SigRead, IsTx
<1>3. /\ Size(tx, "group", 0) = size /\ size \in Nat /\ l \in Nat /\ ReadLen(tx) \in Nat
      /\ tx.group[1] \in Nat /\ tx.group[1] < Len(tx.witnesses)
      /\ LOCK + l <= ReadLen(tx) /\ ReadLen(tx) <= size /\ ReadLen(tx) <= MAX_WITNESS_SIZE
      /\ ReadLen(tx) = Small(size, MAX_WITNESS_SIZE)
  BY <1>2, FirstIs DEF ReadLen
<1>4. /\ sig.from = LOCK /\ sig.to >= LOCK + l /\ sig.to <= MAX_WITNESS_SIZE /\ sig.to \in Nat
      /\ tx.script = "c" => sig.to = LOCK + l
  <2>1. CASE tx.script = "c"
    <3>1. sig = LockField(tx)
      BY <1>1, <2>1 DEF IndInv, SigRead
    <3>2. sig.from = LOCK /\ sig.to = LOCK + l
      BY <3>1 DEF LockField
    <3>3. LOCK + l \in Nat /\ LOCK + l >= LOCK + l /\ LOCK + l <= MAX_WITNESS_SIZE
      BY <1>3, SizesAssumption DEF LOCK
    <3>4. QED
      BY <3>2, <3>3
  <2>2. CASE tx.script = "rust"
    <3>1. sig = [from |-> LOCK, to |-> Size(tx, "group", 0)]
      BY <1>1, <2>2 DEF IndInv, SigRead
    <3>2. sig.from = LOCK /\ sig.to = size /\ size <= MAX_WITNESS_SIZE
      BY <1>2, <1>3, <2>2, <3>1 DEF FirstHolds
    <3>3. size >= LOCK + l
      BY <1>3 DEF LOCK
    <3>4. QED
      BY <1>3, <2>2, <3>2, <3>3
  <2>3. QED
    BY <1>2, <2>1, <2>2
<1>5. hashed \in Seq(Runs) /\ Apart(tx, hashed)
  <2>1. N \in 0 .. N
    BY <1>2, Counts
  <2>2. Upto(tx)[N] \in Seq(Runs) /\ Apart(tx, Upto(tx)[N])
    BY <1>2, <2>1, UptoSound
  <2>3. QED
    BY <1>2, <2>2 DEF Message
<1>6. ASSUME NEW k \in 1 .. Len(hashed), hashed[k].of = tx.group[1]
      PROVE  /\ hashed[k].kind = "zero" => hashed[k].from >= sig.from /\ hashed[k].to <= sig.to
             /\ hashed[k].kind = "byte" /\ tx.script = "c" /\ sig.from < sig.to =>
                  hashed[k].to <= sig.from \/ hashed[k].from >= sig.to
  <2>1. RunApart(tx, hashed[k])
    BY <1>5 DEF Apart
  <2>2. CASE hashed[k].kind = "zero"
    <3>1. hashed[k].from = LOCK /\ hashed[k].to = LOCK + l
      BY <1>6, <2>1, <2>2 DEF RunApart
    <3>2. LOCK + l <= sig.to /\ LOCK >= LOCK
      BY <1>3, <1>4 DEF LOCK
    <3>3. QED
      BY <1>4, <2>2, <3>1, <3>2
  <2>3. CASE hashed[k].kind = "byte" /\ tx.script = "c" /\ sig.from < sig.to
    <3>1. l > 0
      BY <1>3, <1>4, <2>3 DEF LOCK
    <3>2. hashed[k].to <= LOCK \/ hashed[k].from >= LOCK + l
      BY <1>6, <2>1, <2>3, <3>1 DEF RunApart
    <3>3. QED
      BY <1>4, <2>3, <3>2
  <2>4. QED
    BY <2>2, <2>3
<1>7. SignatureApart'
  <2>1. sig.from <= sig.to
    BY <1>3, <1>4 DEF LOCK
  <2>2. QED
    BY <1>1, <1>4, <1>6, <2>1 DEF SignatureApart
<1>8. SignsTheMessage'
  BY <1>1, <1>2 DEF SignsTheMessage
<1>9. Signable(tx)
  <2>1. ASSUME tx.script = "rust"
        PROVE  /\ tx.hash_type <= 2 /\ tx.witness_args /\ size <= MAX_WITNESS_SIZE
               /\ \A k \in DOMAIN Others(tx) : tx.witnesses[Others(tx)[k] + 1] <= ONE_BATCH_SIZE
    <3>1. tx.hash_type <= 2 /\ tx.witness_args /\ size <= MAX_WITNESS_SIZE
      BY <1>1, <1>2, <1>3, <2>1 DEF IndInv, SigRead, FirstHolds
    <3>2. DOMAIN Others(tx) = 1 .. N
      BY <1>2, OthersAre
    <3>3. QED
      BY <1>2, <2>1, <3>1, <3>2 DEF SeenFit
  <2>2. LOCK + l <= Small(size, MAX_WITNESS_SIZE)
    BY <1>3
  <2>3. QED
    BY <1>2, <1>3, <2>1, <2>2 DEF Signable
<1>10. CallsExactlySignable'
  BY <1>1, <1>9 DEF CallsExactlySignable
<1>11. TypeOK'
  BY <1>1, <1>2 DEF TypeOK
<1>12. ~FirstRead' /\ SigRead' /\ HashedSoFar'
  <2>1. SigRead'
    BY <1>1 DEF SigRead
  <2>2. QED
    BY <1>1, <2>1 DEF FirstRead, HashedSoFar
<1>13. QED
  BY <1>1, <1>7, <1>8, <1>10, <1>11, <1>12 DEF IndInv

-----------------------------------------------------------------------------
\* A script starts with nothing read and nothing hashed.
LEMMA InitInd == Init => IndInv
<1> SUFFICES ASSUME Init PROVE IndInv
  OBVIOUS
<1>1. /\ IsTx(tx) /\ pc = (IF tx.script = "c" THEN "script" ELSE "sighash") /\ hashed = <<>>
      /\ piece = [start |-> 0, index |-> 0, source |-> "group", len |-> 0, offset |-> 0]
      /\ sig = [from |-> 0, to |-> 0] /\ ret = "none"
  BY TxsAssumption DEF Init
<1>2. tx.script \in {"c", "rust"}
  BY <1>1 DEF IsTx
<1>3. /\ pc \in {"script", "sighash"} /\ (pc = "script" => tx.script = "c") /\ (pc = "sighash" => tx.script = "rust")
  BY <1>1, <1>2
<1>4. TypeOK
  BY <1>1, <1>3 DEF TypeOK, Sources
<1>5. ~FirstRead /\ piece.source = "group"
  BY <1>1, <1>2, <1>3 DEF FirstRead
<1>6. SigRead
  BY <1>1, <1>2, <1>3 DEF SigRead
<1>7. HashedSoFar
  BY <1>2, <1>3 DEF HashedSoFar
<1>8. SignsTheMessage /\ SignatureApart /\ CallsExactlySignable
  BY <1>1, <1>3 DEF SignsTheMessage, SignatureApart, CallsExactlySignable
<1>9. QED
  BY <1>1, <1>4, <1>5, <1>6, <1>7, <1>8 DEF IndInv

\* Nothing is left to keep when nothing changes.
LEMMA StutterInd == IndInv /\ UNCHANGED vars => IndInv'
<1> SUFFICES ASSUME IndInv, UNCHANGED vars PROVE IndInv'
  OBVIOUS
<1>1. tx' = tx /\ pc' = pc /\ hashed' = hashed /\ piece' = piece /\ sig' = sig /\ ret' = ret
  BY DEF vars
<1>2. TypeOK' /\ (pc' # "done" => ret' = "none")
  BY <1>1 DEF IndInv, TypeOK
<1>3. FirstRead' = FirstRead /\ FirstHolds(tx)' = FirstHolds(tx) /\ SigRead'
  BY <1>1 DEF IndInv, SigRead, FirstRead
<1>4. InHand(piece)' = InHand(piece) /\ Before(piece)' = Before(piece)
  BY <1>1 DEF InHand, Before, FirstInHand, SeenFit
<1>5. SeenFit(Before(piece))' = SeenFit(Before(piece))
  BY <1>1, <1>4 DEF SeenFit
<1>6. SeenFit(GroupOthers(tx) + Extra(tx))' = SeenFit(GroupOthers(tx) + Extra(tx))
  BY <1>1 DEF SeenFit
<1>7. HashedSoFar'
  BY <1>1, <1>4, <1>5, <1>6 DEF IndInv, HashedSoFar
<1>8. SignsTheMessage' /\ SignatureApart' /\ CallsExactlySignable'
  BY <1>1 DEF IndInv, SignsTheMessage, SignatureApart, CallsExactlySignable
<1>9. QED
  BY <1>1, <1>2, <1>3, <1>7, <1>8 DEF IndInv

\* Every step of both scripts keeps the invariant: what was hashed is always a
\* beginning of the message the wallet signs, cut where the loops of
\* generate_sighash_all and load_and_hash_witness stand.
THEOREM Inductive == Spec => []IndInv
<1>1. Init => IndInv
  BY InitInd
<1>2. IndInv /\ [Next]_vars => IndInv'
  <2> SUFFICES ASSUME IndInv, [Next]_vars PROVE IndInv'
    OBVIOUS
  <2>1. CASE ReadScript
    BY <2>1, ScriptInd
  <2>2. CASE ReadScriptRust
    BY <2>2, ScriptRustInd
  <2>3. CASE ReadLock
    BY <2>3, LockInd
  <2>4. CASE ReadFirst
    BY <2>4, FirstInd
  <2>5. CASE ReadRest
    BY <2>5, RestInd
  <2>6. CASE ReadGroup
    BY <2>6, NextInd DEF ReadGroup
  <2>7. CASE EndGroup
    BY <2>7, GroupEndInd
  <2>8. CASE ReadExtra
    BY <2>8, NextInd DEF ReadExtra
  <2>9. CASE EndSighash
    BY <2>9, SighashEndInd
  <2>10. CASE ReadPiece
    BY <2>10, PieceInd
  <2>11. CASE EndPieces
    BY <2>11, PiecesEndInd
  <2>12. CASE Call
    BY <2>12, CallInd
  <2>13. CASE Ended \/ UNCHANGED vars
    BY <2>13, StutterInd DEF Ended
  <2>14. QED
    BY <2>1, <2>2, <2>3, <2>4, <2>5, <2>6, <2>7, <2>8, <2>9, <2>10, <2>11, <2>12, <2>13 DEF Next, Step
<1>3. QED
  BY <1>1, <1>2, PTL DEF Spec

\* The message handed to ckb_auth is the one the wallet signs, for any number
\* and any sizes of witnesses and any sizes of the buffers.
THEOREM MessageSigned == Spec => []SignsTheMessage
<1>1. IndInv => SignsTheMessage
  BY DEF IndInv
<1>2. QED
  BY <1>1, Inductive, PTL

\* No byte of the signature handed to ckb_auth is in the message, and it lies
\* in the buffer.
THEOREM SignatureOutside == Spec => []SignatureApart
<1>1. IndInv => SignatureApart
  BY DEF IndInv
<1>2. QED
  BY <1>1, Inductive, PTL

\* Exactly the transactions a lock holder can sign for get to ckb_auth: the
\* length that wraps a uint32_t is refused or faults, no other is turned away.
THEOREM SignableCalled == Spec => []CallsExactlySignable
<1>1. IndInv => CallsExactlySignable
  BY DEF IndInv
<1>2. QED
  BY <1>1, Inductive, PTL
==============================================================================
