------------------------- MODULE RingRefinementProofs -------------------------
(***************************************************************************)
(* Proof that the byte ring implements the record queue, for every         *)
(* capacity, radix, record limit, chunk limit, set of payloads and number  *)
(* of backends, as long as nobody else writes to shared memory.  First     *)
(* what the recursive definitions of the mapping compute for bytes that    *)
(* are whole records, then what every step does to such bytes.             *)
(***************************************************************************)
EXTENDS RingRefinement, RingQueueProofs, WellFoundedInduction

\* Of some natural numbers one is the least.
LEMMA LeastNumber ==
  ASSUME NEW B, B \subseteq Nat, B # {}
  PROVE  \E m \in B : \A k \in B : m <= k
<1> DEFINE Smaller == OpToRel(<, Nat)
<1>1. \A k, m \in Nat : m <= k \/ <<k, m>> \in Smaller BY DEF OpToRel
<1>2. IsWellFoundedOn(Smaller, Nat) BY NatLessThanWellFounded
<1> HIDE DEF Smaller
<1>3. PICK m \in B : \A k \in B : ~(<<k, m>> \in Smaller) BY <1>2, WFMin
<1>4. ASSUME NEW k \in B PROVE m <= k
  <2>1. k \in Nat /\ m \in Nat OBVIOUS
  <2> QED BY <1>1, <1>3, <2>1
<1> QED BY <1>4

----------------------------------------------------------------------------
(* Bytes that are whole records *)

\* The payloads that push_record takes.
Accepted == {p \in Payloads : Len(p) <= MAX_RECORD_BYTES}

\* The record at an offset is that of a payload.
IsRecordAt(bytes, offset, payload) ==
  /\ Decode(bytes[offset + 1], bytes[offset + 2]) = Len(payload)
  /\ \A j \in 1 .. Len(payload) : bytes[offset + 2 + j] = payload[j]

\* The bytes are the records of the payloads in recs, of which the k-th ends at pos[k].
Laid(bytes, recs, pos) ==
  /\ bytes \in Seq(Byte) /\ recs \in Seq(Accepted)
  /\ pos \in [0 .. Len(recs) -> Nat]
  /\ pos[0] = 0 /\ pos[Len(recs)] = Len(bytes)
  /\ \A j, k \in 0 .. Len(recs) : j < k => pos[j] + 2 <= pos[k]
  /\ \A k \in 1 .. Len(recs) :
       /\ pos[k] = pos[k - 1] + 2 + Len(recs[k])
       /\ IsRecordAt(bytes, pos[k - 1], recs[k])

\* Accepted payloads are short sequences of bytes.
LEMMA AcceptedType ==
  ASSUME NEW p \in Accepted
  PROVE  p \in Seq(Byte) /\ Len(p) \in 0 .. MAX_RECORD_BYTES
BY RingAssumption DEF Accepted

\* No bytes are no records.
LEMMA LaidEmpty == Laid(<< >>, << >>, [k \in {0} |-> 0])
<1>1. << >> \in Seq(Byte) /\ << >> \in Seq(Accepted) /\ Len(<< >>) = 0 BY EmptySeq
<1>2. 0 .. 0 = {0} OBVIOUS
<1> QED BY <1>1, <1>2 DEF Laid

\* Where the records end: the facts of Laid one by one.
LEMMA LaidFacts ==
  ASSUME NEW bytes, NEW recs, NEW pos, Laid(bytes, recs, pos)
  PROVE  /\ bytes \in Seq(Byte) /\ Len(bytes) \in Nat
         /\ recs \in Seq(Accepted) /\ Len(recs) \in Nat
         /\ pos \in [0 .. Len(recs) -> Nat]
         /\ \A k \in 0 .. Len(recs) : pos[k] \in 0 .. Len(bytes)
         /\ \A k \in 1 .. Len(recs) :
              /\ recs[k] \in Seq(Byte) /\ Len(recs[k]) \in 0 .. MAX_RECORD_BYTES
              /\ k - 1 \in 0 .. Len(recs)
              /\ pos[k] = pos[k - 1] + 2 + Len(recs[k])
<1>1. /\ bytes \in Seq(Byte) /\ recs \in Seq(Accepted) /\ pos \in [0 .. Len(recs) -> Nat]
      /\ pos[Len(recs)] = Len(bytes)
  BY DEF Laid
<1>2. Len(bytes) \in Nat /\ Len(recs) \in Nat BY <1>1, LenProperties
<1>3. ASSUME NEW k \in 0 .. Len(recs) PROVE pos[k] \in 0 .. Len(bytes)
  <2>1. CASE k = Len(recs) BY <1>1, <1>2, <2>1
  <2>2. CASE k # Len(recs)
    <3>1. k < Len(recs) /\ Len(recs) \in 0 .. Len(recs) BY <1>2, <2>2
    <3>2. pos[k] + 2 <= pos[Len(recs)] BY <3>1 DEF Laid
    <3>3. pos[k] \in Nat BY <1>1
    <3> QED BY <1>1, <1>2, <3>2, <3>3
  <2> QED BY <2>1, <2>2
<1>4. ASSUME NEW k \in 1 .. Len(recs)
      PROVE  /\ recs[k] \in Seq(Byte) /\ Len(recs[k]) \in 0 .. MAX_RECORD_BYTES
             /\ k - 1 \in 0 .. Len(recs)
             /\ pos[k] = pos[k - 1] + 2 + Len(recs[k])
  <2>1. recs[k] \in Accepted BY <1>1, ElementOfSeq
  <2>2. k - 1 \in 0 .. Len(recs) BY <1>2
  <2> QED BY <2>1, <2>2, AcceptedType DEF Laid
<1> QED BY <1>1, <1>2, <1>3, <1>4

----------------------------------------------------------------------------
(* What the mapping reads out of them *)

\* What Split finds at offset i, with f to find the rest.
SplitAt(f, bytes, i) ==
  IF Len(bytes) - i < LEN_PREFIX_BYTES THEN << >>
  ELSE LET len  == Decode(bytes[i + 1], bytes[i + 2])
           next == i + LEN_PREFIX_BYTES + len
       IN IF len > MAX_RECORD_BYTES \/ next > Len(bytes) THEN << >>
          ELSE <<SubSeq(bytes, i + LEN_PREFIX_BYTES + 1, next)>> \o f[next]

\* f splits the bytes behind every offset in D.
Splits(f, bytes, D) == f = [i \in D |-> SplitAt(f, bytes, i)]

\* A record ends behind its beginning.
LEMMA NextIsLater ==
  ASSUME NEW bytes \in Seq(Byte), NEW i \in 0 .. Len(bytes),
         ~(Len(bytes) - i < LEN_PREFIX_BYTES)
  PROVE  i + LEN_PREFIX_BYTES + Decode(bytes[i + 1], bytes[i + 2]) \in Nat
         /\ i < i + LEN_PREFIX_BYTES + Decode(bytes[i + 1], bytes[i + 2])
<1>1. Len(bytes) \in Nat BY LenProperties
<1>2. i + 1 \in 1 .. Len(bytes) /\ i + 2 \in 1 .. Len(bytes) BY <1>1 DEF LEN_PREFIX_BYTES
<1>3. bytes[i + 1] \in Byte /\ bytes[i + 2] \in Byte BY <1>2, ElementOfSeq
<1>4. Decode(bytes[i + 1], bytes[i + 2]) \in Nat BY <1>3, DecodeType
<1> QED BY <1>4 DEF LEN_PREFIX_BYTES

\* There is a function that splits: what lies behind an offset depends only on what
\* lies behind later ones.
LEMMA SplitExists ==
  ASSUME NEW bytes \in Seq(Byte)
  PROVE  \E f : Splits(f, bytes, 0 .. Len(bytes))
<1> DEFINE N == Len(bytes)
           D(m) == N - m .. N
           Bad == {m \in 0 .. N : ~\E f : Splits(f, bytes, D(m))}
<1>1. N \in Nat BY LenProperties
<1>2. ASSUME NEW m \in 0 .. N, m = 0 \/ m - 1 \notin Bad PROVE m \notin Bad
  <2> DEFINE i == N - m
             later == i + 1 .. N
  <2>1. i \in 0 .. N /\ i \notin later /\ D(m) = later \cup {i} BY <1>1
  <2>2. PICK f : Splits(f, bytes, later)
    <3>1. CASE m = 0
      <4> DEFINE g == [j \in later |-> << >>]
      <4>1. later = {} BY <1>1, <3>1
      <4>2. Splits(g, bytes, later) BY <4>1 DEF Splits
      <4> HIDE DEF g
      <4> QED BY <4>2
    <3>2. CASE m # 0
      <4>1. m - 1 \in 0 .. N /\ D(m - 1) = later BY <1>1, <3>2
      <4> QED BY <1>2, <3>2, <4>1
    <3> QED BY <3>1, <3>2
  <2> DEFINE g == [j \in D(m) |-> SplitAt(f, bytes, j)]
  <2>3. ASSUME NEW j \in D(m) PROVE SplitAt(g, bytes, j) = SplitAt(f, bytes, j)
    <3> DEFINE next == j + LEN_PREFIX_BYTES + Decode(bytes[j + 1], bytes[j + 2])
    <3>1. j \in 0 .. N BY <1>1
    <3>2. CASE Len(bytes) - j < LEN_PREFIX_BYTES \/ next > Len(bytes)
      BY <3>2 DEF SplitAt
    <3>3. CASE ~(Len(bytes) - j < LEN_PREFIX_BYTES) /\ ~(next > Len(bytes))
      <4>1. next \in Nat /\ j < next BY <3>1, <3>3, NextIsLater
      <4>2. next \in later BY <1>1, <3>1, <3>3, <4>1
      <4>3. f[next] = SplitAt(f, bytes, next) BY <2>2, <4>2 DEF Splits
      <4>4. g[next] = SplitAt(f, bytes, next) BY <2>1, <4>2
      <4> HIDE DEF g
      <4> QED BY <4>3, <4>4 DEF SplitAt
    <3> QED BY <3>2, <3>3
  <2>4. Splits(g, bytes, D(m)) BY <2>3 DEF Splits
  <2> HIDE DEF g
  <2> QED BY <2>4
<1>3. Bad = {}
  <2> SUFFICES ASSUME Bad # {} PROVE FALSE OBVIOUS
  <2>1. Bad \subseteq Nat BY <1>1
  <2>2. PICK m \in Bad : \A k \in Bad : m <= k
    <3> HIDE DEF Bad
    <3> QED BY <2>1, LeastNumber
  <2>3. m \in 0 .. N BY <2>2
  <2>4. m - 1 \notin Bad BY <1>1, <2>2, <2>3
  <2> QED BY <1>2, <2>2, <2>3, <2>4
<1>4. N \in 0 .. N /\ D(N) = 0 .. Len(bytes) BY <1>1
<1> QED BY <1>3, <1>4

\* Bytes that are whole records are split into their payloads.
LEMMA SplitIs ==
  ASSUME NEW bytes, NEW recs, NEW pos, Laid(bytes, recs, pos)
  PROVE  Split(bytes) = recs
<1> DEFINE n == Len(recs)
           rest == CHOOSE f : Splits(f, bytes, 0 .. Len(bytes))
           left(k) == SubSeq(recs, k + 1, n)
           Bad == {m \in 0 .. n : rest[pos[n - m]] # left(n - m)}
<1>1. /\ bytes \in Seq(Byte) /\ Len(bytes) \in Nat /\ recs \in Seq(Accepted) /\ n \in Nat
      /\ \A k \in 0 .. n : pos[k] \in 0 .. Len(bytes)
      /\ \A k \in 1 .. n : /\ recs[k] \in Seq(Byte) /\ Len(recs[k]) \in 0 .. MAX_RECORD_BYTES
                           /\ k - 1 \in 0 .. n
                           /\ pos[k] = pos[k - 1] + 2 + Len(recs[k])
  BY LaidFacts
<1>2. /\ pos[0] = 0 /\ pos[n] = Len(bytes)
      /\ \A k \in 1 .. n : IsRecordAt(bytes, pos[k - 1], recs[k])
  BY DEF Laid
<1>3. Splits(rest, bytes, 0 .. Len(bytes)) BY <1>1, SplitExists
<1>4. Split(bytes) = rest[0] BY DEF Split, Splits, SplitAt
<1> HIDE DEF rest
<1>5. \A i \in 0 .. Len(bytes) : rest[i] = SplitAt(rest, bytes, i) BY <1>3 DEF Splits
<1>6. 0 \notin Bad
  <2>1. rest[pos[n]] = SplitAt(rest, bytes, Len(bytes))
    <3>1. Len(bytes) \in 0 .. Len(bytes) BY <1>1
    <3> QED BY <1>2, <1>5, <3>1
  <2>2. SplitAt(rest, bytes, Len(bytes)) = << >> BY <1>1 DEF SplitAt, LEN_PREFIX_BYTES
  <2>3. left(n) = << >> BY <1>1, SubSeqEmpty
  <2>4. n - 0 = n BY <1>1
  <2> QED BY <2>1, <2>2, <2>3, <2>4
<1>7. ASSUME NEW m \in 1 .. n, m - 1 \notin Bad PROVE m \notin Bad
  <2> DEFINE k == n - m + 1
             i == pos[k - 1]
             rec == recs[k]
  <2>1. k \in 1 .. n /\ k - 1 = n - m /\ n - (m - 1) = k /\ m - 1 \in 0 .. n BY <1>1
  <2>2. rest[pos[k]] = left(k) BY <1>7, <2>1
  <2>3. /\ i \in 0 .. Len(bytes) /\ pos[k] \in 0 .. Len(bytes)
        /\ rec \in Seq(Byte) /\ Len(rec) \in 0 .. MAX_RECORD_BYTES
        /\ pos[k] = i + 2 + Len(rec) /\ IsRecordAt(bytes, i, rec)
    BY <1>1, <1>2, <2>1
  <2> HIDE DEF k, i, rec
  <2>4. SubSeq(bytes, i + 2 + 1, pos[k]) = rec
    <3> DEFINE sub == SubSeq(bytes, i + 2 + 1, pos[k])
    <3>1. MAX_RECORD_BYTES \in Nat /\ Len(rec) \in Nat /\ i + 2 + 1 \in Int /\ pos[k] \in Int
      BY <2>3, RingAssumption
    <3>2. \A j \in i + 2 + 1 .. pos[k] : bytes[j] \in Byte
      <4>1. i + 2 + 1 .. pos[k] \subseteq 1 .. Len(bytes) BY <1>1, <2>3
      <4> QED BY <1>1, <4>1, ElementOfSeq
    <3>3. /\ sub \in Seq(Byte)
          /\ Len(sub) = IF i + 2 + 1 <= pos[k] THEN pos[k] - (i + 2 + 1) + 1 ELSE 0
          /\ \A j \in 1 .. pos[k] - (i + 2 + 1) + 1 : sub[j] = bytes[i + 2 + 1 + j - 1]
      BY <3>1, <3>2, SubSeqProperties
    <3> HIDE DEF sub
    <3>4. Len(sub) = Len(rec) BY <2>3, <3>1, <3>3
    <3>5. ASSUME NEW j \in 1 .. Len(sub) PROVE sub[j] = rec[j]
      <4>1. i + 2 + 1 + j - 1 = i + 2 + j /\ j \in 1 .. pos[k] - (i + 2 + 1) + 1
        BY <2>3, <3>1, <3>4
      <4>2. bytes[i + 2 + j] = rec[j] BY <2>3, <3>4 DEF IsRecordAt
      <4> QED BY <3>3, <4>1, <4>2
    <3>6. sub = rec BY <2>3, <3>3, <3>4, <3>5, SeqEqual
    <3> QED BY <3>6 DEF sub
  <2>5. rest[i] = <<rec>> \o rest[pos[k]]
    <3>1. ~(Len(bytes) - i < 2) /\ ~(Len(rec) > MAX_RECORD_BYTES) /\ ~(pos[k] > Len(bytes))
      BY <1>1, <2>3, RingAssumption
    <3>2. Decode(bytes[i + 1], bytes[i + 2]) = Len(rec) BY <2>3 DEF IsRecordAt
    <3>3. rest[i] = SplitAt(rest, bytes, i) BY <1>5, <2>3
    <3> QED BY <2>3, <2>4, <3>1, <3>2, <3>3 DEF SplitAt, LEN_PREFIX_BYTES
  <2>6. left(k - 1) = <<recs[k]>> \o left(k)
    <3>1. n \in k .. Len(recs) /\ k - 1 + 1 = k BY <1>1, <2>1
    <3> QED BY <1>1, <2>1, <3>1, SubSeqRecursiveFirst
  <2>7. rest[pos[k - 1]] = left(k - 1) BY <2>2, <2>5, <2>6 DEF i, rec
  <2> QED BY <2>1, <2>7
<1>8. Bad = {}
  <2> SUFFICES ASSUME Bad # {} PROVE FALSE OBVIOUS
  <2>1. Bad \subseteq Nat BY <1>1
  <2>2. PICK m \in Bad : \A k \in Bad : m <= k
    <3> HIDE DEF Bad
    <3> QED BY <2>1, LeastNumber
  <2>3. m \in 0 .. n BY <2>2
  <2>4. m # 0 BY <1>6, <2>2
  <2>5. m \in 1 .. n /\ m - 1 \in Nat /\ m - 1 < m BY <1>1, <2>3, <2>4
  <2> HIDE DEF Bad
  <2>6. m - 1 \notin Bad BY <2>2, <2>5
  <2> QED BY <1>7, <2>2, <2>5, <2>6
<1>9. rest[pos[n - n]] = left(n - n)
  <2>1. n \in 0 .. n BY <1>1
  <2> QED BY <1>8, <2>1
<1>10. left(0) = recs BY <1>1, SubSeqFull
<1> QED BY <1>1, <1>2, <1>4, <1>9, <1>10

\* f sums up the bytes of the payloads in s.
Sums(f, s) ==
  f = [i \in 0 .. Len(s) |-> IF i = 0 THEN 0 ELSE f[i - 1] + LEN_PREFIX_BYTES + Len(s[i])]

\* The first m payloads take the bytes up to the end of the m-th record.
LEMMA BytesOfPrefix ==
  ASSUME NEW bytes, NEW recs, NEW pos, Laid(bytes, recs, pos), NEW m \in 0 .. Len(recs)
  PROVE  BatchBytes(SubSeq(recs, 1, m)) = pos[m]
<1> DEFINE s == SubSeq(recs, 1, m)
           sum == CHOOSE f : Sums(f, s)
           Bad == {k \in 0 .. m : sum[k] # pos[k]}
<1>1. /\ recs \in Seq(Accepted) /\ Len(recs) \in Nat
      /\ \A k \in 0 .. Len(recs) : pos[k] \in Nat
      /\ \A k \in 1 .. Len(recs) : pos[k] = pos[k - 1] + 2 + Len(recs[k])
      /\ pos[0] = 0
  BY LaidFacts DEF Laid
<1>2. Len(s) = m /\ \A k \in 1 .. m : s[k] = recs[k]
  <2>1. m \in 0 .. Len(recs) /\ m \in Nat BY <1>1
  <2>2. \A k \in 1 .. m : recs[k] \in Accepted BY <1>1, ElementOfSeq
  <2>3. Len(s) = (IF 1 <= m THEN m - 1 + 1 ELSE 0)
        /\ \A k \in 1 .. m - 1 + 1 : s[k] = recs[1 + k - 1]
    BY <2>1, <2>2, SubSeqProperties
  <2> HIDE DEF s
  <2>4. Len(s) = m BY <2>1, <2>3
  <2>5. ASSUME NEW k \in 1 .. m PROVE s[k] = recs[k]
    <3>1. k \in 1 .. m - 1 + 1 /\ 1 + k - 1 = k BY <2>1
    <3> QED BY <2>3, <3>1
  <2> QED BY <2>4, <2>5
<1>3. BatchBytes(s) = sum[m] BY <1>2 DEF BatchBytes, Sums
<1> HIDE DEF s
<1>4. Sums(sum, s)
  <2> DEFINE g == [k \in 0 .. m |-> pos[k]]
  <2>1. ASSUME NEW k \in 0 .. m
        PROVE  g[k] = IF k = 0 THEN 0 ELSE g[k - 1] + LEN_PREFIX_BYTES + Len(s[k])
    <3>1. CASE k = 0 BY <1>1, <3>1
    <3>2. CASE k # 0
      <4>1. k \in 1 .. m /\ k \in 1 .. Len(recs) /\ k - 1 \in 0 .. m BY <1>1, <3>2
      <4>2. pos[k] = pos[k - 1] + 2 + Len(s[k]) BY <1>1, <1>2, <4>1
      <4> QED BY <3>2, <4>1, <4>2 DEF LEN_PREFIX_BYTES
    <3> QED BY <3>1, <3>2
  <2>2. Sums(g, s) BY <1>2, <2>1 DEF Sums
  <2> HIDE DEF g
  <2> QED BY <2>2
<1> HIDE DEF sum
<1>5. ASSUME NEW k \in 0 .. m
      PROVE  sum[k] = IF k = 0 THEN 0 ELSE sum[k - 1] + 2 + Len(s[k])
  BY <1>2, <1>4 DEF Sums, LEN_PREFIX_BYTES
<1>6. Bad = {}
  <2> SUFFICES ASSUME Bad # {} PROVE FALSE OBVIOUS
  <2>1. Bad \subseteq Nat OBVIOUS
  <2>2. PICK k \in Bad : \A j \in Bad : k <= j
    <3> HIDE DEF Bad
    <3> QED BY <2>1, LeastNumber
  <2>3. k \in 0 .. m /\ sum[k] # pos[k] BY <2>2
  <2>4. k # 0 BY <1>1, <1>5, <2>3
  <2>5. /\ k \in 1 .. m /\ k \in 1 .. Len(recs)
        /\ k - 1 \in 0 .. m /\ k - 1 \in Nat /\ k - 1 < k
    BY <1>1, <2>3, <2>4
  <2>6. sum[k - 1] = pos[k - 1]
    <3>1. k - 1 \notin Bad
      <4> HIDE DEF Bad
      <4> QED BY <2>2, <2>5
    <3> QED BY <2>5, <3>1
  <2>7. sum[k] = sum[k - 1] + 2 + Len(recs[k]) BY <1>2, <1>5, <2>3, <2>4, <2>5
  <2>8. pos[k] = pos[k - 1] + 2 + Len(recs[k]) BY <1>1, <2>5
  <2> QED BY <2>3, <2>6, <2>7, <2>8
<1>7. m \in 0 .. m BY <1>1
<1> QED BY <1>3, <1>6, <1>7 DEF s

\* All payloads take all bytes.
LEMMA BytesIs ==
  ASSUME NEW bytes, NEW recs, NEW pos, Laid(bytes, recs, pos)
  PROVE  BatchBytes(recs) = Len(bytes)
<1>1. recs \in Seq(Accepted) /\ Len(recs) \in Nat BY LaidFacts
<1>2. Len(recs) \in 0 .. Len(recs) BY <1>1
<1>3. BatchBytes(SubSeq(recs, 1, Len(recs))) = pos[Len(recs)] BY <1>2, BytesOfPrefix
<1> QED BY <1>1, <1>3, SubSeqFull DEF Laid

----------------------------------------------------------------------------
(* Putting records together and cutting them off *)

\* Bytes that hold the same at the same place hold the same record.
LEMMA SameRecord ==
  ASSUME NEW a, NEW b, NEW i \in Nat, NEW j \in Nat, NEW payload \in Accepted,
         \A k \in 1 .. 2 + Len(payload) : b[j + k] = a[i + k],
         IsRecordAt(a, i, payload)
  PROVE  IsRecordAt(b, j, payload)
<1>1. Len(payload) \in Nat BY AcceptedType, RingAssumption
<1>2. 1 \in 1 .. 2 + Len(payload) /\ 2 \in 1 .. 2 + Len(payload) BY <1>1
<1>3. b[j + 1] = a[i + 1] /\ b[j + 2] = a[i + 2] BY <1>2
<1>4. ASSUME NEW k \in 1 .. Len(payload) PROVE b[j + 2 + k] = payload[k]
  <2>1. 2 + k \in 1 .. 2 + Len(payload) BY <1>1
  <2>2. b[j + (2 + k)] = a[i + (2 + k)] BY <2>1
  <2>3. j + (2 + k) = j + 2 + k /\ i + (2 + k) = i + 2 + k OBVIOUS
  <2>4. a[i + 2 + k] = payload[k] BY DEF IsRecordAt
  <2> QED BY <2>2, <2>3, <2>4
<1> QED BY <1>3, <1>4 DEF IsRecordAt

\* An offset inside a record is one inside the bytes that hold the record.
LEMMA InsideRecord ==
  ASSUME NEW from \in Nat, NEW size \in Nat, NEW len \in Nat, from + 2 + size <= len,
         NEW i \in 1 .. 2 + size, NEW more \in Nat
  PROVE  /\ from + i \in 1 .. len + more /\ from + i <= len
         /\ more + from + i \in 1 .. more + len /\ more + from + i > more
         /\ more + from + i - more = from + i
OBVIOUS

\* Whole records behind whole records are whole records.
LEMMA LaidConcat ==
  ASSUME NEW a, NEW r, NEW p, Laid(a, r, p), NEW b, NEW s, NEW q, Laid(b, s, q)
  PROVE  \E pos : Laid(a \o b, r \o s, pos)
<1> DEFINE n == Len(r)
           m == Len(s)
           c == a \o b
           t == r \o s
           pos == [k \in 0 .. n + m |-> IF k <= n THEN p[k] ELSE Len(a) + q[k - n]]
<1>1. /\ a \in Seq(Byte) /\ b \in Seq(Byte) /\ r \in Seq(Accepted) /\ s \in Seq(Accepted)
      /\ Len(a) \in Nat /\ Len(b) \in Nat /\ n \in Nat /\ m \in Nat
      /\ \A k \in 0 .. n : p[k] \in 0 .. Len(a)
      /\ \A k \in 0 .. m : q[k] \in 0 .. Len(b)
      /\ \A k \in 1 .. n : p[k] = p[k - 1] + 2 + Len(r[k])
      /\ \A k \in 1 .. m : q[k] = q[k - 1] + 2 + Len(s[k])
  BY LaidFacts
<1>2. Len(a) \in Nat /\ Len(b) \in Nat /\ n \in Nat /\ m \in Nat BY <1>1
<1>3. /\ p[0] = 0 /\ q[0] = 0 /\ p[n] = Len(a) /\ q[m] = Len(b)
      /\ \A j, k \in 0 .. n : j < k => p[j] + 2 <= p[k]
      /\ \A j, k \in 0 .. m : j < k => q[j] + 2 <= q[k]
      /\ \A k \in 1 .. n : IsRecordAt(a, p[k - 1], r[k])
      /\ \A k \in 1 .. m : IsRecordAt(b, q[k - 1], s[k])
  BY DEF Laid
<1>4. /\ c \in Seq(Byte) /\ Len(c) = Len(a) + Len(b)
      /\ \A i \in 1 .. Len(a) + Len(b) : c[i] = IF i <= Len(a) THEN a[i] ELSE b[i - Len(a)]
  BY <1>1, ConcatProperties
<1>5. /\ t \in Seq(Accepted) /\ Len(t) = n + m
      /\ \A i \in 1 .. n + m : t[i] = IF i <= n THEN r[i] ELSE s[i - n]
  BY <1>1, ConcatProperties
<1> HIDE DEF c, t, n, m
<1>6. /\ \A k \in 0 .. n : k \in 0 .. n + m /\ pos[k] = p[k]
      /\ \A k \in 0 .. m : n + k \in 0 .. n + m /\ pos[n + k] = Len(a) + q[k]
  <2>1. ASSUME NEW k \in 0 .. n PROVE k \in 0 .. n + m /\ pos[k] = p[k] BY <1>1
  <2>2. ASSUME NEW k \in 0 .. m PROVE n + k \in 0 .. n + m /\ pos[n + k] = Len(a) + q[k]
    <3>1. n + k \in 0 .. n + m /\ n + k - n = k BY <1>1
    <3>2. CASE k = 0
      <4>1. n + k = n /\ n <= n BY <1>1, <3>2
      <4>2. pos[n + k] = p[n] BY <3>1, <4>1
      <4>3. q[k] = 0 /\ Len(a) + 0 = Len(a) /\ p[n] = Len(a) BY <1>2, <1>3, <3>2
      <4>4. Len(a) + q[k] = Len(a) BY <4>3
      <4> HIDE DEF pos
      <4> QED BY <3>1, <4>2, <4>3, <4>4
    <3>3. CASE k # 0
      <4> DEFINE x == n + k
      <4>1. ~(x <= n) /\ x \in 0 .. n + m /\ x - n = k BY <1>2, <3>1, <3>3
      <4> HIDE DEF x
      <4>2. pos[x] = Len(a) + q[k] BY <4>1
      <4> QED BY <3>1, <4>2 DEF x
    <3> QED BY <3>2, <3>3
  <2> QED BY <2>1, <2>2
<1>7. \A k \in 0 .. n + m : k \in 0 .. n \/ \E i \in 0 .. m : k = n + i
  <2> SUFFICES ASSUME NEW k \in 0 .. n + m, k \notin 0 .. n
               PROVE  \E i \in 0 .. m : k = n + i
    OBVIOUS
  <2>1. k - n \in 0 .. m /\ k = n + (k - n) BY <1>1
  <2> QED BY <2>1
<1>8. pos \in [0 .. n + m -> Nat]
  <2>1. ASSUME NEW k \in 0 .. n + m PROVE pos[k] \in Nat
    <3>1. CASE k \in 0 .. n BY <1>1, <1>6, <3>1
    <3>2. CASE k \notin 0 .. n
      <4>1. PICK i \in 0 .. m : k = n + i BY <1>7, <3>2
      <4> QED BY <1>1, <1>6, <4>1
    <3> QED BY <3>1, <3>2
  <2>2. pos = [k \in 0 .. n + m |-> pos[k]] OBVIOUS
  <2> HIDE DEF pos
  <2> QED BY <2>1, <2>2
<1> HIDE DEF pos
<1>9. pos[0] = 0 /\ pos[n + m] = Len(c)
  <2>1. 0 \in 0 .. n /\ m \in 0 .. m BY <1>2
  <2>2. pos[0] = p[0] /\ pos[n + m] = Len(a) + q[m] BY <1>6, <2>1
  <2> QED BY <1>3, <1>4, <2>2
<1>10. ASSUME NEW j \in 0 .. n + m, NEW k \in 0 .. n + m, j < k
      PROVE  pos[j] + 2 <= pos[k]
  <2>1. CASE k \in 0 .. n
    <3>1. j \in 0 .. n BY <1>1, <1>10, <2>1
    <3>2. p[j] + 2 <= p[k] BY <1>3, <1>10, <2>1, <3>1
    <3> QED BY <1>6, <2>1, <3>1, <3>2
  <2>2. CASE k \notin 0 .. n
    <3>1. PICK i \in 0 .. m : k = n + i BY <1>7, <2>2
    <3>2. CASE j \in 0 .. n
      <4>1. 0 \in 0 .. m /\ 0 < i BY <1>1, <2>2, <3>1
      <4>2. q[0] + 2 <= q[i] BY <1>3, <4>1
      <4>3. p[j] \in 0 .. Len(a) /\ q[i] \in Nat BY <1>1, <3>1, <3>2
      <4>4. p[j] + 2 <= Len(a) + q[i] BY <1>1, <1>3, <4>2, <4>3
      <4> QED BY <1>6, <3>1, <3>2, <4>4
    <3>3. CASE j \notin 0 .. n
      <4>1. PICK h \in 0 .. m : j = n + h BY <1>7, <3>3
      <4>2. h < i BY <1>1, <1>10, <3>1, <4>1
      <4>3. q[h] + 2 <= q[i] BY <1>3, <4>2
      <4>4. q[h] \in Nat /\ q[i] \in Nat BY <1>1
      <4>5. Len(a) + q[h] + 2 <= Len(a) + q[i] BY <1>1, <4>3, <4>4
      <4> QED BY <1>6, <3>1, <4>1, <4>5
    <3> QED BY <3>2, <3>3
  <2> QED BY <2>1, <2>2
<1>11. ASSUME NEW k \in 1 .. n + m
       PROVE  pos[k] = pos[k - 1] + 2 + Len(t[k]) /\ IsRecordAt(c, pos[k - 1], t[k])
  <2>1. CASE k \in 1 .. n
    <3>1. k - 1 \in 0 .. n /\ k \in 0 .. n /\ k <= n BY <1>1, <2>1
    <3>2. pos[k] = p[k] /\ pos[k - 1] = p[k - 1] /\ t[k] = r[k] BY <1>5, <1>6, <3>1
    <3>3. p[k] = p[k - 1] + 2 + Len(r[k]) /\ p[k] \in 0 .. Len(a) /\ p[k - 1] \in 0 .. Len(a)
      BY <1>1, <2>1, <3>1
    <3>4. r[k] \in Accepted BY <1>1, <2>1, ElementOfSeq DEF n
    <3>5. Len(r[k]) \in Nat BY <3>4, AcceptedType, RingAssumption
    <3>6. ASSUME NEW i \in 1 .. 2 + Len(r[k]) PROVE c[p[k - 1] + i] = a[p[k - 1] + i]
      <4> DEFINE lo == p[k - 1]
                 x  == lo + i
      <4>1. lo \in Nat /\ lo + 2 + Len(r[k]) <= Len(a) BY <3>3, <3>5
      <4> HIDE DEF lo
      <4>2. x \in 1 .. Len(a) + Len(b) /\ x <= Len(a)
        BY <1>2, <3>5, <4>1, InsideRecord
      <4> HIDE DEF x
      <4>3. c[x] = a[x] BY <1>4, <4>2
      <4> QED BY <4>3 DEF lo, x
    <3>7. IsRecordAt(a, p[k - 1], r[k]) BY <1>3, <2>1
    <3>8. p[k - 1] \in Nat BY <3>3
    <3>9. IsRecordAt(c, p[k - 1], r[k])
      <4> DEFINE lo == p[k - 1]
                 rec == r[k]
      <4>1. /\ lo \in Nat /\ rec \in Accepted /\ IsRecordAt(a, lo, rec)
            /\ \A j \in 1 .. 2 + Len(rec) : c[lo + j] = a[lo + j]
        BY <3>4, <3>6, <3>7, <3>8
      <4> HIDE DEF lo, rec
      <4>2. IsRecordAt(c, lo, rec) BY <4>1, SameRecord
      <4> QED BY <4>2 DEF lo, rec
    <3> QED BY <3>2, <3>3, <3>9
  <2>2. CASE k \notin 1 .. n
    <3> DEFINE i == k - n
    <3>1. i \in 1 .. m /\ i \in 0 .. m /\ i - 1 \in 0 .. m /\ ~(k <= n) BY <1>1, <2>2
    <3>2. k = n + i /\ k - 1 = n + (i - 1) BY <1>1
    <3>3. t[k] = s[i] BY <1>5, <3>1
    <3> HIDE DEF i
    <3>4. pos[k] = Len(a) + q[i] /\ pos[k - 1] = Len(a) + q[i - 1] BY <1>6, <3>1, <3>2
    <3>5. q[i] = q[i - 1] + 2 + Len(s[i]) /\ q[i] \in 0 .. Len(b) /\ q[i - 1] \in 0 .. Len(b)
      BY <1>1, <3>1
    <3>6. s[i] \in Accepted BY <1>1, <3>1, ElementOfSeq DEF m
    <3>7. Len(s[i]) \in Nat BY <3>6, AcceptedType, RingAssumption
    <3>8. ASSUME NEW h \in 1 .. 2 + Len(s[i])
          PROVE  c[Len(a) + q[i - 1] + h] = b[q[i - 1] + h]
      <4> DEFINE lo == q[i - 1]
                 x  == Len(a) + lo + h
      <4>1. lo \in Nat /\ lo + 2 + Len(s[i]) <= Len(b) BY <3>5, <3>7
      <4> HIDE DEF lo
      <4>2. x \in 1 .. Len(a) + Len(b) /\ ~(x <= Len(a)) /\ x - Len(a) = lo + h
        <5> DEFINE before == Len(a)
                   size == Len(s[i])
                   len == Len(b)
        <5>1. /\ before \in Nat /\ len \in Nat /\ size \in Nat
              /\ lo \in Nat /\ lo + 2 + size <= len /\ h \in 1 .. 2 + size
          BY <1>2, <3>7, <4>1
        <5> HIDE DEF before, size, len
        <5>2. /\ before + lo + h \in 1 .. before + len /\ ~(before + lo + h <= before)
              /\ before + lo + h - before = lo + h
          BY <5>1
        <5>3. x = before + lo + h BY DEF before
        <5> HIDE DEF x
        <5>4. x \in 1 .. before + len /\ ~(x <= before) /\ x - before = lo + h
          BY <5>1, <5>2, <5>3
        <5> QED BY <5>4 DEF before, len
      <4> HIDE DEF x
      <4>3. c[x] = b[lo + h] BY <1>4, <4>2
      <4> QED BY <4>3 DEF lo, x
    <3>9. IsRecordAt(b, q[i - 1], s[i]) BY <1>3, <3>1
    <3>10. q[i - 1] \in Nat /\ Len(a) + q[i - 1] \in Nat
      <4> DEFINE before == Len(a)
                 lo == q[i - 1]
      <4>1. before \in Nat /\ lo \in 0 .. Len(b) /\ Len(b) \in Nat BY <1>2, <3>5
      <4> HIDE DEF before, lo
      <4>2. lo \in Nat /\ before + lo \in Nat BY <4>1
      <4> QED BY <4>2 DEF before, lo
    <3>11. IsRecordAt(c, Len(a) + q[i - 1], s[i])
      <4> DEFINE lo == q[i - 1]
                 at == Len(a) + lo
                 rec == s[i]
      <4>1. /\ lo \in Nat /\ at \in Nat /\ rec \in Accepted /\ IsRecordAt(b, lo, rec)
            /\ \A j \in 1 .. 2 + Len(rec) : c[at + j] = b[lo + j]
        BY <3>6, <3>8, <3>9, <3>10
      <4> HIDE DEF lo, at, rec
      <4>2. IsRecordAt(c, at, rec) BY <4>1, SameRecord
      <4> QED BY <4>2 DEF lo, at, rec
    <3>12. Len(a) + q[i] = Len(a) + q[i - 1] + 2 + Len(s[i])
      <4> DEFINE lo == q[i - 1]
      <4>1. q[i] = lo + 2 + Len(s[i]) /\ lo \in Nat BY <3>5, <3>10
      <4> HIDE DEF lo
      <4>2. \A x, y, z \in Nat : x + (y + 2 + z) = x + y + 2 + z OBVIOUS
      <4>3. Len(a) + q[i] = Len(a) + lo + 2 + Len(s[i])
        <5> DEFINE before == Len(a)
                   size == Len(s[i])
        <5>1. before \in Nat /\ size \in Nat /\ lo \in Nat /\ q[i] = lo + 2 + size
          BY <1>2, <3>7, <4>1
        <5> HIDE DEF before, size
        <5>2. before + (lo + 2 + size) = before + lo + 2 + size BY <5>1
        <5>3. before + q[i] = before + lo + 2 + size BY <5>1, <5>2
        <5> QED BY <5>3 DEF before, size
      <4> QED BY <4>3 DEF lo
    <3> QED BY <3>3, <3>4, <3>11, <3>12
  <2> QED BY <2>1, <2>2
<1>12. Laid(c, t, pos) BY <1>4, <1>5, <1>8, <1>9, <1>10, <1>11 DEF Laid
<1> QED BY <1>12 DEF c, t

\* One after the other: records do not end before those in front of them.
LEMMA EndsInOrder ==
  ASSUME NEW bytes, NEW recs, NEW pos, Laid(bytes, recs, pos),
         NEW j \in 0 .. Len(recs), NEW k \in 0 .. Len(recs), j <= k
  PROVE  pos[j] \in Nat /\ pos[k] \in Nat /\ pos[j] <= pos[k]
<1>1. Len(recs) \in Nat /\ pos[j] \in Nat /\ pos[k] \in Nat BY LaidFacts
<1>2. CASE j = k BY <1>1, <1>2
<1>3. CASE j # k
  <2>1. j < k BY <1>1, <1>3
  <2>2. pos[j] + 2 <= pos[k] BY <2>1 DEF Laid
  <2> QED BY <1>1, <2>2
<1> QED BY <1>2, <1>3

\* What is cut out of whole records from the end of one to the end of another is
\* whole records again.
LEMMA LaidSlice ==
  ASSUME NEW bytes, NEW recs, NEW pos, Laid(bytes, recs, pos),
         NEW lo \in 0 .. Len(recs), NEW hi \in lo .. Len(recs),
         NEW c \in Seq(Byte), Len(c) = pos[hi] - pos[lo],
         \A i \in 1 .. Len(c) : c[i] = bytes[pos[lo] + i]
  PROVE  /\ Len(SubSeq(recs, lo + 1, hi)) = hi - lo
         /\ Laid(c, SubSeq(recs, lo + 1, hi), [k \in 0 .. hi - lo |-> pos[lo + k] - pos[lo]])
<1> DEFINE n == Len(recs)
           w == hi - lo
           t == SubSeq(recs, lo + 1, hi)
           base == pos[lo]
           new == [k \in 0 .. w |-> pos[lo + k] - base]
<1>1. /\ recs \in Seq(Accepted) /\ n \in Nat
      /\ \A k \in 1 .. n : pos[k] = pos[k - 1] + 2 + Len(recs[k])
      /\ \A k \in 1 .. n : IsRecordAt(bytes, pos[k - 1], recs[k])
  BY LaidFacts DEF Laid
<1>2. lo \in Nat /\ hi \in Nat /\ lo <= hi /\ hi <= n /\ w \in Nat BY <1>1
<1>3. \A k \in 0 .. w : lo + k \in 0 .. n /\ lo <= lo + k /\ lo + k <= hi BY <1>1, <1>2
<1>4. /\ base \in Nat /\ pos[hi] \in Nat
      /\ \A k \in 0 .. w : pos[lo + k] \in Nat /\ base <= pos[lo + k] /\ pos[lo + k] <= pos[hi]
  <2>1. lo \in 0 .. n /\ hi \in 0 .. n BY <1>1, <1>2
  <2>2. base \in Nat /\ pos[hi] \in Nat BY <1>2, <2>1, EndsInOrder
  <2>3. ASSUME NEW k \in 0 .. w
        PROVE  pos[lo + k] \in Nat /\ base <= pos[lo + k] /\ pos[lo + k] <= pos[hi]
    <3> DEFINE at == lo + k
    <3>1. at \in 0 .. n /\ lo <= at /\ at <= hi BY <1>3
    <3> HIDE DEF at
    <3>2. pos[at] \in Nat /\ base <= pos[at] BY <2>1, <3>1, EndsInOrder
    <3>3. pos[at] <= pos[hi] BY <2>1, <3>1, EndsInOrder
    <3> QED BY <3>2, <3>3 DEF at
  <2> QED BY <2>2, <2>3
<1>5. /\ t \in Seq(Accepted) /\ Len(t) = w
      /\ \A k \in 1 .. w : lo + k \in 1 .. n /\ t[k] = recs[lo + k]
  <2> DEFINE from == lo + 1
  <2>1. from \in Int /\ hi \in Int /\ from = lo + 1 BY <1>2
  <2>2. \A k \in from .. hi : recs[k] \in Accepted
    <3>1. from .. hi \subseteq 1 .. n BY <1>1, <1>2
    <3> QED BY <1>1, <3>1, ElementOfSeq
  <2>3. t = SubSeq(recs, from, hi) OBVIOUS
  <2> HIDE DEF from, t
  <2>4. /\ t \in Seq(Accepted)
        /\ Len(t) = IF from <= hi THEN hi - from + 1 ELSE 0
        /\ \A k \in 1 .. hi - from + 1 : t[k] = recs[from + k - 1]
    BY <2>1, <2>2, <2>3, SubSeqProperties
  <2>5. Len(t) = w BY <1>2, <2>1, <2>4
  <2>6. ASSUME NEW k \in 1 .. w PROVE lo + k \in 1 .. n /\ t[k] = recs[lo + k]
    <3>1. k \in 1 .. hi - from + 1 /\ from + k - 1 = lo + k /\ lo + k \in 1 .. n
      BY <1>1, <1>2, <2>1
    <3> QED BY <2>4, <3>1
  <2> QED BY <2>4, <2>5, <2>6
<1>6. \A k \in 0 .. w : new[k] = pos[lo + k] - base /\ new[k] \in Nat
  <2> SUFFICES ASSUME NEW k \in 0 .. w PROVE new[k] = pos[lo + k] - base /\ new[k] \in Nat
    OBVIOUS
  <2>1. pos[lo + k] \in Nat /\ base <= pos[lo + k] /\ base \in Nat BY <1>4
  <2> HIDE DEF base
  <2>2. new[k] = pos[lo + k] - base OBVIOUS
  <2> HIDE DEF new
  <2> QED BY <2>1, <2>2
<1>7. new = [k \in 0 .. w |-> new[k]] OBVIOUS
<1> HIDE DEF new, t, w, base
<1>8. new \in [0 .. w -> Nat] BY <1>6, <1>7
<1>9. new[0] = 0 /\ new[w] = Len(c)
  <2>1. lo + 0 = lo /\ lo + w = hi /\ 0 \in 0 .. w /\ w \in 0 .. w BY <1>2 DEF w
  <2>2. new[0] = pos[lo] - base /\ new[w] = pos[hi] - base BY <1>6, <2>1
  <2> QED BY <1>4, <2>2 DEF base
<1>10. ASSUME NEW j \in 0 .. w, NEW k \in 0 .. w, j < k PROVE new[j] + 2 <= new[k]
  <2>1. lo + j \in 0 .. n /\ lo + k \in 0 .. n /\ lo + j < lo + k BY <1>2, <1>3, <1>10
  <2>2. pos[lo + j] + 2 <= pos[lo + k] BY <2>1 DEF Laid
  <2>3. new[j] = pos[lo + j] - base /\ new[k] = pos[lo + k] - base BY <1>6
  <2> DEFINE x == pos[lo + j]
             y == pos[lo + k]
  <2>4. x \in Nat /\ y \in Nat /\ x + 2 <= y /\ new[j] = x - base /\ new[k] = y - base
    BY <1>4, <2>2, <2>3
  <2> HIDE DEF x, y
  <2> QED BY <1>4, <2>4
<1>11. ASSUME NEW k \in 1 .. w
       PROVE  new[k] = new[k - 1] + 2 + Len(t[k]) /\ IsRecordAt(c, new[k - 1], t[k])
  <2> DEFINE at == lo + k
             rec == recs[at]
             x == pos[at - 1]
             y == pos[at]
             z == pos[hi]
  <2>1. k \in 0 .. w /\ k - 1 \in 0 .. w /\ lo + (k - 1) = at - 1 BY <1>2
  <2>2. at \in 1 .. n /\ t[k] = rec BY <1>5
  <2>3. new[k] = y - base /\ new[k - 1] = x - base BY <1>6, <2>1
  <2>4. /\ x \in Nat /\ base <= x /\ x <= z /\ y \in Nat /\ base <= y /\ y <= z /\ z \in Nat
    BY <1>4, <2>1
  <2> HIDE DEF at
  <2>5. base \in Nat BY <1>4
  <2>6. rec \in Accepted BY <1>1, <2>2, ElementOfSeq
  <2>7. y = x + 2 + Len(rec) /\ IsRecordAt(bytes, x, rec) BY <1>1, <2>2
  <2>8. Len(rec) \in Nat BY <2>6, AcceptedType, RingAssumption
  <2>9. Len(c) = z - base BY DEF base
  <2> HIDE DEF rec, x, y, z
  <2> DEFINE start == x - base
  <2>10. /\ start \in Nat /\ new[k] = start + 2 + Len(rec) /\ new[k - 1] = start
        /\ start + base = x /\ start + 2 + Len(rec) <= Len(c) /\ Len(c) \in Nat
    <3> DEFINE size == Len(rec)
    <3>1. size \in Nat /\ y = x + 2 + size BY <2>7, <2>8
    <3> HIDE DEF size
    <3>2. /\ start \in Nat /\ y - base = start + 2 + size /\ start + base = x
          /\ start + 2 + size <= z - base /\ z - base \in Nat
      BY <2>5, <2>4, <3>1
    <3> QED BY <2>3, <2>9, <3>2 DEF size
  <2> HIDE DEF start
  <2>11. ASSUME NEW i \in 1 .. 2 + Len(rec) PROVE c[start + i] = bytes[x + i]
    <3> DEFINE size == Len(rec)
               len == Len(c)
               off == start + i
    <3>1. size \in Nat /\ len \in Nat /\ start + 2 + size <= len /\ i \in 1 .. 2 + size
      BY <2>8, <2>10
    <3> HIDE DEF size, len
    <3>2. off \in 1 .. len /\ base + off = x + i BY <1>4, <2>10, <3>1
    <3> HIDE DEF off
    <3>3. c[off] = bytes[base + off] BY <3>2 DEF len, base
    <3> QED BY <3>2, <3>3 DEF off
  <2>12. IsRecordAt(c, start, rec)
    <3>1. /\ x \in Nat /\ start \in Nat /\ rec \in Accepted /\ IsRecordAt(bytes, x, rec)
          /\ \A i \in 1 .. 2 + Len(rec) : c[start + i] = bytes[x + i]
      BY <2>4, <2>6, <2>7, <2>10, <2>11
    <3> QED BY <3>1, SameRecord
  <2> QED BY <2>2, <2>10, <2>12
<1>12. Laid(c, t, new) BY <1>5, <1>8, <1>9, <1>10, <1>11 DEF Laid
<1> QED BY <1>5, <1>12 DEF new, t, w, base

\* What push_record appends is the record of the payload.
LEMMA LaidRecord ==
  ASSUME NEW p \in Accepted
  PROVE  \E pos : Laid(Record(p), <<p>>, pos)
<1> DEFINE len == Len(p)
           prefix == Encode(len)
           c == Record(p)
           pos == [k \in 0 .. 1 |-> IF k = 0 THEN 0 ELSE 2 + len]
<1>1. p \in Seq(Byte) /\ len \in 0 .. MAX_RECORD_BYTES /\ len \in Nat
  BY AcceptedType, RingAssumption
<1>2. /\ prefix \in Seq(Byte) /\ Len(prefix) = 2
      /\ Decode(prefix[1], prefix[2]) = len
  BY <1>1, PrefixRoundTrip
<1>3. c = prefix \o p BY DEF Record
<1> HIDE DEF c, prefix
<1>4. /\ c \in Seq(Byte) /\ Len(c) = 2 + len
      /\ \A i \in 1 .. 2 + len : c[i] = IF i <= 2 THEN prefix[i] ELSE p[i - 2]
  <2>1. /\ c \in Seq(Byte) /\ Len(c) = Len(prefix) + len
        /\ \A i \in 1 .. Len(prefix) + len :
             c[i] = IF i <= Len(prefix) THEN prefix[i] ELSE p[i - Len(prefix)]
    BY <1>1, <1>2, <1>3, ConcatProperties
  <2> QED BY <1>2, <2>1
<1> HIDE DEF len
<1>5. c[1] = prefix[1] /\ c[2] = prefix[2]
  <2>1. 1 \in 1 .. 2 + len /\ 2 \in 1 .. 2 + len BY <1>1
  <2> QED BY <1>4, <2>1
<1>6. ASSUME NEW j \in 1 .. len PROVE c[2 + j] = p[j]
  <2> DEFINE x == 2 + j
  <2>1. x \in 1 .. 2 + len /\ ~(x <= 2) /\ x - 2 = j BY <1>1
  <2> HIDE DEF x
  <2>2. c[x] = p[j] BY <1>4, <2>1
  <2> QED BY <2>2 DEF x
<1>7. IsRecordAt(c, 0, p)
  <2>1. 0 + 1 = 1 /\ 0 + 2 = 2 OBVIOUS
  <2> QED BY <1>2, <1>5, <1>6, <2>1 DEF IsRecordAt, len
<1>8. /\ <<p>> \in Seq(Accepted) /\ Len(<<p>>) = 1 /\ <<p>>[1] = p OBVIOUS
<1>9. /\ pos \in [0 .. 1 -> Nat] /\ pos[0] = 0 /\ pos[1] = 2 + len BY <1>1
<1> HIDE DEF pos
<1>10. \A j, k \in 0 .. 1 : j < k => pos[j] + 2 <= pos[k]
  <2> SUFFICES ASSUME NEW j \in 0 .. 1, NEW k \in 0 .. 1, j < k PROVE pos[j] + 2 <= pos[k]
    OBVIOUS
  <2>1. j = 0 /\ k = 1 OBVIOUS
  <2> QED BY <1>1, <1>9, <2>1
<1>11. \A k \in 1 .. 1 : /\ pos[k] = pos[k - 1] + 2 + Len(<<p>>[k])
                         /\ IsRecordAt(c, pos[k - 1], <<p>>[k])
  <2> SUFFICES /\ pos[1] = pos[1 - 1] + 2 + Len(<<p>>[1])
               /\ IsRecordAt(c, pos[1 - 1], <<p>>[1])
    OBVIOUS
  <2>1. 1 - 1 = 0 /\ 0 + 2 + len = 2 + len BY <1>1
  <2> QED BY <1>7, <1>8, <1>9, <2>1 DEF len
<1>12. Laid(c, <<p>>, pos) BY <1>4, <1>8, <1>9, <1>10, <1>11 DEF Laid
<1> QED BY <1>12 DEF c

----------------------------------------------------------------------------
(* What is queued *)

Queued == CopyOut(head, used)

\* In intact memory the bytes between the positions are those that were pushed.
LEMMA ContentsAre ==
  RingInv /\ ~tainted =>
    /\ tail - head \in 0 .. Cap /\ used = tail - head
    /\ Queued \in Seq(Byte) /\ Len(Queued) = tail - head
    /\ \A i \in 1 .. tail - head :
         Queued[i] = stream[head + i - 1] /\ Queued[i] = data[(head + i - 1) % Cap]
<1> SUFFICES ASSUME RingInv, ~tainted
             PROVE  /\ tail - head \in 0 .. Cap /\ used = tail - head
                    /\ Queued \in Seq(Byte) /\ Len(Queued) = tail - head
                    /\ \A i \in 1 .. tail - head : /\ Queued[i] = stream[head + i - 1]
                                                   /\ Queued[i] = data[(head + i - 1) % Cap]
  OBVIOUS
<1>1. /\ head \in Nat /\ tail \in Nat /\ Cap \in Nat /\ data \in [0 .. Cap - 1 -> Byte]
      /\ is_consistent /\ \A c \in head .. tail - 1 : data[c % Cap] = stream[c]
  BY RingAssumption DEF RingInv, TypeOK, Window
<1>2. tail - head \in 0 .. Cap BY <1>1 DEF is_consistent
<1>3. used = tail - head BY <1>1 DEF used
<1>4. /\ Queued \in Seq(Byte) /\ Len(Queued) = tail - head
      /\ \A i \in 1 .. tail - head : Queued[i] = data[(head + i - 1) % Cap]
  BY <1>1, <1>2, <1>3, CopyOutLemma DEF Queued
<1>5. \A i \in 1 .. tail - head : head + i - 1 \in head .. tail - 1 BY <1>1
<1> QED BY <1>1, <1>2, <1>3, <1>4, <1>5

\* The same after a step.
LEMMA ContentsAfter ==
  ASSUME RingInv', ~tainted'
  PROVE  /\ tail' - head' \in 0 .. Cap
         /\ Queued' \in Seq(Byte) /\ Len(Queued') = tail' - head'
         /\ \A i \in 1 .. tail' - head' : Queued'[i] = stream'[head' + i - 1]
<1>1. (RingInv /\ ~tainted =>
        /\ tail - head \in 0 .. Cap /\ used = tail - head
        /\ Queued \in Seq(Byte) /\ Len(Queued) = tail - head
        /\ \A i \in 1 .. tail - head :
             Queued[i] = stream[head + i - 1] /\ Queued[i] = data[(head + i - 1) % Cap])'
  BY ContentsAre, PTL
<1> QED BY <1>1

\* Steps that leave positions and pushed bytes alone leave the contents alone.
LEMMA SameContents ==
  ASSUME RingInv, RingInv', ~tainted, ~tainted', UNCHANGED <<head, tail, stream>>
  PROVE  Queued' = Queued
<1>1. /\ Queued \in Seq(Byte) /\ Len(Queued) = tail - head
      /\ \A i \in 1 .. tail - head : Queued[i] = stream[head + i - 1]
  BY ContentsAre
<1>2. /\ Queued' \in Seq(Byte) /\ Len(Queued') = tail - head
      /\ \A i \in 1 .. tail - head : Queued'[i] = stream[head + i - 1]
  BY ContentsAfter
<1> QED BY <1>1, <1>2, SeqEqual

----------------------------------------------------------------------------
(* The invariant of the mapping: with RingInv, what it takes to map a step *)

\* A drain has accepted the oldest records one by one: as many as the limit allows,
\* but one at least, when it stops before all are accepted.
Accepting(recs, pos) ==
  /\ records \in 0 .. Len(recs) /\ pos[records] = taken
  /\ records > 1 => taken <= CHUNK_BYTES
  /\ wpc = "move" => records > 0 /\ records < Len(recs) /\ pos[records + 1] > CHUNK_BYTES

\* A batch is whole records, as many as it counts; what is pushed is not empty.
BatchesMapped ==
  \A b \in Backends :
    /\ \E recs, pos : Laid(batch[b].bytes, recs, pos) /\ Len(recs) = batch[b].records
    /\ pc[b] # "build" => batch[b].records > 0

\* So is what is queued, and a drain stands behind the records it has accepted.
QueueMapped ==
  \E recs, pos : /\ Laid(Queued, recs, pos)
                 /\ wpc \in {"measure", "move"} => Accepting(recs, pos)

\* So is what the worker decodes.
ChunkMapped ==
  wpc = "decode" => \E recs, pos : Laid(out, recs, pos) /\ recs # << >>

MappedInv == ~tainted /\ BatchesMapped /\ QueueMapped /\ ChunkMapped

\* The variables of the record queue.
QBatch == [b \in Backends |-> Split(batch[b].bytes)]
QQueue == Split(Queued)
QChunk == IF wpc = "decode" THEN Split(out) ELSE << >>

\* The records of a batch, and the space they take.
LEMMA BatchRecords ==
  ASSUME BatchesMapped, NEW b \in Backends
  PROVE  /\ QBatch[b] \in Seq(Accepted)
         /\ Len(QBatch[b]) = batch[b].records
         /\ BatchBytes(QBatch[b]) = Len(batch[b].bytes)
<1>1. PICK recs, pos : Laid(batch[b].bytes, recs, pos) /\ Len(recs) = batch[b].records
  BY DEF BatchesMapped
<1>2. QBatch[b] = recs BY <1>1, SplitIs DEF QBatch
<1> QED BY <1>1, <1>2, LaidFacts, BytesIs

\* The queued records, and the space they take.
LEMMA QueueRecords ==
  ASSUME RingInv, ~tainted, QueueMapped
  PROVE  /\ QQueue \in Seq(Accepted)
         /\ BatchBytes(QQueue) = tail - head
<1>1. PICK recs, pos : Laid(Queued, recs, pos) BY DEF QueueMapped
<1>2. QQueue = recs BY <1>1, SplitIs DEF QQueue
<1>3. Len(Queued) = tail - head BY ContentsAre
<1> QED BY <1>1, <1>2, <1>3, LaidFacts, BytesIs

\* No bytes are no records.
LEMMA SplitEmpty == Split(<< >>) = << >>
BY LaidEmpty, SplitIs

\* Steps of a backend that leave the ring's contents alone.
LEMMA QueueKept ==
  ASSUME RingInv, RingInv', MappedInv,
         UNCHANGED <<head, tail, stream, tainted, wpc, taken, records, out>>
  PROVE  ~tainted' /\ QueueMapped' /\ ChunkMapped' /\ QQueue' = QQueue /\ QChunk' = QChunk
<1>1. ~tainted /\ ~tainted' BY DEF MappedInv
<1>2. Queued' = Queued BY <1>1, SameContents
<1>3. PICK recs, pos : /\ Laid(Queued, recs, pos)
                       /\ wpc \in {"measure", "move"} => Accepting(recs, pos)
  BY DEF MappedInv, QueueMapped
<1>4. wpc' \in {"measure", "move"} => Accepting(recs, pos)'
  BY <1>3 DEF Accepting
<1>5. QueueMapped' BY <1>2, <1>3, <1>4 DEF QueueMapped
<1>6. ChunkMapped' BY DEF MappedInv, ChunkMapped
<1> QED BY <1>1, <1>2, <1>5, <1>6 DEF QQueue, QChunk

----------------------------------------------------------------------------
(* Every step of the ring is a step of the record queue or invisible there *)

LEMMA InitMapped == Init => MappedInv /\ Queue!Init
<1> SUFFICES ASSUME Init PROVE MappedInv /\ Queue!Init OBVIOUS
<1>1. RingInv /\ ~tainted BY InitInv DEF Init
<1>2. Queued = << >>
  <2>1. Queued \in Seq(Byte) /\ Len(Queued) = 0 BY <1>1, ContentsAre DEF Init
  <2> QED BY <2>1, EmptySeq
<1>3. \A b \in Backends : batch[b].bytes = << >> /\ batch[b].records = 0 /\ pc[b] = "build"
  BY DEF Init, EmptyBatch
<1>4. BatchesMapped BY <1>3, LaidEmpty, EmptySeq DEF BatchesMapped
<1>5. wpc = "idle" BY DEF Init
<1>6. QueueMapped /\ ChunkMapped BY <1>2, <1>5, LaidEmpty DEF QueueMapped, ChunkMapped
<1>7. QBatch = [b \in Backends |-> << >>] /\ QQueue = << >> /\ QChunk = << >>
  BY <1>2, <1>3, <1>5, SplitEmpty DEF QBatch, QQueue, QChunk
<1> QED BY <1>1, <1>4, <1>6, <1>7
        DEF MappedInv, Queue!Init, QBatch, QQueue, QChunk, Queued

\* push_record collects a record, or nothing when the payload is too large.
LEMMA PushRecordMapped ==
  ASSUME RingInv, RingInv', MappedInv,
         NEW b \in Backends, NEW payload \in Payloads, PushRecord(b, payload)
  PROVE  MappedInv' /\ Queue!Collect(b)
<1>1. /\ UNCHANGED <<head, tail, stream, tainted, wpc, taken, records, out, pc>>
      /\ batch' = [batch EXCEPT ![b] = WithRecord(batch[b], payload)]
  BY DEF PushRecord, ring, consumer, history
<1>2. ~tainted' /\ QueueMapped' /\ ChunkMapped' /\ QQueue' = QQueue /\ QChunk' = QChunk
  BY <1>1, QueueKept
<1>3. batch \in [Backends -> BatchType] BY DEF RingInv, TypeOK, BatchType
<1>4. /\ batch'[b] = WithRecord(batch[b], payload)
      /\ \A a \in Backends \ {b} : batch'[a] = batch[a]
  BY <1>1, <1>3
<1>5. PICK recs, pos : Laid(batch[b].bytes, recs, pos) /\ Len(recs) = batch[b].records
  BY DEF MappedInv, BatchesMapped
<1>6. recs \in Seq(Accepted) /\ Len(recs) \in Nat BY <1>5, LaidFacts
<1>7. \E new, ends : /\ Laid(batch'[b].bytes, new, ends) /\ Len(new) = batch'[b].records
                     /\ Len(recs) <= Len(new) /\ recs = SubSeq(new, 1, Len(recs))
                     /\ new \in Seq(Accepted)
  <2>1. CASE Len(payload) > MAX_RECORD_BYTES
    <3>1. batch'[b] = batch[b] BY <1>4, <2>1 DEF WithRecord
    <3>2. Len(recs) <= Len(recs) /\ recs = SubSeq(recs, 1, Len(recs)) BY <1>6, SubSeqFull
    <3> QED BY <1>5, <1>6, <3>1, <3>2
  <2>2. CASE Len(payload) <= MAX_RECORD_BYTES
    <3> DEFINE new == recs \o <<payload>>
    <3>1. payload \in Accepted BY <2>2 DEF Accepted
    <3>2. PICK p : Laid(Record(payload), <<payload>>, p) BY <3>1, LaidRecord
    <3>3. PICK ends : Laid(batch[b].bytes \o Record(payload), new, ends)
      BY <1>5, <3>2, LaidConcat
    <3>4. ~(Len(payload) > MAX_RECORD_BYTES)
      BY <2>2, <3>1, AcceptedType, RingAssumption
    <3>5. /\ batch'[b].bytes = batch[b].bytes \o Record(payload)
          /\ batch'[b].records = batch[b].records + 1
      BY <1>4, <3>4 DEF WithRecord
    <3>6. /\ new \in Seq(Accepted) /\ Len(new) = Len(recs) + 1
          /\ \A i \in 1 .. Len(recs) : new[i] = recs[i]
      BY <1>6, <3>1, ConcatProperties
    <3> HIDE DEF new
    <3>7. recs = SubSeq(new, 1, Len(recs))
      <4> DEFINE one == 1
                 len == Len(recs)
                 sub == SubSeq(new, one, len)
      <4>1. one \in Int /\ len \in Int /\ len \in Nat /\ one = 1 BY <1>6
      <4>2. \A i \in one .. len : new[i] \in Accepted
        <5>1. one .. len \subseteq 1 .. Len(new) BY <3>6, <4>1
        <5> QED BY <3>6, <5>1, ElementOfSeq
      <4> HIDE DEF one, len
      <4>3. /\ sub \in Seq(Accepted)
            /\ Len(sub) = IF one <= len THEN len - one + 1 ELSE 0
            /\ \A i \in 1 .. len - one + 1 : sub[i] = new[one + i - 1]
        BY <4>1, <4>2, SubSeqProperties
      <4> HIDE DEF sub
      <4>4. Len(sub) = len BY <4>1, <4>3
      <4>5. ASSUME NEW i \in 1 .. len PROVE sub[i] = recs[i]
        <5>1. i \in 1 .. len - one + 1 /\ one + i - 1 = i BY <4>1
        <5>2. new[i] = recs[i] BY <3>6 DEF len
        <5> QED BY <4>3, <5>1, <5>2
      <4>6. sub = recs BY <1>6, <4>3, <4>4, <4>5, SeqEqual DEF len
      <4> QED BY <4>6 DEF sub, one, len
    <3> QED BY <1>5, <1>6, <3>3, <3>5, <3>6, <3>7
  <2>3. Len(payload) \in Nat /\ MAX_RECORD_BYTES \in Nat BY RingAssumption
  <2> QED BY <2>1, <2>2, <2>3
<1>8. PICK new, ends : /\ Laid(batch'[b].bytes, new, ends) /\ Len(new) = batch'[b].records
                       /\ Len(recs) <= Len(new) /\ recs = SubSeq(new, 1, Len(recs))
                       /\ new \in Seq(Accepted)
  BY <1>7
<1>9. BatchesMapped'
  <2> SUFFICES ASSUME NEW a \in Backends
               PROVE  /\ \E r, p : Laid(batch'[a].bytes, r, p) /\ Len(r) = batch'[a].records
                      /\ pc'[a] # "build" => batch'[a].records > 0
    BY DEF BatchesMapped
  <2>1. CASE a = b BY <1>1, <1>8, <2>1 DEF PushRecord
  <2>2. CASE a # b BY <1>1, <1>4, <2>2 DEF MappedInv, BatchesMapped
  <2> QED BY <2>1, <2>2
<1>10. QBatch[b] = recs /\ QBatch'[b] = new BY <1>5, <1>8, SplitIs DEF QBatch
<1>11. QBatch' = [QBatch EXCEPT ![b] = QBatch'[b]] BY <1>4 DEF QBatch
<1>12. /\ QBatch'[b] \in Seq(Accepted)
       /\ Len(QBatch[b]) <= Len(QBatch'[b])
       /\ QBatch[b] = SubSeq(QBatch'[b], 1, Len(QBatch[b]))
  BY <1>8, <1>10
<1> QED BY <1>2, <1>9, <1>11, <1>12
        DEF MappedInv, Queue!Collect, QBatch, QQueue, QChunk, Queued, Accepted

\* Emptying the batch of one backend.
LEMMA BatchEmptied ==
  ASSUME RingInv, MappedInv, NEW b \in Backends,
         batch' = [batch EXCEPT ![b] = EmptyBatch],
         pc' \in [Backends -> {"build", "copy", "advance"}], pc'[b] = "build",
         \A a \in Backends \ {b} : pc'[a] = pc[a]
  PROVE  BatchesMapped' /\ QBatch' = [QBatch EXCEPT ![b] = << >>]
<1>1. batch \in [Backends -> BatchType] BY DEF RingInv, TypeOK, BatchType
<1>2. /\ batch'[b].bytes = << >> /\ batch'[b].records = 0
      /\ \A a \in Backends \ {b} : batch'[a] = batch[a]
  BY <1>1 DEF EmptyBatch
<1>3. BatchesMapped'
  <2> SUFFICES ASSUME NEW a \in Backends
               PROVE  /\ \E r, p : Laid(batch'[a].bytes, r, p) /\ Len(r) = batch'[a].records
                      /\ pc'[a] # "build" => batch'[a].records > 0
    BY DEF BatchesMapped
  <2>1. CASE a = b BY <1>2, <2>1, LaidEmpty, EmptySeq
  <2>2. CASE a # b BY <1>2, <2>2 DEF MappedInv, BatchesMapped
  <2> QED BY <2>1, <2>2
<1>4. QBatch' = [QBatch EXCEPT ![b] = << >>]
  <2>1. ASSUME NEW a \in Backends
        PROVE  Split(batch'[a].bytes) = [QBatch EXCEPT ![b] = << >>][a]
    <3>1. CASE a = b BY <1>2, <3>1, SplitEmpty DEF QBatch
    <3>2. CASE a # b BY <1>2, <3>2 DEF QBatch
    <3> QED BY <3>1, <3>2
  <2> QED BY <2>1 DEF QBatch
<1> QED BY <1>3, <1>4

\* push_batch refuses a batch because it does not fit, or begins to write it.
LEMMA PushLockMapped ==
  ASSUME RingInv, RingInv', MappedInv, NEW b \in Backends, PushLock(b)
  PROVE  MappedInv' /\ (Queue!Refuse(b) \/ UNCHANGED Queue!vars)
<1>1. is_consistent BY DEF RingInv, Window, MappedInv
<1>2. UNCHANGED <<head, tail, stream, tainted, wpc, taken, records, out>>
  BY <1>1 DEF PushLock, consumer, history
<1>3. ~tainted' /\ QueueMapped' /\ ChunkMapped' /\ QQueue' = QQueue /\ QChunk' = QChunk
  BY <1>2, QueueKept
<1>4. CASE DoesNotFit(batch[b].bytes)
  <2>1. batch' = [batch EXCEPT ![b] = EmptyBatch] /\ pc' = pc /\ pc[b] = "build"
    BY <1>4 DEF PushLock
  <2>2. BatchesMapped' /\ QBatch' = [QBatch EXCEPT ![b] = << >>]
    BY <2>1, BatchEmptied DEF RingInv, TypeOK
  <2>3. BatchBytes(QQueue) + BatchBytes(QBatch[b]) > Cap
    <3>1. BatchBytes(QQueue) = tail - head BY QueueRecords DEF MappedInv
    <3>2. BatchBytes(QBatch[b]) = Len(batch[b].bytes) BY BatchRecords DEF MappedInv
    <3>3. batch[b].bytes \in Seq(Byte) BY DEF RingInv, TypeOK
    <3>4. Len(batch[b].bytes) \in Nat BY <3>3, LenProperties
    <3>5. Len(batch[b].bytes) > Cap - (tail - head) /\ tail - head \in 0 .. Cap /\ Cap \in Nat
      BY <1>4, ContentsAre, RingAssumption DEF DoesNotFit, MappedInv
    <3> DEFINE size == Len(batch[b].bytes)
    <3>6. size \in Nat /\ size > Cap - (tail - head) BY <3>4, <3>5
    <3> HIDE DEF size
    <3>7. tail - head + size > Cap BY <3>5, <3>6
    <3> QED BY <3>1, <3>2, <3>7 DEF size
  <2>4. Queue!Refuse(b)
    BY <1>3, <2>2, <2>3 DEF Queue!Refuse, QBatch, QQueue, QChunk, Queued
  <2> QED BY <1>3, <2>2, <2>4 DEF MappedInv
<1>5. CASE ~DoesNotFit(batch[b].bytes)
  <2>1. batch' = batch /\ pc' = [pc EXCEPT ![b] = "copy"] /\ batch[b].records > 0
    BY <1>5 DEF PushLock
  <2>2. BatchesMapped' /\ QBatch' = QBatch
    BY <2>1 DEF MappedInv, BatchesMapped, QBatch, RingInv, TypeOK
  <2> QED BY <1>3, <2>2 DEF MappedInv, Queue!vars, QBatch, QQueue, QChunk, Queued
<1> QED BY <1>4, <1>5

\* Bytes written behind the tail are not seen yet.
LEMMA PushCopyMapped ==
  ASSUME RingInv, RingInv', MappedInv, NEW b \in Backends, PushCopy(b)
  PROVE  MappedInv' /\ UNCHANGED Queue!vars
<1>1. /\ UNCHANGED <<head, tail, stream, tainted, wpc, taken, records, out, batch>>
      /\ pc[b] = "copy" /\ pc' = [pc EXCEPT ![b] = "advance"]
  BY DEF PushCopy, consumer, history
<1>2. ~tainted' /\ QueueMapped' /\ ChunkMapped' /\ QQueue' = QQueue /\ QChunk' = QChunk
  BY <1>1, QueueKept
<1>3. BatchesMapped' /\ QBatch' = QBatch
  BY <1>1 DEF MappedInv, BatchesMapped, QBatch, RingInv, TypeOK
<1> QED BY <1>2, <1>3 DEF MappedInv, Queue!vars, QBatch, QQueue, QChunk, Queued

\* When the tail moves, the whole statement is queued behind what was queued.
LEMMA PushAdvanceMapped ==
  ASSUME RingInv, RingInv', MappedInv, NEW b \in Backends, PushAdvance(b)
  PROVE  MappedInv' /\ Queue!Enqueue(b)
<1> DEFINE new == batch[b].bytes
           size == Len(new)
<1>1. ~tainted /\ ~tainted' BY DEF MappedInv, PushAdvance
<1>2. /\ pc[b] = "advance" /\ head' = head /\ tail' = tail + size
      /\ batch' = [batch EXCEPT ![b] = EmptyBatch] /\ pc' = [pc EXCEPT ![b] = "build"]
      /\ UNCHANGED <<wpc, taken, records, out>>
      /\ stream' = [c \in head .. tail' - 1 |->
                      IF c < tail THEN stream[c] ELSE new[c - tail + 1]]
  BY <1>1 DEF PushAdvance, consumer
<1>3. pc \in [Backends -> {"build", "copy", "advance"}] /\ new \in Seq(Byte)
      /\ head \in Nat /\ tail \in Nat
  BY DEF RingInv, TypeOK
<1>4. size \in Nat BY <1>3, LenProperties
<1>5. BatchesMapped' /\ QBatch' = [QBatch EXCEPT ![b] = << >>]
  <2>1. /\ pc' \in [Backends -> {"build", "copy", "advance"}] /\ pc'[b] = "build"
        /\ \A a \in Backends \ {b} : pc'[a] = pc[a]
    BY <1>2, <1>3
  <2> QED BY <1>2, <2>1, BatchEmptied
<1>6. wpc \notin {"measure", "move"}
  BY <1>2, RingAssumption DEF RingInv, Mutex
<1>7. /\ Queued \in Seq(Byte) /\ Len(Queued) = tail - head
      /\ \A i \in 1 .. tail - head : Queued[i] = stream[head + i - 1]
  BY <1>1, ContentsAre
<1>8. /\ Queued' \in Seq(Byte) /\ Len(Queued') = tail + size - head
      /\ \A i \in 1 .. tail + size - head : Queued'[i] = stream'[head + i - 1]
  <2>1. /\ Queued' \in Seq(Byte) /\ Len(Queued') = tail' - head'
        /\ \A i \in 1 .. tail' - head' : Queued'[i] = stream'[head' + i - 1]
    BY <1>1, ContentsAfter
  <2>2. head' = head /\ tail' = tail + size BY <1>2
  <2> HIDE DEF size
  <2>3. tail' - head' = tail + size - head BY <1>3, <1>4, <2>2
  <2>4. ASSUME NEW i \in 1 .. tail + size - head PROVE Queued'[i] = stream'[head + i - 1]
    <3>1. i \in 1 .. tail' - head' BY <2>3
    <3> QED BY <2>1, <2>2, <3>1
  <2> QED BY <2>1, <2>3, <2>4
<1>9. tail - head \in Nat BY <1>1, ContentsAre
<1> DEFINE joined == Queued \o new
<1>10. Queued' = joined
  <2>1. /\ joined \in Seq(Byte) /\ Len(joined) = Len(Queued) + size
        /\ \A i \in 1 .. Len(Queued) + size :
             joined[i] = IF i <= Len(Queued) THEN Queued[i] ELSE new[i - Len(Queued)]
    BY <1>3, <1>7, ConcatProperties
  <2> HIDE DEF joined, size
  <2>2. Len(joined) = Len(Queued') BY <1>3, <1>4, <1>7, <1>8, <2>1
  <2>3. ASSUME NEW i \in 1 .. Len(Queued') PROVE Queued'[i] = joined[i]
    <3> DEFINE c == head + i - 1
    <3>1. i \in 1 .. tail + size - head /\ i \in 1 .. tail - head + size
      BY <1>3, <1>4, <1>8
    <3>2. c \in head .. tail' - 1
      <4>1. tail' = tail + size BY <1>2 DEF size
      <4> QED BY <1>3, <1>4, <3>1, <4>1
    <3> HIDE DEF new
    <3>3. CASE i <= tail - head
      <4>1. c < tail /\ i \in 1 .. tail - head BY <1>3, <1>9, <3>1, <3>3
      <4>2. joined[i] = stream[c] BY <1>7, <2>1, <3>1, <4>1
      <4> HIDE DEF c
      <4>3. stream'[c] = stream[c] BY <1>2, <3>2, <4>1
      <4>4. Queued'[i] = stream'[c] BY <1>8, <3>1 DEF c
      <4> QED BY <4>2, <4>3, <4>4
    <3>4. CASE ~(i <= tail - head)
      <4>1. ~(c < tail) /\ c - tail + 1 = i - (tail - head) BY <1>3, <1>9, <3>1, <3>4
      <4>2. joined[i] = new[i - (tail - head)] BY <1>7, <2>1, <3>1, <3>4
      <4> HIDE DEF c
      <4>3. stream'[c] = new[c - tail + 1] BY <1>2, <3>2, <4>1
      <4>4. Queued'[i] = stream'[c] BY <1>8, <3>1 DEF c
      <4> QED BY <4>1, <4>2, <4>3, <4>4
    <3> QED BY <3>3, <3>4
  <2> QED BY <1>8, <2>1, <2>2, <2>3, SeqEqual
<1>11. PICK recs, pos : Laid(new, recs, pos) /\ Len(recs) = batch[b].records
  BY DEF MappedInv, BatchesMapped
<1>12. PICK old, ends : Laid(Queued, old, ends) BY DEF MappedInv, QueueMapped
<1>13. PICK all : Laid(joined, old \o recs, all) BY <1>11, <1>12, LaidConcat
<1> HIDE DEF joined
<1>14. QueueMapped' BY <1>2, <1>6, <1>10, <1>13 DEF QueueMapped
<1>15. ChunkMapped' BY <1>2 DEF MappedInv, ChunkMapped
<1>16. QQueue' = QQueue \o QBatch[b] /\ QChunk' = QChunk
  <2>1. QQueue' = old \o recs BY <1>10, <1>13, SplitIs DEF QQueue
  <2>2. QQueue = old /\ QBatch[b] = recs BY <1>11, <1>12, SplitIs DEF QQueue, QBatch
  <2> QED BY <1>2, <2>1, <2>2 DEF QChunk
<1>17. QBatch[b] # << >>
  <2>1. Len(QBatch[b]) = batch[b].records BY BatchRecords DEF MappedInv
  <2>2. batch[b].records > 0 BY <1>2 DEF MappedInv, BatchesMapped
  <2> QED BY <2>1, <2>2, EmptySeq
<1>18. BatchBytes(QQueue) + BatchBytes(QBatch[b]) <= Cap
  <2>1. BatchBytes(QQueue) = tail - head BY QueueRecords DEF MappedInv
  <2>2. BatchBytes(QBatch[b]) = size BY BatchRecords DEF MappedInv
  <2>3. tail - head + size <= Cap BY <1>1, <1>2 DEF RingInv, PushInv
  <2> QED BY <2>1, <2>2, <2>3
<1>19. Queue!Enqueue(b)
  BY <1>5, <1>16, <1>17, <1>18 DEF Queue!Enqueue, QBatch, QQueue, QChunk, Queued
<1> QED BY <1>1, <1>5, <1>14, <1>15, <1>19 DEF MappedInv

\* Steps of the worker that leave the batches alone.
LEMMA BatchesKept ==
  ASSUME MappedInv, UNCHANGED producers
  PROVE  BatchesMapped' /\ QBatch' = QBatch
BY DEF MappedInv, BatchesMapped, QBatch, producers

\* A drain begins with nothing accepted.
LEMMA DrainLockMapped ==
  ASSUME RingInv, RingInv', MappedInv, DrainLock
  PROVE  MappedInv' /\ UNCHANGED Queue!vars
<1>1. is_consistent BY DEF RingInv, Window, MappedInv
<1>2. /\ UNCHANGED <<head, tail, stream, tainted, producers>>
      /\ wpc = "idle" /\ wpc' = "measure" /\ taken' = 0 /\ records' = 0
  BY <1>1 DEF DrainLock, history
<1>3. ~tainted /\ ~tainted' BY <1>2 DEF MappedInv
<1>4. Queued' = Queued BY <1>2, <1>3, SameContents
<1>5. BatchesMapped' /\ QBatch' = QBatch BY <1>2, BatchesKept
<1>6. QueueMapped'
  <2>1. PICK recs, pos : Laid(Queued, recs, pos) BY DEF MappedInv, QueueMapped
  <2>2. Len(recs) \in Nat BY <2>1, LaidFacts
  <2>3. 0 \in 0 .. Len(recs) /\ pos[0] = 0 BY <2>1, <2>2 DEF Laid
  <2>4. Accepting(recs, pos)' BY <1>2, <2>3 DEF Accepting
  <2> QED BY <1>4, <2>1, <2>4 DEF QueueMapped
<1>7. ChunkMapped' /\ QQueue' = QQueue /\ QChunk' = QChunk
  BY <1>2, <1>4 DEF ChunkMapped, QQueue, QChunk
<1> QED BY <1>3, <1>5, <1>6, <1>7 DEF MappedInv, Queue!vars, QBatch, QQueue, QChunk, Queued

\* An iteration of measure_drain accepts the next record, or stops in front of it.
LEMMA DrainMeasureMapped ==
  ASSUME RingInv, RingInv', MappedInv, DrainMeasure
  PROVE  MappedInv' /\ UNCHANGED Queue!vars
<1> DEFINE len == read_len(head + taken)
           size == LEN_PREFIX_BYTES + len
<1>1. wpc = "measure" /\ taken < available /\ ~tainted BY DEF DrainMeasure, MappedInv
<1>2. /\ head \in Nat /\ tail \in Nat /\ taken \in Nat /\ available \in Nat /\ records \in Nat
      /\ data \in [0 .. Cap - 1 -> Byte] /\ available = tail - head
  BY <1>1 DEF RingInv, TypeOK, DrainInv
<1>3. /\ available - taken >= 2 /\ len \in 0 .. MAX_RECORD_BYTES
      /\ 2 + len <= available - taken
  BY <1>1, MeasureLemma
<1>4. ~(available - taken < LEN_PREFIX_BYTES \/ len > MAX_RECORD_BYTES
          \/ size > available - taken)
  <2> HIDE DEF len
  <2> QED BY <1>2, <1>3, RingAssumption DEF LEN_PREFIX_BYTES
<1>5. UNCHANGED <<head, tail, stream, tainted, producers>> BY <1>4 DEF DrainMeasure, history
<1>6. IF records > 0 /\ taken + size > CHUNK_BYTES
      THEN wpc' = "move" /\ taken' = taken /\ records' = records
      ELSE wpc' = wpc /\ taken' = taken + size /\ records' = records + 1
  BY <1>4 DEF DrainMeasure
<1>7. Queued' = Queued BY <1>1, <1>5, SameContents
<1>8. PICK recs, pos : Laid(Queued, recs, pos) /\ Accepting(recs, pos)
  BY <1>1 DEF MappedInv, QueueMapped
<1>9. /\ Len(Queued) = tail - head
      /\ \A i \in 1 .. tail - head : Queued[i] = data[(head + i - 1) % Cap]
  BY <1>1, ContentsAre
<1>10. /\ Len(recs) \in Nat /\ pos[Len(recs)] = Len(Queued)
       /\ \A k \in 1 .. Len(recs) : pos[k] = pos[k - 1] + 2 + Len(recs[k])
       /\ \A k \in 1 .. Len(recs) : IsRecordAt(Queued, pos[k - 1], recs[k])
  BY <1>8, LaidFacts DEF Laid
<1>11. records \in 0 .. Len(recs) /\ pos[records] = taken BY <1>8 DEF Accepting
<1> DEFINE next == records + 1
<1>12. next \in 1 .. Len(recs) /\ next - 1 = records
  <2>1. records # Len(recs) BY <1>1, <1>2, <1>9, <1>10, <1>11
  <2> QED BY <1>2, <1>10, <1>11, <2>1
<1>13. len = Len(recs[next])
  <2> DEFINE at == head + taken
  <2>1. at \in Nat /\ Cap >= 2
    BY <1>2, <1>3, ContentsAre, <1>1, RingAssumption
  <2>2. read_len(at) = Decode(data[at % Cap], data[(at + 1) % Cap])
    BY <1>2, <2>1, ReadLenLemma
  <2>3. /\ taken + 1 \in 1 .. tail - head /\ head + (taken + 1) - 1 = at
        /\ taken + 2 \in 1 .. tail - head /\ head + (taken + 2) - 1 = at + 1
    BY <1>2, <1>3
  <2> HIDE DEF at
  <2>4. Queued[taken + 1] = data[at % Cap] /\ Queued[taken + 2] = data[(at + 1) % Cap]
    BY <1>9, <2>3
  <2>5. IsRecordAt(Queued, taken, recs[next]) BY <1>10, <1>11, <1>12
  <2>6. Decode(Queued[taken + 1], Queued[taken + 2]) = Len(recs[next])
    BY <2>5 DEF IsRecordAt
  <2> QED BY <2>2, <2>4, <2>6 DEF at
<1>14. pos[next] = taken + size
  <2>1. pos[next] = taken + 2 + Len(recs[next]) BY <1>10, <1>11, <1>12
  <2>2. len \in Nat BY <1>3, RingAssumption
  <2> HIDE DEF len, next
  <2>3. taken + 2 + len = taken + size BY <1>2, <2>2 DEF LEN_PREFIX_BYTES
  <2> QED BY <1>13, <2>1, <2>3
<1> HIDE DEF size, len
<1>15. Accepting(recs, pos)'
  <2>1. CASE records > 0 /\ taken + size > CHUNK_BYTES
    <3>1. wpc' = "move" /\ taken' = taken /\ records' = records BY <1>6, <2>1
    <3>2. records < Len(recs) /\ pos[records + 1] > CHUNK_BYTES
      BY <1>2, <1>10, <1>12, <1>14, <2>1
    <3>3. records > 1 => taken <= CHUNK_BYTES BY <1>8 DEF Accepting
    <3> QED BY <1>11, <2>1, <3>1, <3>2, <3>3 DEF Accepting
  <2>2. CASE ~(records > 0 /\ taken + size > CHUNK_BYTES)
    <3>1. wpc' = "measure" /\ taken' = pos[next] /\ records' = next
      BY <1>1, <1>6, <1>14, <2>2
    <3>2. next \in 0 .. Len(recs) BY <1>10, <1>12
    <3>3. next > 1 => pos[next] <= CHUNK_BYTES
      <4> SUFFICES ASSUME next > 1 PROVE pos[next] <= CHUNK_BYTES OBVIOUS
      <4>1. records > 0 BY <1>2
      <4>2. ~(pos[next] > CHUNK_BYTES) BY <1>14, <2>2, <4>1
      <4>3. pos[next] \in Nat BY <1>8, <3>2, LaidFacts
      <4> HIDE DEF next
      <4> QED BY <4>2, <4>3, RingAssumption
    <3> QED BY <3>1, <3>2, <3>3 DEF Accepting
  <2> QED BY <2>1, <2>2
<1>16. QueueMapped' BY <1>7, <1>8, <1>15 DEF QueueMapped
<1>17. wpc' # "decode" BY <1>1, <1>6
<1>18. BatchesMapped' /\ QBatch' = QBatch BY <1>5, BatchesKept
<1>19. ChunkMapped' /\ QQueue' = QQueue /\ QChunk' = QChunk
  BY <1>1, <1>7, <1>17 DEF ChunkMapped, QQueue, QChunk
<1> QED BY <1>1, <1>5, <1>16, <1>18, <1>19
        DEF MappedInv, Queue!vars, QBatch, QQueue, QChunk, Queued

\* The oldest records are moved out: all that were accepted, and no more.
LEMMA DrainMoveMapped ==
  ASSUME RingInv, RingInv', MappedInv, DrainMove
  PROVE  MappedInv' /\ (Queue!Take \/ UNCHANGED Queue!vars)
<1>1. /\ wpc = "move" \/ (wpc = "measure" /\ taken >= available)
      /\ wpc \in {"measure", "move"}
      /\ out' = CopyOut(head, taken) /\ head' = head + taken /\ tail' = tail
      /\ wpc' = IF taken = 0 THEN "idle" ELSE "decode"
      /\ UNCHANGED <<tainted, producers>>
  BY DEF DrainMove, Measured, Move
<1>2. ~tainted /\ ~tainted' BY <1>1 DEF MappedInv
<1>3. stream' = [c \in head + taken .. tail - 1 |-> stream[c]]
  BY <1>2 DEF DrainMove, Move
<1>4. /\ head \in Nat /\ tail \in Nat /\ taken \in Nat /\ Cap \in Nat
      /\ data \in [0 .. Cap - 1 -> Byte]
      /\ available = tail - head /\ taken <= available /\ available <= Cap
  BY <1>1, <1>2, RingAssumption DEF RingInv, TypeOK, DrainInv, InBounds
<1>5. PICK recs, pos : Laid(Queued, recs, pos) /\ Accepting(recs, pos)
  BY <1>1 DEF MappedInv, QueueMapped
<1> DEFINE n == records
           last == Len(recs)
<1>6. /\ last \in Nat /\ pos[0] = 0 /\ pos[last] = tail - head
      /\ recs \in Seq(Accepted)
      /\ \A j, k \in 0 .. last : j < k => pos[j] + 2 <= pos[k]
  BY <1>2, <1>5, LaidFacts, ContentsAre DEF Laid
<1>7. n \in 0 .. last /\ pos[n] = taken /\ (n > 1 => taken <= CHUNK_BYTES)
  BY <1>5 DEF Accepting
<1>8. n = last \/ (n + 1 \in 0 .. last /\ pos[n + 1] > CHUNK_BYTES)
  <2>1. CASE wpc = "move"
    <3>1. n < last /\ pos[n + 1] > CHUNK_BYTES BY <1>5, <2>1 DEF Accepting
    <3>2. n + 1 \in 0 .. last BY <1>6, <1>7, <3>1
    <3> QED BY <3>1, <3>2
  <2>2. CASE wpc # "move"
    <3>1. taken >= tail - head BY <1>1, <1>4, <2>2
    <3>2. n # last => n < last /\ last \in 0 .. last BY <1>6, <1>7
    <3> HIDE DEF n, last
    <3>3. n # last => taken + 2 <= tail - head BY <1>6, <1>7, <3>2
    <3> QED BY <1>4, <3>1, <3>3
  <2> QED BY <2>1, <2>2
<1>9. n = 0 <=> taken = 0
  <2>1. n # 0 => 0 < n /\ 0 \in 0 .. last BY <1>6, <1>7
  <2>2. n # 0 => pos[0] + 2 <= taken BY <1>6, <1>7, <2>1
  <2> QED BY <1>4, <1>6, <1>7, <2>2
<1>10. \A i \in 1 .. tail - head :
         Queued[i] = stream[head + i - 1] /\ Queued[i] = data[(head + i - 1) % Cap]
  BY <1>2, ContentsAre
<1>11. /\ out' \in Seq(Byte) /\ Len(out') = taken
       /\ \A i \in 1 .. taken : out'[i] = Queued[i]
  <2>1. taken \in 0 .. Cap BY <1>4
  <2>2. /\ out' \in Seq(Byte) /\ Len(out') = taken
        /\ \A i \in 1 .. taken : out'[i] = data[(head + i - 1) % Cap]
    BY <1>1, <1>4, <2>1, CopyOutLemma
  <2>3. \A i \in 1 .. taken : i \in 1 .. tail - head BY <1>4
  <2> QED BY <1>10, <2>2, <2>3
<1>12. /\ Queued' \in Seq(Byte) /\ Len(Queued') = tail - head - taken
       /\ \A i \in 1 .. tail - head - taken : Queued'[i] = Queued[taken + i]
  <2>1. /\ Queued' \in Seq(Byte) /\ Len(Queued') = tail' - head'
        /\ \A i \in 1 .. tail' - head' : Queued'[i] = stream'[head' + i - 1]
    BY <1>2, ContentsAfter
  <2>2. tail' - head' = tail - head - taken BY <1>1, <1>4
  <2>3. ASSUME NEW i \in 1 .. tail - head - taken PROVE Queued'[i] = Queued[taken + i]
    <3> DEFINE c == head + taken + i - 1
    <3>1. c \in head + taken .. tail - 1 /\ taken + i \in 1 .. tail - head
          /\ head + (taken + i) - 1 = c
      BY <1>4
    <3>2. Queued'[i] = stream'[c]
      <4>1. i \in 1 .. tail' - head' BY <2>2
      <4>2. head' + i - 1 = c BY <1>1, <1>4
      <4> HIDE DEF c
      <4> QED BY <2>1, <4>1, <4>2
    <3> HIDE DEF c
    <3>3. stream'[c] = stream[c] BY <1>3, <3>1
    <3>4. Queued[taken + i] = stream[c] BY <1>10, <3>1
    <3> QED BY <3>2, <3>3, <3>4
  <2> QED BY <2>1, <2>2, <2>3
<1> DEFINE first == SubSeq(recs, 1, n)
           rest == SubSeq(recs, n + 1, last)
<1>13. Len(first) = n /\ \E p : Laid(out', first, p)
  <2> DEFINE lo == 0
             c == out'
  <2>1. lo \in 0 .. last /\ n \in lo .. last /\ lo + 1 = 1 /\ n - lo = n BY <1>6, <1>7
  <2>2. /\ c \in Seq(Byte) /\ Len(c) = pos[n] - pos[lo]
        /\ \A i \in 1 .. Len(c) : c[i] = Queued[pos[lo] + i]
    <3>1. pos[n] - pos[lo] = taken BY <1>4, <1>6, <1>7
    <3>2. \A i \in 1 .. taken : pos[lo] + i = i BY <1>6
    <3> QED BY <1>11, <3>1, <3>2
  <2> HIDE DEF lo, c, n
  <2>3. /\ Len(SubSeq(recs, lo + 1, n)) = n - lo
        /\ Laid(c, SubSeq(recs, lo + 1, n), [k \in 0 .. n - lo |-> pos[lo + k] - pos[lo]])
    BY <1>5, <2>1, <2>2, LaidSlice
  <2>4. SubSeq(recs, lo + 1, n) = first BY <2>1
  <2> HIDE DEF first
  <2> QED BY <2>1, <2>3, <2>4 DEF c
<1>14. \E p : Laid(Queued', rest, p)
  <2> DEFINE c == Queued'
  <2>1. last \in n .. last /\ n \in 0 .. last BY <1>6, <1>7
  <2>2. /\ c \in Seq(Byte) /\ Len(c) = pos[last] - pos[n]
        /\ \A i \in 1 .. Len(c) : c[i] = Queued[pos[n] + i]
    BY <1>6, <1>7, <1>12
  <2> HIDE DEF c, n
  <2>3. Laid(c, SubSeq(recs, n + 1, last), [k \in 0 .. last - n |-> pos[n + k] - pos[n]])
    BY <1>5, <2>1, <2>2, LaidSlice
  <2> QED BY <2>3 DEF c
<1>15. QQueue = recs /\ QQueue' = rest /\ Split(out') = first
  BY <1>5, <1>13, <1>14, SplitIs DEF QQueue
<1> HIDE DEF first, rest
<1>16. wpc' \notin {"measure", "move"} BY <1>1
<1>17. QueueMapped' BY <1>14, <1>16 DEF QueueMapped
<1>18. ChunkMapped'
  <2> SUFFICES ASSUME wpc' = "decode" PROVE \E r, p : Laid(out', r, p) /\ r # << >>
    BY DEF ChunkMapped
  <2>1. n # 0 BY <1>1, <1>9
  <2>2. first # << >> BY <1>13, <2>1, EmptySeq
  <2> QED BY <1>13, <2>2
<1>19. BatchesMapped' /\ QBatch' = QBatch BY <1>1, BatchesKept
<1>20. QChunk = << >> BY <1>1 DEF QChunk
<1>21. CASE n = 0
  <2>1. QChunk' = << >> BY <1>1, <1>9, <1>21 DEF QChunk
  <2>2. QQueue' = QQueue
    <3>1. n + 1 = 1 BY <1>21
    <3> HIDE DEF n
    <3>2. rest = recs BY <1>6, <3>1, SubSeqFull DEF rest
    <3> QED BY <1>15, <3>2
  <2>3. UNCHANGED Queue!vars
    BY <1>19, <1>20, <2>1, <2>2 DEF Queue!vars, QBatch, QQueue, QChunk, Queued
  <2> QED BY <1>2, <1>17, <1>18, <1>19, <2>3 DEF MappedInv
<1>22. CASE n # 0
  <2>1. QChunk' = first BY <1>1, <1>9, <1>15, <1>22 DEF QChunk
  <2>2. n \in 1 .. last BY <1>6, <1>7, <1>22
  <2>3. n = 1 \/ BatchBytes(first) <= CHUNK_BYTES
    <3>1. BatchBytes(first) = taken BY <1>5, <1>7, BytesOfPrefix DEF first
    <3> QED BY <1>7, <2>2, <3>1
  <2>4. n = last \/ BatchBytes(SubSeq(recs, 1, n + 1)) > CHUNK_BYTES
    <3> SUFFICES ASSUME n # last PROVE BatchBytes(SubSeq(recs, 1, n + 1)) > CHUNK_BYTES
      OBVIOUS
    <3>1. n + 1 \in 0 .. last /\ pos[n + 1] > CHUNK_BYTES BY <1>8
    <3> QED BY <1>5, <3>1, BytesOfPrefix
  <2> HIDE DEF n
  <2>5. Queue!Removed(n)
    BY <1>15, <1>19, <1>20, <2>3, <2>4
    DEF Queue!Removed, QBatch, QQueue, QChunk, Queued, first, rest
  <2>6. Queue!Take
    BY <1>15, <2>1, <2>2, <2>5 DEF Queue!Take, QQueue, QChunk, Queued, first
  <2> QED BY <1>2, <1>17, <1>18, <1>19, <2>6 DEF MappedInv
<1> QED BY <1>21, <1>22

\* The worker hands on what it decoded.
LEMMA DrainDoneMapped ==
  ASSUME RingInv, RingInv', MappedInv, DrainDone
  PROVE  MappedInv' /\ (Queue!HandOn \/ UNCHANGED Queue!vars)
<1>1. /\ UNCHANGED <<head, tail, stream, tainted, producers, out>>
      /\ wpc \in {"decode", "corrupted"} /\ wpc' = "idle"
  BY DEF DrainDone, ring, history
<1>2. ~tainted /\ ~tainted' BY <1>1 DEF MappedInv
<1>3. Queued' = Queued BY <1>1, <1>2, SameContents
<1>4. BatchesMapped' /\ QBatch' = QBatch BY <1>1, BatchesKept
<1>5. QueueMapped' BY <1>1, <1>3 DEF MappedInv, QueueMapped
<1>6. ChunkMapped' /\ QQueue' = QQueue /\ QChunk' = << >>
  BY <1>1, <1>3 DEF ChunkMapped, QQueue, QChunk
<1>7. CASE wpc = "decode"
  <2>1. PICK recs, pos : Laid(out, recs, pos) /\ recs # << >>
    BY <1>7 DEF MappedInv, ChunkMapped
  <2>2. QChunk # << >> BY <1>7, <2>1, SplitIs DEF QChunk
  <2>3. Queue!HandOn
    BY <1>4, <1>6, <2>2 DEF Queue!HandOn, QBatch, QQueue, QChunk, Queued
  <2> QED BY <1>2, <1>4, <1>5, <1>6, <2>3 DEF MappedInv
<1>8. CASE wpc # "decode"
  <2>1. QChunk' = QChunk BY <1>6, <1>8 DEF QChunk
  <2>2. UNCHANGED Queue!vars
    BY <1>4, <1>6, <2>1 DEF Queue!vars, QBatch, QQueue, QChunk, Queued
  <2> QED BY <1>2, <1>4, <1>5, <1>6, <2>2 DEF MappedInv
<1> QED BY <1>7, <1>8

\* A restart loses everything.
LEMMA RestartMapped ==
  ASSUME RingInv', Restart
  PROVE  MappedInv' /\ Queue!Restart
<1>1. /\ head' = 0 /\ tail' = 0 /\ ~tainted' /\ wpc' = "idle"
      /\ batch' = [b \in Backends |-> EmptyBatch] /\ pc' = [b \in Backends |-> "build"]
  BY DEF Restart, Discarded
<1>2. Queued' = << >>
  <2>1. Queued' \in Seq(Byte) /\ Len(Queued') = 0 BY <1>1, ContentsAfter
  <2> QED BY <2>1, EmptySeq
<1>3. \A b \in Backends : batch'[b].bytes = << >> /\ batch'[b].records = 0 /\ pc'[b] = "build"
  BY <1>1 DEF EmptyBatch
<1>4. BatchesMapped' BY <1>3, LaidEmpty, EmptySeq DEF BatchesMapped
<1>5. QueueMapped' /\ ChunkMapped' BY <1>1, <1>2, LaidEmpty DEF QueueMapped, ChunkMapped
<1>6. QBatch' = [b \in Backends |-> << >>] /\ QQueue' = << >> /\ QChunk' = << >>
  BY <1>1, <1>2, <1>3, SplitEmpty DEF QBatch, QQueue, QChunk
<1> QED BY <1>1, <1>4, <1>5, <1>6
        DEF MappedInv, Queue!Restart, QBatch, QQueue, QChunk, Queued

\* A step of the ring with intact memory is a step of the record queue or a stutter.
LEMMA NextMapped ==
  ASSUME RingInv, RingInv', MappedInv, [Next]_vars, [~Corrupt]_vars
  PROVE  MappedInv' /\ [Queue!Next]_Queue!vars
<1>1. CASE \E b \in Backends, payload \in Payloads : PushRecord(b, payload)
  BY <1>1, PushRecordMapped DEF Queue!Next
<1>2. CASE \E b \in Backends : Push(b)
  BY <1>2, PushLockMapped, PushCopyMapped, PushAdvanceMapped DEF Push, Queue!Next
<1>3. CASE Drain
  BY <1>3, DrainLockMapped, DrainMeasureMapped, DrainMoveMapped, DrainDoneMapped
  DEF Drain, Queue!Next
<1>4. CASE Restart BY <1>4, RestartMapped DEF Queue!Next
<1>5. CASE UNCHANGED vars
  <2>1. UNCHANGED <<head, tail, stream, tainted, wpc, taken, records, out, producers>>
    BY <1>5 DEF vars, ring, consumer, history
  <2>2. ~tainted' /\ QueueMapped' /\ ChunkMapped' /\ QQueue' = QQueue /\ QChunk' = QChunk
    BY <2>1, QueueKept
  <2>3. BatchesMapped' /\ QBatch' = QBatch BY <2>1, BatchesKept
  <2> QED BY <2>2, <2>3 DEF MappedInv, Queue!vars, QBatch, QQueue, QChunk, Queued
<1> QED BY <1>1, <1>2, <1>3, <1>4, <1>5 DEF Next

\* The byte ring (queue.rs) implements the record queue: as long as nobody else
\* writes to its memory, a statement's records become visible together or, only if
\* they do not fit, not at all; they are taken oldest first, whole, and as many as the
\* limit allows, whatever the capacity, the limits, the payloads and the backends.
THEOREM RingImplementsSpanQueue == Spec /\ [][~Corrupt]_vars => ImplementsSpanQueue
<1>1. Init => MappedInv /\ Queue!Init BY InitMapped
<1>2. RingInv /\ RingInv' /\ MappedInv /\ [Next]_vars /\ [~Corrupt]_vars
        => MappedInv' /\ [Queue!Next]_Queue!vars
  BY NextMapped
<1> QED BY <1>1, <1>2, RingInvariant, PTL DEF Spec, ImplementsSpanQueue, Queue!Spec

\* In particular where no fault is considered, as in the run that checks it.
COROLLARY IntactRingImplementsSpanQueue == MaxFaults = 0 => (Spec => ImplementsSpanQueue)
<1> SUFFICES ASSUME MaxFaults = 0 PROVE Spec => ImplementsSpanQueue OBVIOUS
<1>1. RingInv => [~Corrupt]_vars BY DEF Corrupt, RingInv, TypeOK
<1> QED BY <1>1, RingInvariant, RingImplementsSpanQueue, PTL
=============================================================================
