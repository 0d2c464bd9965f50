--------------------------- MODULE RingQueueProofs ---------------------------
(***************************************************************************)
(* The properties of RingQueue for every capacity, number of backends,     *)
(* payload and number of corruptions.  First the arithmetic of positions   *)
(* and copies, then the framing of records, then one lemma per action for  *)
(* the inductive invariant RingInv, then the theorems.                     *)
(***************************************************************************)
EXTENDS RingQueue, SequenceTheorems, TLAPS

\* Division with remainder, as the solver knows it.
LEMMA DivMod ==
  ASSUME NEW a \in Nat, NEW n \in Nat \ {0}
  PROVE  /\ a = n * (a \div n) + (a % n)
         /\ a % n \in 0 .. n - 1
         /\ a \div n \in Nat
OBVIOUS

\* The remainder is the only one: n * q + r leaves r.
LEMMA ModUnique ==
  ASSUME NEW q \in Int, NEW n \in Nat \ {0}, NEW r \in 0 .. n - 1,
         n * q + r \in Nat
  PROVE  (n * q + r) % n = r
<1> DEFINE a == n * q + r
           p == a \div n
           m == a % n
<1>1. a = n * p + m /\ m \in 0 .. n - 1 /\ p \in Nat
  BY DivMod
<1>2. n * (q - p) = m - r
  BY <1>1
<1> HIDE DEF p, m
<1>3. CASE q - p >= 1
  <2>1. n * (q - p) >= n
    BY <1>3, <1>1
  <2> QED BY <2>1, <1>2, <1>1
<1>4. CASE q - p <= -1
  <2>1. n * (q - p) <= -n
    BY <1>4, <1>1
  <2> QED BY <2>1, <1>2, <1>1
<1>5. CASE q = p
  BY <1>5, <1>1 DEF m
<1> QED BY <1>3, <1>4, <1>5, <1>1

\* Counters that stay on one lap of the ring keep their distance in the slice, and
\* those that pass its end begin again at 0 (the two copies of copy_in).
LEMMA ModStep ==
  ASSUME NEW pos \in Nat, NEW n \in Nat \ {0}, NEW k \in 0 .. n - 1
  PROVE  (pos + k) % n = IF (pos % n) + k < n THEN (pos % n) + k ELSE (pos % n) + k - n
<1> DEFINE q == pos \div n
           r == pos % n
<1>1. pos = n * q + r /\ r \in 0 .. n - 1 /\ q \in Nat
  BY DivMod
<1> HIDE DEF q, r
<1>2. CASE r + k < n
  <2>1. pos + k = n * q + (r + k)
    BY <1>1
  <2>2. r + k \in 0 .. n - 1 /\ n * q + (r + k) \in Nat
    BY <1>1, <1>2, <2>1
  <2>3. (n * q + (r + k)) % n = r + k
    BY <1>1, <2>2, ModUnique
  <2> QED BY <2>1, <2>3, <1>2 DEF r
<1>3. CASE r + k >= n
  <2>1. pos + k = n * (q + 1) + (r + k - n)
    BY <1>1
  <2>2. q + 1 \in Int /\ r + k - n \in 0 .. n - 1 /\ n * (q + 1) + (r + k - n) \in Nat
    BY <1>1, <1>3, <2>1
  <2>3. (n * (q + 1) + (r + k - n)) % n = r + k - n
    BY <2>2, ModUnique
  <2> QED BY <2>1, <2>3, <1>3 DEF r
<1> QED BY <1>1, <1>2, <1>3

\* Two counters less than a lap apart have different places in the slice.
LEMMA ModDiffer ==
  ASSUME NEW a \in Nat, NEW b \in Nat, NEW n \in Nat \ {0}, a < b, b < a + n
  PROVE  a % n # b % n
<1> DEFINE k == b - a
<1>1. k \in 1 .. n - 1 /\ b = a + k
  OBVIOUS
<1> HIDE DEF k
<1>2. (a + k) % n = IF (a % n) + k < n THEN (a % n) + k ELSE (a % n) + k - n
  <2>1. k \in 0 .. n - 1 BY <1>1
  <2> QED BY ONLY a \in Nat, n \in Nat \ {0}, <2>1, ModStep
<1>3. a % n \in 0 .. n - 1
  BY DivMod
<1> DEFINE x == a % n
           y == (a + k) % n
<1>4. x \in 0 .. n - 1 /\ y = IF x + k < n THEN x + k ELSE x + k - n
  BY <1>2, <1>3
<1> HIDE DEF x, y
<1>5. x # y BY <1>1, <1>4
<1> QED BY <1>1, <1>5 DEF x, y

\* The first part of a copy ends at the end of the slice at the latest.
LEMMA FirstBounds ==
  ASSUME NEW pos \in Nat, NEW len \in 0 .. Cap
  PROVE  /\ pos % Cap \in 0 .. Cap - 1
         /\ First(pos, len) \in 0 .. len
         /\ (pos % Cap) + First(pos, len) <= Cap
         /\ First(pos, len) = len \/ (pos % Cap) + First(pos, len) = Cap
<1>1. Cap \in Nat \ {0} /\ pos % Cap \in 0 .. Cap - 1
  BY RingAssumption, DivMod
<1> QED BY <1>1 DEF First

\* Ring::copy_out_slice returns the bytes at len successive counters.
LEMMA CopyOutLemma ==
  ASSUME data \in [0 .. Cap - 1 -> Byte], NEW pos \in Nat, NEW len \in 0 .. Cap
  PROVE  /\ CopyOut(pos, len) \in Seq(Byte)
         /\ Len(CopyOut(pos, len)) = len
         /\ \A i \in 1 .. len : CopyOut(pos, len)[i] = data[(pos + i - 1) % Cap]
<1> DEFINE start == pos % Cap
           first == First(pos, len)
<1>1. /\ start \in 0 .. Cap - 1 /\ first \in 0 .. len /\ start + first <= Cap
      /\ first = len \/ start + first = Cap
  BY FirstBounds
<1>2. Cap \in Nat \ {0}
  BY RingAssumption
<1>3. ASSUME NEW i \in 1 .. len
      PROVE  /\ (IF i <= first THEN data[start + i - 1] ELSE data[i - first - 1])
                  = data[(pos + i - 1) % Cap]
             /\ (pos + i - 1) % Cap \in 0 .. Cap - 1
  <2>1. i - 1 \in 0 .. Cap - 1 /\ pos + (i - 1) = pos + i - 1
    BY <1>2
  <2>2. (pos + i - 1) % Cap =
          IF start + (i - 1) < Cap THEN start + (i - 1) ELSE start + (i - 1) - Cap
    BY <2>1, <1>2, ModStep
  <2> HIDE DEF start, first
  <2>3. CASE i <= first
    BY <1>1, <1>2, <2>2, <2>3
  <2>4. CASE i > first
    BY <1>1, <1>2, <2>2, <2>4
  <2> QED BY <2>3, <2>4, <1>1
<1>4. CopyOut(pos, len) = [i \in 1 .. len |-> data[(pos + i - 1) % Cap]]
  BY <1>3 DEF CopyOut
<1>5. \A i \in 1 .. len : data[(pos + i - 1) % Cap] \in Byte
  BY <1>3
<1> QED BY <1>4, <1>5

\* Ring::copy_in writes the bytes at successive counters and nothing else.
LEMMA CopyInLemma ==
  ASSUME data \in [0 .. Cap - 1 -> Byte], NEW pos \in Nat, NEW src \in Seq(Byte),
         Len(src) <= Cap
  PROVE  /\ CopyIn(pos, src) \in [0 .. Cap - 1 -> Byte]
         /\ \A i \in 1 .. Len(src) : CopyIn(pos, src)[(pos + i - 1) % Cap] = src[i]
         /\ \A c \in 0 .. Cap - 1 :
              (\A i \in 1 .. Len(src) : c # (pos + i - 1) % Cap)
                => CopyIn(pos, src)[c] = data[c]
<1> DEFINE start == pos % Cap
           len == Len(src)
           first == First(pos, len)
           cell(i) == (pos + i - 1) % Cap
           new == CopyIn(pos, src)
<1>0. len \in 0 .. Cap
  BY RingAssumption
<1>1. /\ start \in 0 .. Cap - 1 /\ first \in 0 .. len /\ start + first <= Cap
      /\ first = len \/ start + first = Cap
  BY <1>0, FirstBounds
<1>2. Cap \in Nat \ {0}
  BY RingAssumption
<1>3. ASSUME NEW i \in 1 .. len
      PROVE  /\ cell(i) = IF i <= first THEN start + i - 1 ELSE i - first - 1
             /\ cell(i) \in 0 .. Cap - 1
  <2>1. i - 1 \in 0 .. Cap - 1 /\ pos + (i - 1) = pos + i - 1
    BY <1>0, <1>2
  <2>2. cell(i) = IF start + (i - 1) < Cap THEN start + (i - 1) ELSE start + (i - 1) - Cap
    BY <2>1, <1>2, ModStep
  <2> HIDE DEF start, first, cell, len
  <2> QED BY <1>0, <1>1, <1>2, <2>2
<1>4. new = [c \in 0 .. Cap - 1 |->
               IF c < len - first THEN src[first + c + 1]
               ELSE IF c \in start .. start + first - 1 THEN src[c - start + 1]
               ELSE data[c]]
  BY DEF CopyIn
<1>5. \A i \in 1 .. len : src[i] \in Byte
  OBVIOUS
<1> HIDE DEF start, first, cell, len, new
<1>6. new \in [0 .. Cap - 1 -> Byte]
  BY <1>0, <1>1, <1>2, <1>4, <1>5
<1>7. \A i \in 1 .. len : new[cell(i)] = src[i]
  <2> TAKE i \in 1 .. len
  <2>1. CASE i <= first
    <3>1. cell(i) = start + i - 1 /\ cell(i) \in 0 .. Cap - 1
      BY <2>1, <1>3
    <3>2. ~(cell(i) < len - first) /\ cell(i) \in start .. start + first - 1
      BY <3>1, <2>1, <1>0, <1>1, <1>2
    <3>3. cell(i) - start + 1 = i
      BY <3>1, <1>1
    <3> QED BY <1>4, <3>1, <3>2, <3>3
  <2>2. CASE i > first
    <3>1. cell(i) = i - first - 1 /\ cell(i) \in 0 .. Cap - 1
      BY <2>2, <1>3, <1>1
    <3>2. cell(i) < len - first /\ first + cell(i) + 1 = i
      BY <3>1, <2>2, <1>0, <1>1
    <3> QED BY <1>4, <3>1, <3>2
  <2> QED BY <2>1, <2>2, <1>1, <1>0
<1>8. ASSUME NEW c \in 0 .. Cap - 1, \A i \in 1 .. len : c # cell(i)
      PROVE  new[c] = data[c]
  <2>1. ~(c < len - first)
    <3> SUFFICES ASSUME c < len - first PROVE FALSE
      OBVIOUS
    <3>1. first + c + 1 \in 1 .. len /\ first + c + 1 > first
      BY <1>0, <1>1, <1>2
    <3>2. cell(first + c + 1) = c
      BY <3>1, <1>3, <1>1, <1>2
    <3> QED BY <3>1, <3>2, <1>8
  <2>2. c \notin start .. start + first - 1
    <3> SUFFICES ASSUME c \in start .. start + first - 1 PROVE FALSE
      OBVIOUS
    <3>1. c - start + 1 \in 1 .. len /\ c - start + 1 <= first
      BY <1>0, <1>1, <1>2
    <3>2. cell(c - start + 1) = c
      BY <3>1, <1>3, <1>1, <1>2
    <3> QED BY <3>1, <3>2, <1>8
  <2> QED BY <2>1, <2>2, <1>4
<1> QED BY <1>6, <1>7, <1>8 DEF new, len, cell

----------------------------------------------------------------------------
(* Records and framing *)

\* A length that is accepted survives the length prefix.
LEMMA PrefixRoundTrip ==
  ASSUME NEW len \in 0 .. MAX_RECORD_BYTES
  PROVE  /\ Encode(len) \in Seq(Byte) /\ Len(Encode(len)) = 2
         /\ Decode(Encode(len)[1], Encode(len)[2]) = len
<1> DEFINE low == len % Radix
           high == len \div Radix
<1>1. Radix \in Nat \ {0} /\ len \in Nat /\ len < Radix * Radix
  BY RingAssumption
<1>2. len = Radix * high + low /\ low \in 0 .. Radix - 1 /\ high \in Nat
  BY <1>1, DivMod
<1> HIDE DEF low, high
<1>3. high < Radix
  <2> SUFFICES ASSUME high >= Radix PROVE FALSE
    BY <1>1, <1>2
  <2>1. Radix * high >= Radix * Radix
    BY <1>1, <1>2
  <2> QED BY <2>1, <1>1, <1>2
<1>4. low \in Byte /\ high \in Byte
  BY <1>1, <1>2, <1>3 DEF Byte
<1>5. Encode(len) = <<low, high>>
  BY DEF Encode, low, high
<1>6. <<low, high>> \in Seq(Byte) /\ Len(<<low, high>>) = 2
  BY <1>4
<1>7. Decode(Encode(len)[1], Encode(len)[2]) = low + Radix * high
  BY <1>5 DEF Decode
<1>8. low + Radix * high = len
  BY <1>1, <1>2
<1> QED BY <1>5, <1>6, <1>7, <1>8

\* A length prefix decodes to a number.
LEMMA DecodeType ==
  ASSUME NEW low \in Byte, NEW high \in Byte
  PROVE  Decode(low, high) \in Nat
<1>1. Radix \in Nat /\ low \in Nat /\ high \in Nat
  BY RingAssumption DEF Byte
<1>2. Radix * high \in Nat
  BY <1>1
<1> QED BY <1>1, <1>2 DEF Decode

\* Batch::push_record keeps a batch a sequence of whole records.
LEMMA WithRecordLemma ==
  ASSUME NEW b \in [bytes : Seq(Byte), records : Nat, starts : SUBSET Nat],
         NEW payload \in Seq(Byte),
         BytesFraming(b.bytes, b.starts)
  PROVE  LET new == WithRecord(b, payload)
         IN /\ new \in [bytes : Seq(Byte), records : Nat, starts : SUBSET Nat]
            /\ BytesFraming(new.bytes, new.starts)
<1> DEFINE new == WithRecord(b, payload)
           size == Len(b.bytes)
           len == Len(payload)
<1>1. CASE len > MAX_RECORD_BYTES
  BY <1>1 DEF WithRecord
<1>2. CASE len <= MAX_RECORD_BYTES
  <2>1. len \in 0 .. MAX_RECORD_BYTES /\ size \in Nat
    BY <1>2, RingAssumption
  <2>2. /\ Record(payload) \in Seq(Byte) /\ Len(Record(payload)) = 2 + len
        /\ Decode(Record(payload)[1], Record(payload)[2]) = len
    <3>1. Encode(len) \in Seq(Byte) /\ Len(Encode(len)) = 2
          /\ Decode(Encode(len)[1], Encode(len)[2]) = len
      BY <2>1, PrefixRoundTrip
    <3>2. /\ Record(payload) \in Seq(Byte) /\ Len(Record(payload)) = 2 + len
          /\ \A i \in 1 .. 2 + len :
               Record(payload)[i] = IF i <= 2 THEN Encode(len)[i] ELSE payload[i - 2]
      <4> DEFINE prefix == Encode(len)
      <4>1. prefix \in Seq(Byte) /\ Len(prefix) = 2
        BY <3>1
      <4>2. Record(payload) = prefix \o payload
        BY DEF Record
      <4> HIDE DEF prefix
      <4>3. /\ prefix \o payload \in Seq(Byte)
            /\ Len(prefix \o payload) = Len(prefix) + Len(payload)
            /\ \A i \in 1 .. Len(prefix) + Len(payload) : (prefix \o payload)[i] =
                  IF i <= Len(prefix) THEN prefix[i] ELSE payload[i - Len(prefix)]
        BY <4>1, ConcatProperties
      <4> QED BY <4>1, <4>2, <4>3 DEF prefix
    <3>3. Record(payload)[1] = Encode(len)[1] /\ Record(payload)[2] = Encode(len)[2]
      BY <3>2, <2>1
    <3> QED BY <3>1, <3>2, <3>3
  <2>3. /\ new.bytes = b.bytes \o Record(payload)
        /\ new.starts = b.starts \cup {size}
        /\ new.records = b.records + 1
        /\ new = [bytes |-> new.bytes, records |-> new.records, starts |-> new.starts]
    <3>1. ~(len > MAX_RECORD_BYTES)
      BY <1>2, <2>1, RingAssumption
    <3>2. new = [bytes |-> b.bytes \o Record(payload), records |-> b.records + 1,
                 starts |-> b.starts \cup {size}]
      BY <3>1 DEF WithRecord
    <3> QED BY <3>2
  <2> HIDE DEF new
  <2>13. /\ b.bytes \in Seq(Byte) /\ b.starts \subseteq Nat /\ b.records \in Nat
    OBVIOUS
  <2>14. /\ new.bytes \in Seq(Byte)
         /\ Len(new.bytes) = Len(b.bytes) + Len(Record(payload))
         /\ \A i \in 1 .. Len(b.bytes) + Len(Record(payload)) : new.bytes[i] =
              IF i <= Len(b.bytes) THEN b.bytes[i] ELSE Record(payload)[i - Len(b.bytes)]
    <3> DEFINE old == b.bytes
               more == Record(payload)
    <3>1. old \in Seq(Byte) /\ more \in Seq(Byte) /\ new.bytes = old \o more
      BY <2>2, <2>3, <2>13
    <3> HIDE DEF old, more
    <3>2. /\ old \o more \in Seq(Byte)
          /\ Len(old \o more) = Len(old) + Len(more)
          /\ \A i \in 1 .. Len(old) + Len(more) : (old \o more)[i] =
                IF i <= Len(old) THEN old[i] ELSE more[i - Len(old)]
      BY <3>1, ConcatProperties
    <3> QED BY <3>1, <3>2 DEF old, more
  <2>4. new.bytes \in Seq(Byte) /\ Len(new.bytes) = size + 2 + len
    BY <2>1, <2>2, <2>14
  <2>5. new \in [bytes : Seq(Byte), records : Nat, starts : SUBSET Nat]
    <3>1. new.records \in Nat /\ new.starts \in SUBSET Nat
      BY <2>1, <2>3, <2>13
    <3> QED BY <3>1, <2>3, <2>4
  <2>6. \A i \in 1 .. size : new.bytes[i] = b.bytes[i]
    BY <2>1, <2>2, <2>14
  <2>7. new.bytes[size + 1] = Record(payload)[1] /\ new.bytes[size + 2] = Record(payload)[2]
    <3>1. /\ size + 1 \in 1 .. Len(b.bytes) + Len(Record(payload))
          /\ size + 2 \in 1 .. Len(b.bytes) + Len(Record(payload))
          /\ (size + 1) - Len(b.bytes) = 1 /\ (size + 2) - Len(b.bytes) = 2
          /\ ~(size + 1 <= Len(b.bytes)) /\ ~(size + 2 <= Len(b.bytes))
      BY <2>1, <2>2
    <3> QED BY <3>1, <2>14
  <2> DEFINE total == size + 2 + len
             old == [i \in 0 .. size - 1 |-> b.bytes[i + 1]]
             now == [i \in 0 .. total - 1 |-> new.bytes[i + 1]]
  <2>8. Framing(old, b.starts, 0, size)
    BY DEF BytesFraming
  <2>9. now[size] = Record(payload)[1] /\ now[size + 1] = Record(payload)[2]
    BY <2>1, <2>7
  <2>10. \A i \in 0 .. size - 1 : now[i] = old[i]
    BY <2>1, <2>6
  <2>11. Decode(now[size], now[size + 1]) = len
    BY <2>2, <2>9
  <2> HIDE DEF old, now
  <2>12. Framing(now, new.starts, 0, total)
    <3>1. new.starts \subseteq 0 .. total - 1 /\ 0 \in new.starts \cup {total}
      BY <2>1, <2>3, <2>8 DEF Framing, LEN_PREFIX_BYTES
    <3>2. ASSUME NEW s \in b.starts
          PROVE  /\ s + 2 <= total
                 /\ LET l == Decode(now[s], now[s + 1])
                    IN /\ l \in 0 .. MAX_RECORD_BYTES
                       /\ s + 2 + l \in new.starts \cup {total}
                       /\ \A t \in new.starts : t > s => t >= s + 2 + l
      <4>1. s \in 0 .. size - 1 /\ s + 2 <= size
        BY <2>1, <2>8 DEF Framing, LEN_PREFIX_BYTES
      <4>2. now[s] = old[s] /\ now[s + 1] = old[s + 1]
        BY <4>1, <2>1, <2>10
      <4>3. LET l == Decode(old[s], old[s + 1])
            IN /\ l \in 0 .. MAX_RECORD_BYTES
               /\ s + 2 + l \in b.starts \cup {size}
               /\ \A t \in b.starts : t > s => t >= s + 2 + l
        BY <2>8 DEF Framing, LEN_PREFIX_BYTES
      <4>4. b.starts \subseteq 0 .. size - 1
        BY <2>8 DEF Framing
      <4> DEFINE l == Decode(old[s], old[s + 1])
      <4>5. s + 2 + l <= size
        BY <4>3, <4>4, <2>1
      <4> HIDE DEF l
      <4>6. \A t \in new.starts : t > s => t >= s + 2 + l
        BY <4>3, <4>5, <2>3 DEF l
      <4> QED BY <4>1, <4>2, <4>3, <4>6, <2>1, <2>3 DEF l
    <3>3. /\ size + 2 <= total
          /\ LET l == Decode(now[size], now[size + 1])
             IN /\ l \in 0 .. MAX_RECORD_BYTES
                /\ size + 2 + l \in new.starts \cup {total}
                /\ \A t \in new.starts : t > size => t >= size + 2 + l
      <4>1. \A t \in new.starts : t <= size
        BY <2>1, <2>3, <2>8 DEF Framing
      <4>2. new.starts \subseteq Nat
        BY <2>1, <2>3
      <4> QED BY <4>1, <4>2, <2>11, <2>1
    <3> QED BY <3>1, <3>2, <3>3, <2>3 DEF Framing, LEN_PREFIX_BYTES
  <2> QED BY <2>4, <2>5, <2>12 DEF BytesFraming, now, new
<1> QED BY <1>1, <1>2, RingAssumption

----------------------------------------------------------------------------
(* The inductive invariant *)

BatchType == [bytes : Seq(Byte), records : Nat, starts : SUBSET Nat]

\* A new batch is a sequence of no records.
LEMMA EmptyBatchLemma ==
  /\ EmptyBatch \in BatchType
  /\ Len(EmptyBatch.bytes) = 0
  /\ BytesFraming(EmptyBatch.bytes, EmptyBatch.starts)
<1>1. EmptyBatch.bytes = << >> /\ EmptyBatch.starts = {} /\ EmptyBatch.records = 0
  BY DEF EmptyBatch
<1>2. << >> \in Seq(Byte) /\ Len(<< >>) = 0
  OBVIOUS
<1>3. EmptyBatch \in BatchType
  BY <1>2 DEF EmptyBatch, BatchType
<1> QED BY <1>1, <1>2, <1>3 DEF BytesFraming, Framing

\* What discarding the contents leaves behind satisfies the window's invariants.
LEMMA DiscardedLemma ==
  ASSUME Discarded, NEW n \in Nat, head' = n, tail' = n
  PROVE  /\ Window' /\ WindowFramed' /\ starts' \subseteq Nat
         /\ ~tainted' /\ tainted' \in BOOLEAN /\ sound' = sound
<1>1. stream' = [c \in {} |-> 0] /\ starts' = {} /\ tainted' = FALSE /\ sound' = sound
  BY DEF Discarded
<1>2. Cap \in Nat
  BY RingAssumption
<1>3. head' .. tail' - 1 = {} /\ DOMAIN stream' = {}
  <2>1. n .. n - 1 = {}
    OBVIOUS
  <2> QED BY <1>1, <2>1
<1>6. tail' >= head' /\ tail' - head' <= Cap
  BY <1>2
<1>4. Window'
  <2>1. is_consistent'
    BY <1>6 DEF is_consistent
  <2>2. DOMAIN stream' = head' .. tail' - 1
    BY <1>3
  <2>3. \A c \in head' .. tail' - 1 : data'[c % Cap] = stream'[c]
    BY <1>3
  <2> QED BY <2>1, <2>2, <2>3 DEF Window
<1>5. WindowFramed'
  BY <1>1 DEF WindowFramed, Framing
<1> QED BY <1>1, <1>4, <1>5

\* The invariant holds when shared memory has been set up.
LEMMA InitInv == Init => RingInv
<1> SUFFICES ASSUME Init PROVE RingInv
  OBVIOUS
<1> USE DEF Init
<1>1. TypeOK
  <2>1. 0 \in Byte
    BY RingAssumption DEF Byte
  <2>2. << >> \in Seq(Byte)
    OBVIOUS
  <2> QED BY <2>1, <2>2, EmptyBatchLemma DEF TypeOK, BatchType
<1>2. Mutex /\ InBounds /\ PushInv /\ DrainInv /\ WholeRecords
  BY DEF Mutex, InBounds, PushInv, DrainInv, WholeRecords
<1>3. Window /\ WindowFramed
  BY RingAssumption DEF Window, is_consistent, WindowFramed, Framing
<1>4. BatchFramed
  BY EmptyBatchLemma DEF BatchFramed
<1> QED BY <1>1, <1>2, <1>3, <1>4 DEF RingInv

\* Batch::push_record keeps the invariant: it touches the batch only.
LEMMA PushRecordInv ==
  ASSUME RingInv, NEW b \in Backends, NEW payload \in Payloads, PushRecord(b, payload)
  PROVE  RingInv'
<1> USE DEF RingInv, PushRecord, ring, consumer, history
<1>1. /\ WithRecord(batch[b], payload) \in BatchType
      /\ BytesFraming(WithRecord(batch[b], payload).bytes, WithRecord(batch[b], payload).starts)
  <2>1. batch[b] \in BatchType /\ payload \in Seq(Byte)
    BY RingAssumption DEF TypeOK, BatchType
  <2>2. BytesFraming(batch[b].bytes, batch[b].starts)
    BY DEF BatchFramed
  <2> QED BY <2>1, <2>2, WithRecordLemma DEF BatchType
<1>2. /\ batch' \in [Backends -> BatchType]
      /\ batch'[b] = WithRecord(batch[b], payload)
      /\ \A o \in Backends \ {b} : batch'[o] = batch[o]
  BY <1>1 DEF TypeOK, BatchType
<1>3. TypeOK'
  BY <1>2 DEF TypeOK, BatchType
<1>4. Mutex' /\ Window' /\ WindowFramed' /\ DrainInv' /\ WholeRecords'
  BY DEF Mutex, Window, WindowFramed, DrainInv, WholeRecords, is_consistent
<1>5. BatchFramed'
  BY <1>1, <1>2 DEF BatchFramed
<1>6. \A o \in Backends : pc'[o] # "build" => pc[o] # "build" /\ batch'[o] = batch[o]
  BY <1>2
<1>7. PushInv' /\ InBounds'
  BY <1>6 DEF PushInv, InBounds
<1> QED BY <1>3, <1>4, <1>5, <1>7

\* Entering a push keeps the invariant, whether positions are repaired, the batch
\* is dropped, or the copy is about to start.
LEMMA PushLockInv ==
  ASSUME RingInv, NEW b \in Backends, PushLock(b)
  PROVE  RingInv'
<1> USE DEF RingInv, PushLock, Free, DoesNotFit, consumer
<1>0. Cap \in Nat /\ batch[b] \in BatchType /\ Len(batch[b].bytes) \in Nat
  BY RingAssumption DEF TypeOK, BatchType
<1>1. /\ head' \in Nat /\ tail' \in Nat
      /\ Window' /\ WindowFramed'
      /\ starts' \subseteq Nat /\ tainted' \in BOOLEAN /\ sound' = sound
      /\ ~tainted' => tail' - head' = used /\ used <= Cap
  <2>1. CASE is_consistent
    BY <2>1 DEF history, TypeOK, Window, WindowFramed, is_consistent, used
  <2>2. CASE ~is_consistent
    <3>1. 0 \in Nat /\ head' = 0 /\ tail' = 0 /\ Discarded
      BY <2>2
    <3>2. /\ Window' /\ WindowFramed' /\ starts' \subseteq Nat
          /\ ~tainted' /\ tainted' \in BOOLEAN /\ sound' = sound
      BY <3>1, DiscardedLemma
    <3>3. used = 0
      BY <2>2 DEF used
    <3> QED BY <3>1, <3>2, <3>3, <1>0
  <2> QED BY <2>1, <2>2
<1>2. \A o \in Backends : pc[o] = "build"
  BY RingAssumption DEF Mutex
<1>3. wpc \notin {"measure", "move"}
  BY RingAssumption DEF Mutex
<1>4. /\ batch' \in [Backends -> BatchType]
      /\ \A o \in Backends : batch'[o] = batch[o] \/ batch'[o] = EmptyBatch
  BY EmptyBatchLemma DEF TypeOK, BatchType
<1>5. TypeOK'
  BY <1>1, <1>4 DEF TypeOK, BatchType
<1>6. BatchFramed'
  BY <1>4, EmptyBatchLemma DEF BatchFramed
<1>7. DrainInv' /\ WholeRecords'
  BY <1>1, <1>3 DEF DrainInv, WholeRecords
<1>8. CASE Len(batch[b].bytes) > Cap - used
  <2>1. UNCHANGED <<lock, pc>>
    BY <1>8
  <2>2. Mutex' /\ PushInv' /\ InBounds'
    BY <1>2, <1>3, <2>1 DEF Mutex, PushInv, InBounds
  <2> QED BY <1>1, <1>5, <1>6, <1>7, <2>2
<1>9. CASE ~(Len(batch[b].bytes) > Cap - used)
  <2>1. lock' = b /\ batch' = batch /\ pc' = [pc EXCEPT ![b] = "copy"]
    BY <1>9
  <2>2. pc'[b] = "copy" /\ \A o \in Backends \ {b} : pc'[o] = "build"
    BY <2>1, <1>2 DEF TypeOK
  <2>3. Mutex'
    BY <1>3, <2>1, <2>2 DEF Mutex
  <2>6. used \in Nat
    BY DEF used, is_consistent, TypeOK
  <2>4. used \in Nat /\ Len(batch[b].bytes) <= Cap - used
    <3> HIDE DEF RingInv, PushLock, Free, DoesNotFit
    <3> QED BY <1>9, <1>0, <2>6
  <2>5. PushInv'
    <3>1. \A o \in Backends : pc'[o] # "advance" /\ (pc'[o] # "build" => o = b)
      BY <2>2
    <3>2. ~tainted' => tail' - head' + Len(batch'[b].bytes) <= Cap
      <4> HIDE DEF RingInv, PushLock, Free, DoesNotFit
      <4>1. Len(batch'[b].bytes) = Len(batch[b].bytes)
        BY <2>1
      <4>2. ~tainted' => tail' - head' = used
        BY <1>1
      <4> DEFINE size == Len(batch[b].bytes)
      <4>3. used + size <= Cap
        BY <2>4, <1>0
      <4> QED BY <4>1, <4>2, <4>3
    <3> QED BY <3>1, <3>2 DEF PushInv
  <2>7. InBounds'
    <3>1. Len(batch'[b].bytes) <= Cap
      <4> HIDE DEF RingInv, PushLock, Free, DoesNotFit
      <4> QED BY <2>1, <2>4, <1>0
    <3> QED BY <3>1, <1>3, <2>2 DEF InBounds
  <2> QED BY <1>1, <1>5, <1>6, <1>7, <2>3, <2>5, <2>7
<1> QED BY <1>8, <1>9

\* The bytes behind the window are written without touching the window.
LEMMA PushCopyInv ==
  ASSUME RingInv, NEW b \in Backends, PushCopy(b)
  PROVE  RingInv'
<1> USE DEF RingInv, PushCopy, consumer, history
<1> DEFINE src == batch[b].bytes
<1>0. /\ Cap \in Nat \ {0} /\ src \in Seq(Byte) /\ Len(src) \in Nat /\ Len(src) <= Cap
      /\ tail \in Nat /\ head \in Nat /\ data \in [0 .. Cap - 1 -> Byte]
  BY RingAssumption DEF TypeOK, InBounds
<1>1. /\ data' \in [0 .. Cap - 1 -> Byte]
      /\ \A i \in 1 .. Len(src) : data'[(tail + i - 1) % Cap] = src[i]
      /\ \A c \in 0 .. Cap - 1 :
           (\A i \in 1 .. Len(src) : c # (tail + i - 1) % Cap) => data'[c] = data[c]
  <2>1. data' = CopyIn(tail, src)
    OBVIOUS
  <2> HIDE DEF RingInv, PushCopy, src
  <2> QED BY <1>0, <2>1, CopyInLemma
<1>2. \A o \in Backends \ {b} : pc[o] = "build"
  BY DEF Mutex
<1>3. pc' = [pc EXCEPT ![b] = "advance"] /\ pc \in [Backends -> {"build", "copy", "advance"}]
  BY DEF TypeOK
<1>4. TypeOK'
  BY <1>1, <1>3 DEF TypeOK
<1>5. Mutex' /\ InBounds' /\ BatchFramed' /\ WindowFramed' /\ DrainInv' /\ WholeRecords'
  BY <1>3 DEF Mutex, InBounds, BatchFramed, WindowFramed, DrainInv, WholeRecords
<1>6. ~tainted => \A c \in head .. tail - 1 : data'[c % Cap] = data[c % Cap]
  <2> SUFFICES ASSUME ~tainted, NEW c \in head .. tail - 1
               PROVE  data'[c % Cap] = data[c % Cap]
    OBVIOUS
  <2>1. tail - head + Len(src) <= Cap
    BY DEF PushInv
  <2> HIDE DEF RingInv, PushCopy, src
  <2>2. c \in Nat /\ c % Cap \in 0 .. Cap - 1
    <3>1. c \in Nat
      BY <1>0
    <3> QED BY <3>1, <1>0, DivMod
  <2>3. ASSUME NEW i \in 1 .. Len(src)
        PROVE  c % Cap # (tail + i - 1) % Cap
    <3>1. tail + i - 1 \in Nat /\ c < tail + i - 1 + 1 /\ tail + i - 1 < c + Cap /\ c < tail + i - 1
      BY <1>0, <2>1, <2>2
    <3> QED BY <1>0, <2>2, <3>1, ModDiffer
  <2> QED BY <1>1, <2>2, <2>3
<1>7. Window'
  BY <1>6 DEF Window, is_consistent
<1>8. PushInv'
  BY <1>1, <1>2, <1>3 DEF PushInv
<1> QED BY <1>4, <1>5, <1>7, <1>8

\* The records of the batch join the window behind the records it holds.
LEMMA PushAdvanceInv ==
  ASSUME RingInv, NEW b \in Backends, PushAdvance(b)
  PROVE  RingInv'
<1> USE DEF RingInv, PushAdvance, Release, consumer
<1> DEFINE src == batch[b].bytes
           size == Len(src)
           begin == batch[b].starts
<1>0. /\ Cap \in Nat \ {0} /\ src \in Seq(Byte) /\ size \in Nat /\ size <= Cap
      /\ tail \in Nat /\ head \in Nat /\ begin \subseteq Nat
  <2>1. batch[b] \in BatchType
    BY DEF TypeOK, BatchType
  <2>2. src \in Seq(Byte) /\ begin \subseteq Nat
    BY <2>1 DEF BatchType
  <2>3. size \in Nat
    BY <2>2
  <2>4. size <= Cap
    BY DEF InBounds
  <2> QED BY <2>2, <2>3, <2>4, RingAssumption DEF TypeOK
<1>1. /\ tail' = tail + size /\ head' = head /\ data' = data
      /\ tainted' = tainted /\ sound' = sound /\ lock' = NoProcess
  OBVIOUS
<1>2. /\ pc' \in [Backends -> {"build", "copy", "advance"}]
      /\ \A o \in Backends : pc'[o] = "build"
  <2>1. \A o \in Backends \ {b} : pc[o] = "build"
    BY DEF Mutex
  <2> QED BY <2>1 DEF TypeOK
<1>3. /\ batch' \in [Backends -> BatchType]
      /\ \A o \in Backends : batch'[o] = batch[o] \/ batch'[o] = EmptyBatch
  BY EmptyBatchLemma DEF TypeOK, BatchType
<1>4. wpc \notin {"measure", "move"} /\ wpc' = wpc
  BY RingAssumption DEF Mutex
<1>5. BatchFramed'
  BY <1>3, EmptyBatchLemma DEF BatchFramed
<1>6. starts' \subseteq Nat
  BY <1>0 DEF TypeOK
<1>7. TypeOK'
  <2>1. head' \in Nat /\ tail' \in Nat
    BY <1>0, <1>1
  <2>2. data' \in [0 .. Cap - 1 -> Byte] /\ lock' \in Backends \cup {Worker, NoProcess}
    BY <1>1 DEF TypeOK
  <2>3. /\ wpc' \in {"idle", "measure", "move", "decode", "corrupted"}
        /\ available' \in Nat /\ taken' \in Nat /\ records' \in Nat /\ out' \in Seq(Byte)
        /\ tainted' \in BOOLEAN /\ sound' \in BOOLEAN /\ faults' \in Nat
    BY DEF TypeOK
  <2> QED BY <1>2, <1>3, <1>6, <2>1, <2>2, <2>3 DEF TypeOK, BatchType
<1>8. Mutex' /\ InBounds' /\ PushInv' /\ DrainInv' /\ WholeRecords'
  BY <1>1, <1>2, <1>4 DEF Mutex, InBounds, PushInv, DrainInv, WholeRecords
<1>9. Window' /\ WindowFramed'
  <2> SUFFICES ASSUME ~tainted PROVE Window' /\ WindowFramed'
    BY <1>1 DEF Window, WindowFramed
  <2>1. /\ stream' = [c \in head .. tail' - 1 |->
                       IF c < tail THEN stream[c] ELSE src[c - tail + 1]]
        /\ starts' = starts \cup {tail + s : s \in begin}
    OBVIOUS
  <2>2. /\ tail >= head /\ tail - head + size <= Cap
        /\ \A c \in head .. tail - 1 : data[c % Cap] = stream[c]
        /\ \A i \in 1 .. size : data[(tail + i - 1) % Cap] = src[i]
    BY DEF Window, is_consistent, PushInv
  <2>3. Framing(stream, starts, head, tail)
    BY DEF WindowFramed
  <2>4. Framing([i \in 0 .. size - 1 |-> src[i + 1]], begin, 0, size)
    BY DEF BatchFramed, BytesFraming
  <2> HIDE DEF RingInv, PushAdvance, Release, src, size, begin
  <2>5. Window'
    <3>1. ASSUME NEW c \in head .. tail' - 1
          PROVE  data'[c % Cap] = stream'[c]
      <4>1. CASE c < tail
        BY <4>1, <1>0, <1>1, <2>1, <2>2
      <4>2. CASE c >= tail
        <5>1. c - tail + 1 \in 1 .. size /\ tail + (c - tail + 1) - 1 = c
          BY <4>2, <1>0, <1>1
        <5> QED BY <5>1, <4>2, <1>0, <1>1, <2>1, <2>2
      <4> QED BY <4>1, <4>2, <1>0
    <3>2. tail' >= head' /\ tail' - head' <= Cap
      BY <1>0, <1>1, <2>2
    <3>3. DOMAIN stream' = head' .. tail' - 1
      BY <1>1, <2>1
    <3> QED BY <3>1, <3>2, <3>3, <1>1 DEF Window, is_consistent
  <2>6. Framing(stream', starts', head, tail + size)
    <3> DEFINE now == stream'
               old == [i \in 0 .. size - 1 |-> src[i + 1]]
               end == tail + size
    <3>1. /\ \A c \in head .. tail - 1 : now[c] = stream[c]
          /\ \A i \in 0 .. size - 1 : now[tail + i] = old[i]
      <4>1. ASSUME NEW i \in 0 .. size - 1 PROVE now[tail + i] = old[i]
        <5>1. tail + i \in head .. tail' - 1 /\ ~(tail + i < tail) /\ (tail + i) - tail + 1 = i + 1
          BY <1>0, <1>1, <2>2
        <5> QED BY <5>1, <2>1
      <4>2. ASSUME NEW c \in head .. tail - 1 PROVE now[c] = stream[c]
        <5>1. c \in head .. tail' - 1 /\ c < tail
          BY <1>0, <1>1
        <5> QED BY <5>1, <2>1
      <4> QED BY <4>1, <4>2
    <3>2. /\ starts \subseteq head .. tail - 1 /\ begin \subseteq 0 .. size - 1
          /\ head \in starts \cup {tail} /\ 0 \in begin \cup {size}
      BY <2>3, <2>4 DEF Framing
    <3>3. starts' \subseteq head .. end - 1
      <4>1. starts \subseteq head .. end - 1
        BY <3>2, <2>2, <1>0
      <4>2. \A o \in begin : tail + o \in head .. end - 1
        BY <3>2, <2>2, <1>0
      <4> QED BY <4>1, <4>2, <2>1
    <3>4. tail \in starts' \cup {end}
      BY <3>2, <2>1, <1>0
    <3>5. head \in starts' \cup {end}
      BY <3>2, <3>4, <2>1
    <3> HIDE DEF now, old
    <3>6. ASSUME NEW s \in starts
          PROVE  /\ s + 2 <= end
                 /\ LET next == s + 2 + Decode(now[s], now[s + 1])
                    IN /\ Decode(now[s], now[s + 1]) \in 0 .. MAX_RECORD_BYTES
                       /\ next \in starts' \cup {end}
                       /\ \A t \in starts' : t > s => t >= next
      <4> DEFINE len == Decode(stream[s], stream[s + 1])
      <4>1. /\ s + 2 <= tail /\ len \in 0 .. MAX_RECORD_BYTES
            /\ s + 2 + len \in starts \cup {tail}
            /\ \A t \in starts : t > s => t >= s + 2 + len
        BY <2>3 DEF Framing, LEN_PREFIX_BYTES
      <4>2. s \in head .. tail - 1 /\ s + 1 \in head .. tail - 1
        BY <4>1, <3>2, <1>0
      <4>3. Decode(now[s], now[s + 1]) = len
        BY <4>2, <3>1
      <4> HIDE DEF len
      <4>4. s + 2 + len <= tail
        BY <4>1, <3>2, <1>0
      <4>5. \A t \in starts' : t \in starts \/ t >= tail
        BY <2>1, <3>2, <1>0
      <4>6. \A t \in starts' : t > s => t >= s + 2 + len
        <5> TAKE t \in starts'
        <5>1. t \in Nat /\ s + 2 + len \in Nat
          BY <3>2, <3>3, <4>1, <1>0
        <5> QED BY <5>1, <4>1, <4>4, <4>5, <1>0
      <4>7. s + 2 + len \in starts' \cup {end}
        BY <4>1, <3>4, <2>1
      <4> QED BY <4>1, <4>2, <4>3, <4>6, <4>7, <1>0
    <3>7. ASSUME NEW o \in begin
          PROVE  /\ tail + o + 2 <= end
                 /\ LET next == tail + o + 2 + Decode(now[tail + o], now[tail + o + 1])
                    IN /\ Decode(now[tail + o], now[tail + o + 1]) \in 0 .. MAX_RECORD_BYTES
                       /\ next \in starts' \cup {end}
                       /\ \A t \in starts' : t > tail + o => t >= next
      <4> DEFINE len == Decode(old[o], old[o + 1])
      <4>1. /\ o + 2 <= size /\ len \in 0 .. MAX_RECORD_BYTES
            /\ o + 2 + len \in begin \cup {size}
            /\ \A t \in begin : t > o => t >= o + 2 + len
        BY <2>4 DEF Framing, LEN_PREFIX_BYTES, old
      <4>2. o \in 0 .. size - 1 /\ o + 1 \in 0 .. size - 1
        BY <4>1, <3>2, <1>0
      <4>3. Decode(now[tail + o], now[tail + o + 1]) = len
        <5>1. now[tail + o] = old[o] /\ now[tail + (o + 1)] = old[o + 1]
          BY <4>2, <3>1
        <5>2. tail + (o + 1) = tail + o + 1
          BY <4>2, <1>0
        <5> QED BY <5>1, <5>2
      <4> HIDE DEF len
      <4>4. o + 2 + len \in Nat /\ tail + (o + 2 + len) = tail + o + 2 + len
        <5>1. o + 2 + len \in 0 .. size
          BY <4>1, <3>2, <1>0
        <5> QED BY <5>1, <4>1, <4>2, <1>0, RingAssumption
      <4>5. tail + o + 2 + len \in starts' \cup {end}
        <5>1. CASE o + 2 + len = size
          BY <5>1, <4>4
        <5>2. CASE o + 2 + len \in begin
          BY <5>2, <4>4, <2>1
        <5> QED BY <5>1, <5>2, <4>1
      <4>6. \A t \in starts' : t > tail + o => t >= tail + o + 2 + len
        <5> TAKE t \in starts'
        <5>1. CASE t \in starts
          BY <5>1, <3>2, <4>2, <1>0
        <5>2. CASE t \notin starts
          <6>1. PICK u \in begin : t = tail + u
            BY <5>2, <2>1
          <6>2. u \in Nat /\ (tail + u > tail + o => u > o)
            BY <3>2, <4>2, <1>0
          <6>3. u > o => u >= o + 2 + len
            BY <4>1
          <6> QED BY <6>1, <6>2, <6>3, <4>4, <1>0
        <5> QED BY <5>1, <5>2
      <4> QED BY <4>1, <4>2, <4>3, <4>5, <4>6, <1>0
    <3>8. \A s \in starts' : s \in starts \/ \E o \in begin : s = tail + o
      BY <2>1
    <3>9. ASSUME NEW s \in starts'
          PROVE  /\ s + 2 <= end
                 /\ LET next == s + 2 + Decode(now[s], now[s + 1])
                    IN /\ Decode(now[s], now[s + 1]) \in 0 .. MAX_RECORD_BYTES
                       /\ next \in starts' \cup {end}
                       /\ \A t \in starts' : t > s => t >= next
      BY <3>6, <3>7, <3>8
    <3> QED BY <3>3, <3>5, <3>9 DEF Framing, LEN_PREFIX_BYTES, now
  <2> QED BY <2>5, <2>6, <1>1 DEF WindowFramed, size, src
<1> QED BY <1>5, <1>7, <1>8, <1>9

\* A prefix in the slice reads as the two bytes at its counters.
LEMMA ReadLenLemma ==
  ASSUME data \in [0 .. Cap - 1 -> Byte], NEW pos \in Nat, Cap >= 2
  PROVE  /\ read_len(pos) = Decode(data[pos % Cap], data[(pos + 1) % Cap])
         /\ read_len(pos) \in Nat
<1>1. Cap \in Nat \ {0} /\ 2 \in 0 .. Cap
  BY RingAssumption
<1> DEFINE prefix == CopyOut(pos, 2)
<1>2. prefix \in Seq(Byte) /\ Len(prefix) = 2
      /\ \A i \in 1 .. 2 : prefix[i] = data[(pos + i - 1) % Cap]
  BY <1>1, CopyOutLemma
<1>3. read_len(pos) = Decode(prefix[1], prefix[2])
  BY DEF read_len, LEN_PREFIX_BYTES
<1> HIDE DEF prefix
<1>4. pos + 1 - 1 = pos /\ pos + 2 - 1 = pos + 1
  OBVIOUS
<1>5. prefix[1] = data[pos % Cap] /\ prefix[2] = data[(pos + 1) % Cap]
  BY <1>2, <1>4
<1>6. prefix[1] \in Byte /\ prefix[2] \in Byte
  <2>1. 1 \in 1 .. Len(prefix) /\ 2 \in 1 .. Len(prefix)
    BY <1>2
  <2> QED BY <1>2, <2>1, ElementOfSeq
<1> QED BY <1>3, <1>5, <1>6, DecodeType

\* Entering a drain keeps the invariant.
LEMMA DrainLockInv ==
  ASSUME RingInv, DrainLock
  PROVE  RingInv'
<1> USE DEF RingInv, DrainLock, Free, producers
<1>0. /\ Cap \in Nat /\ head \in Nat /\ tail \in Nat /\ << >> \in Seq(Byte)
  BY RingAssumption DEF TypeOK
<1>1. \A b \in Backends : pc[b] = "build"
  BY RingAssumption DEF Mutex
<1>2. Mutex' /\ BatchFramed' /\ PushInv'
  BY <1>1 DEF Mutex, BatchFramed, PushInv
<1>3. CASE is_consistent
  <2>1. /\ available' = used /\ taken' = 0 /\ records' = 0 /\ wpc' = "measure"
        /\ UNCHANGED <<head, tail, history>>
    BY <1>3
  <2>2. available' = tail - head /\ available' \in Nat /\ available' <= Cap
    BY <1>3, <2>1, <1>0 DEF used, is_consistent
  <2>3. TypeOK'
    BY <2>1, <2>2, <1>0 DEF TypeOK, history
  <2>4. InBounds'
    BY <1>1, <2>1, <2>2 DEF InBounds
  <2>5. Window' /\ WindowFramed' /\ WholeRecords'
    BY <2>1 DEF Window, WindowFramed, WholeRecords, is_consistent, history
  <2>6. DrainInv'
    <3>1. ~tainted => head \in starts \cup {tail}
      BY DEF WindowFramed, Framing
    <3>2. head + 0 = head
      BY <1>0
    <3> QED BY <2>1, <2>2, <3>1, <3>2 DEF DrainInv, history
  <2> QED BY <1>2, <2>3, <2>4, <2>5, <2>6
<1>4. CASE ~is_consistent
  <2>1. /\ 0 \in Nat /\ head' = 0 /\ tail' = 0 /\ Discarded /\ wpc' = "corrupted"
        /\ UNCHANGED <<lock, available, taken, records>>
    BY <1>4
  <2>2. /\ Window' /\ WindowFramed' /\ starts' \subseteq Nat
        /\ ~tainted' /\ tainted' \in BOOLEAN /\ sound' = sound
    BY <2>1, DiscardedLemma
  <2>3. TypeOK'
    BY <1>0, <2>1, <2>2 DEF TypeOK
  <2>4. InBounds' /\ DrainInv' /\ WholeRecords'
    BY <1>1, <2>1 DEF InBounds, DrainInv, WholeRecords
  <2> QED BY <1>2, <2>2, <2>3, <2>4
<1> QED BY <1>3, <1>4

\* In intact memory the next prefix is that of a record of the window, which
\* lies inside what is left to measure.
LEMMA MeasureLemma ==
  ASSUME RingInv, wpc = "measure", taken < available, ~tainted
  PROVE  LET len == read_len(head + taken)
         IN /\ available - taken >= 2
            /\ len \in 0 .. MAX_RECORD_BYTES
            /\ 2 + len <= available - taken
            /\ head + (taken + 2 + len) \in starts \cup {tail}
<1> DEFINE pos == head + taken
           len == Decode(stream[pos], stream[pos + 1])
<1>0. /\ head \in Nat /\ tail \in Nat /\ taken \in Nat /\ available \in Nat /\ Cap \in Nat
      /\ data \in [0 .. Cap - 1 -> Byte]
  BY RingAssumption DEF RingInv, TypeOK
<1>1. /\ available = tail - head /\ pos \in starts \cup {tail} /\ available <= Cap
  BY DEF RingInv, DrainInv, InBounds
<1>2. pos \in starts
  BY <1>0, <1>1
<1>3. /\ starts \subseteq head .. tail - 1
      /\ pos + 2 <= tail /\ len \in 0 .. MAX_RECORD_BYTES
      /\ pos + 2 + len \in starts \cup {tail}
  BY <1>2 DEF RingInv, WindowFramed, Framing, LEN_PREFIX_BYTES
<1>4. pos \in head .. tail - 1 /\ pos + 1 \in head .. tail - 1
  BY <1>0, <1>2, <1>3
<1>5. data[pos % Cap] = stream[pos] /\ data[(pos + 1) % Cap] = stream[pos + 1]
  BY <1>4 DEF RingInv, Window
<1> HIDE DEF pos
<1>6. Cap >= 2 /\ pos \in Nat
  BY <1>0, <1>1, <1>3, <1>4 DEF pos
<1>7. read_len(pos) = len
  BY <1>0, <1>5, <1>6, ReadLenLemma
<1> HIDE DEF len
<1>8. len \in Nat /\ pos + 2 + len <= tail
  <2>1. len \in Nat
    BY <1>3, RingAssumption
  <2>2. pos + 2 + len \in head .. tail - 1 \/ pos + 2 + len = tail
    BY <1>3
  <2> QED BY <2>1, <2>2, <1>0, <1>6
<1>9. head + (taken + 2 + len) = pos + 2 + len
  BY <1>0, <1>8 DEF pos
<1> QED BY <1>0, <1>1, <1>3, <1>7, <1>8, <1>9 DEF pos

\* An iteration of measure_drain keeps the invariant: it accepts the next record,
\* stops before it, or discards contents that were corrupted.
LEMMA DrainMeasureInv ==
  ASSUME RingInv, DrainMeasure
  PROVE  RingInv'
<1> USE DEF RingInv, producers
<1> DEFINE remaining == available - taken
           len == read_len(head + taken)
           size == LEN_PREFIX_BYTES + len
           bad == remaining < LEN_PREFIX_BYTES \/ len > MAX_RECORD_BYTES \/ size > remaining
<1>0. /\ Cap \in Nat /\ head \in Nat /\ tail \in Nat /\ taken \in Nat /\ available \in Nat
      /\ records \in Nat /\ wpc = "measure" /\ taken < available /\ available <= Cap
      /\ data \in [0 .. Cap - 1 -> Byte] /\ lock = Worker
  BY RingAssumption DEF TypeOK, DrainMeasure, Release, InBounds, Mutex
<1>1. \A b \in Backends : pc[b] = "build"
  BY <1>0, RingAssumption DEF Mutex
<1>2. UNCHANGED <<tail, data, pc, batch, available, out, faults>>
  BY DEF DrainMeasure, Release
<1>3. BatchFramed' /\ PushInv'
  BY <1>1, <1>2 DEF BatchFramed, PushInv
<1>4. CASE bad
  <2>1. /\ head' = tail /\ tail' = tail /\ Discarded /\ wpc' = "corrupted"
        /\ lock' = NoProcess /\ UNCHANGED <<taken, records>>
    BY <1>4 DEF DrainMeasure, Release
  <2>2. /\ Window' /\ WindowFramed' /\ starts' \subseteq Nat
        /\ ~tainted' /\ tainted' \in BOOLEAN /\ sound' = sound
    BY <2>1, <1>0, DiscardedLemma
  <2>3. TypeOK'
    BY <1>0, <1>2, <2>1, <2>2 DEF TypeOK
  <2>4. Mutex' /\ InBounds' /\ DrainInv' /\ WholeRecords'
    BY <1>1, <1>2, <2>1 DEF Mutex, InBounds, DrainInv, WholeRecords
  <2> QED BY <1>3, <2>2, <2>3, <2>4
<1>5. CASE ~bad
  <2>1. /\ \/ wpc' = "move" /\ UNCHANGED <<taken, records>>
           \/ taken' = taken + size /\ records' = records + 1 /\ wpc' = wpc
        /\ UNCHANGED <<head, lock, history>>
    BY <1>5 DEF DrainMeasure, Release
  <2>2. size \in Nat /\ taken + size \in Nat /\ taken + size <= available
    <3>1. remaining >= 2 /\ Cap >= 2
      BY <1>0, <1>5 DEF LEN_PREFIX_BYTES
    <3>2. head + taken \in Nat
      BY <1>0
    <3>3. len \in Nat
      BY <1>0, <3>1, <3>2, ReadLenLemma
    <3> HIDE DEF len
    <3>4. ~(size > remaining)
      BY <1>5
    <3> QED BY <1>0, <3>3, <3>4 DEF LEN_PREFIX_BYTES
  <2>3. ~tainted => /\ head + (taken + size) \in starts \cup {tail}
                    /\ head + taken \in starts \cup {tail}
                    /\ available = tail - head
    <3> SUFFICES ASSUME ~tainted
                 PROVE  /\ head + (taken + size) \in starts \cup {tail}
                        /\ head + taken \in starts \cup {tail}
                        /\ available = tail - head
      OBVIOUS
    <3>1. len \in 0 .. MAX_RECORD_BYTES /\ head + (taken + 2 + len) \in starts \cup {tail}
      BY <1>0, MeasureLemma
    <3>2. taken + 2 + len = taken + size
      BY <3>1, <1>0, RingAssumption DEF LEN_PREFIX_BYTES
    <3> QED BY <3>1, <3>2, <1>0 DEF DrainInv
  <2> HIDE DEF size, len, bad, remaining
  <2>4. taken' \in Nat /\ records' \in Nat /\ wpc' \in {"measure", "move"} /\ taken' <= available
    BY <1>0, <2>1, <2>2
  <2>5. TypeOK'
    BY <1>2, <2>1, <2>4 DEF TypeOK, history
  <2>6. Mutex' /\ InBounds' /\ WholeRecords'
    BY <1>0, <1>1, <1>2, <2>1, <2>4 DEF Mutex, InBounds, WholeRecords
  <2>7. Window' /\ WindowFramed'
    BY <1>2, <2>1 DEF Window, WindowFramed, is_consistent, history
  <2>8. DrainInv'
    BY <1>2, <2>1, <2>3 DEF DrainInv, history
  <2> QED BY <1>3, <2>5, <2>6, <2>7, <2>8
<1> QED BY <1>4, <1>5

\* What is moved out is a sequence of whole records of the window, and what is
\* left begins with the next record.
LEMMA DrainMoveInv ==
  ASSUME RingInv, DrainMove
  PROVE  RingInv'
<1> USE DEF RingInv, DrainMove, Measured, Move, Release, producers
<1> DEFINE end == head + taken
<1>0. /\ Cap \in Nat \ {0} /\ head \in Nat /\ tail \in Nat /\ taken \in Nat /\ end \in Nat
      /\ available \in Nat /\ taken <= available /\ available <= Cap
      /\ data \in [0 .. Cap - 1 -> Byte] /\ lock = Worker
  BY RingAssumption DEF TypeOK, InBounds, Mutex
<1>1. \A b \in Backends : pc[b] = "build"
  BY <1>0, RingAssumption DEF Mutex
<1>2. /\ out' \in Seq(Byte) /\ Len(out') = taken
      /\ \A i \in 1 .. taken : out'[i] = data[(head + i - 1) % Cap]
  <2>1. taken \in 0 .. Cap
    BY <1>0
  <2>2. out' = CopyOut(head, taken)
    OBVIOUS
  <2> HIDE DEF RingInv, DrainMove, Measured, Move, Release
  <2> QED BY <1>0, <2>1, <2>2, CopyOutLemma
<1>3. /\ head' = end /\ lock' = NoProcess /\ wpc' \in {"idle", "decode"}
      /\ UNCHANGED <<tail, data, pc, batch, available, taken, records, tainted, faults>>
  OBVIOUS
<1>4. starts' \subseteq Nat /\ sound' \in BOOLEAN
  BY DEF TypeOK
<1>5. TypeOK'
  BY <1>0, <1>2, <1>3, <1>4 DEF TypeOK
<1>6. Mutex' /\ InBounds' /\ BatchFramed' /\ DrainInv'
  BY <1>1, <1>3 DEF Mutex, InBounds, BatchFramed, DrainInv
<1>7. PushInv'
  BY <1>1, <1>3 DEF PushInv
<1>8. ASSUME ~tainted
      PROVE  /\ Window' /\ WindowFramed'
             /\ \E begin \in SUBSET (0 .. Len(out') - 1) : BytesFraming(out', begin)
  <2>1. /\ available = tail - head /\ end \in starts \cup {tail}
    BY <1>8 DEF DrainInv
  <2>2. end <= tail
    BY <1>0, <2>1
  <2>3. /\ head <= tail /\ tail - head <= Cap
        /\ \A c \in head .. tail - 1 : data[c % Cap] = stream[c]
    BY <1>8 DEF Window, is_consistent
  <2>4. /\ stream' = [c \in end .. tail - 1 |-> stream[c]]
        /\ starts' = {s \in starts : s >= end}
    BY <1>8
  <2>5. /\ starts \subseteq head .. tail - 1 /\ head \in starts \cup {tail}
        /\ \A s \in starts :
             /\ s + 2 <= tail
             /\ LET len == Decode(stream[s], stream[s + 1])
                IN /\ len \in 0 .. MAX_RECORD_BYTES
                   /\ s + 2 + len \in starts \cup {tail}
                   /\ \A t \in starts : t > s => t >= s + 2 + len
    BY <1>8 DEF WindowFramed, Framing, LEN_PREFIX_BYTES
  <2> HIDE DEF RingInv, DrainMove, Measured, Move, Release, end
  <2>6. Window'
    <3>1. tail' >= head' /\ tail' - head' <= Cap
      BY <1>0, <1>3, <2>2, <2>3 DEF end
    <3>2. DOMAIN stream' = head' .. tail' - 1
      BY <1>3, <2>4
    <3>3. ASSUME NEW c \in head' .. tail' - 1
          PROVE  data'[c % Cap] = stream'[c]
      <4>1. c \in head .. tail - 1 /\ c \in end .. tail - 1
        BY <1>0, <1>3 DEF end
      <4> QED BY <4>1, <1>3, <2>3, <2>4
    <3> QED BY <3>1, <3>2, <3>3 DEF Window, is_consistent
  <2>7. Framing(stream', starts', end, tail)
    <3>1. starts' \subseteq end .. tail - 1 /\ end \in starts' \cup {tail}
      <4>1. end \in starts' \cup {tail}
        BY <2>1, <2>4, <1>0
      <4>2. ASSUME NEW s \in starts' PROVE s \in end .. tail - 1
        BY <2>4, <2>5, <1>0
      <4> QED BY <4>1, <4>2
    <3>2. ASSUME NEW s \in starts'
          PROVE  /\ s + 2 <= tail
                 /\ LET len == Decode(stream'[s], stream'[s + 1])
                    IN /\ len \in 0 .. MAX_RECORD_BYTES
                       /\ s + 2 + len \in starts' \cup {tail}
                       /\ \A t \in starts' : t > s => t >= s + 2 + len
      <4> DEFINE len == Decode(stream[s], stream[s + 1])
      <4>1. s \in starts /\ s >= end /\ s \in Nat /\ s <= tail - 1
        BY <2>4, <2>5, <1>0
      <4>2. /\ s + 2 <= tail /\ len \in 0 .. MAX_RECORD_BYTES
            /\ s + 2 + len \in starts \cup {tail}
            /\ \A t \in starts : t > s => t >= s + 2 + len
        BY <4>1, <2>5
      <4>3. s \in end .. tail - 1 /\ s + 1 \in end .. tail - 1
        BY <4>1, <4>2, <1>0
      <4>4. Decode(stream'[s], stream'[s + 1]) = len
        BY <4>3, <2>4
      <4> HIDE DEF len
      <4>5. s + 2 + len >= end
        BY <4>1, <4>2, <1>0, RingAssumption
      <4>6. s + 2 + len \in starts' \cup {tail}
        BY <4>2, <4>5, <2>4
      <4>7. \A t \in starts' : t > s => t >= s + 2 + len
        BY <4>2, <2>4
      <4> QED BY <4>2, <4>4, <4>6, <4>7
    <3> QED BY <3>1, <3>2 DEF Framing, LEN_PREFIX_BYTES
  <2>8. WindowFramed'
    BY <1>3, <2>7 DEF WindowFramed
  <2>9. \E begin \in SUBSET (0 .. Len(out') - 1) : BytesFraming(out', begin)
    <3> DEFINE begin == {s - head : s \in {t \in starts : t < end}}
               byte == [i \in 0 .. taken - 1 |-> out'[i + 1]]
    <3>1. \A i \in 0 .. taken - 1 : byte[i] = stream[head + i]
      <4> TAKE i \in 0 .. taken - 1
      <4>1. i + 1 \in 1 .. taken /\ head + (i + 1) - 1 = head + i /\ head + i \in head .. tail - 1
        BY <1>0, <2>2 DEF end
      <4> QED BY <4>1, <1>2, <2>3
    <3>2. ASSUME NEW s \in starts, s < end
          PROVE  /\ s - head \in 0 .. taken - 1 /\ s = head + (s - head)
                 /\ s - head \in begin
      BY <3>2, <2>5, <1>0 DEF end
    <3>3. \A o \in begin : /\ head + o \in starts /\ head + o < end
                            /\ o \in 0 .. taken - 1
      <4> TAKE o \in begin
      <4>1. PICK s \in {t \in starts : t < end} : o = s - head
        OBVIOUS
      <4>2. s \in Nat /\ head + o = s
        BY <4>1, <2>5, <1>0
      <4> QED BY <4>1, <4>2, <3>2
    <3> HIDE DEF begin, byte
    <3>4. ASSUME NEW s \in starts, s <= end
          PROVE  s - head \in begin \cup {taken}
      <4>1. CASE s < end
        BY <4>1, <3>2
      <4>2. CASE s = end
        BY <4>2, <1>0 DEF end
      <4> QED BY <4>1, <4>2, <3>4, <2>5, <1>0
    <3>5. 0 \in begin \cup {taken}
      <4>1. CASE taken = 0
        BY <4>1
      <4>2. CASE taken # 0
        <5>1. head \in starts /\ head <= end /\ head - head = 0
          BY <4>2, <1>0, <2>2, <2>5 DEF end
        <5> QED BY <5>1, <3>4
      <4> QED BY <4>1, <4>2
    <3>6. ASSUME NEW o \in begin
          PROVE  /\ o + 2 <= taken
                 /\ LET len == Decode(byte[o], byte[o + 1])
                    IN /\ len \in 0 .. MAX_RECORD_BYTES
                       /\ o + 2 + len \in begin \cup {taken}
                       /\ \A t \in begin : t > o => t >= o + 2 + len
      <4> DEFINE s == head + o
                 len == Decode(stream[s], stream[s + 1])
      <4>1. s \in starts /\ s < end /\ o \in 0 .. taken - 1 /\ s \in Nat
        BY <3>3, <1>0
      <4>2. /\ s + 2 <= tail /\ len \in 0 .. MAX_RECORD_BYTES
            /\ s + 2 + len \in starts \cup {tail}
            /\ \A t \in starts : t > s => t >= s + 2 + len
        BY <4>1, <2>5
      <4> HIDE DEF len
      <4>3. len \in Nat
        BY <4>2, RingAssumption
      <4>4. s + 2 + len <= end
        <5>1. CASE end \in starts
          BY <5>1, <4>1, <4>2, <1>0
        <5>2. CASE end = tail
          <6>1. s + 2 + len \in head .. tail - 1 \/ s + 2 + len = tail
            BY <4>2, <2>5
          <6> QED BY <6>1, <5>2, <4>1, <4>3, <1>0
        <5> QED BY <5>1, <5>2, <2>1
      <4>5. o + 2 + len <= taken /\ (s + 2 + len) - head = o + 2 + len
        BY <4>1, <4>3, <4>4, <1>0 DEF end
      <4>6. byte[o] = stream[s] /\ byte[o + 1] = stream[s + 1]
        <5>1. o + 1 \in 0 .. taken - 1 /\ head + (o + 1) = s + 1
          BY <4>1, <4>3, <4>5, <1>0
        <5>2. byte[o + 1] = stream[head + (o + 1)] /\ byte[o] = stream[head + o]
          BY <5>1, <4>1, <3>1
        <5> QED BY <5>1, <5>2
      <4>7. o + 2 + len \in begin \cup {taken}
        <5>1. CASE s + 2 + len \in starts
          <6>1. (s + 2 + len) - head \in begin \cup {taken}
            BY <5>1, <4>4, <3>4
          <6> QED BY <6>1, <4>5
        <5>2. CASE s + 2 + len = tail
          BY <5>2, <4>1, <4>3, <4>4, <4>5, <2>2, <1>0 DEF end
        <5> QED BY <5>1, <5>2, <4>2
      <4>8. \A t \in begin : t > o => t >= o + 2 + len
        <5> TAKE t \in begin
        <5>1. head + t \in starts /\ t \in Nat
          BY <3>3
        <5>2. head + t > s => head + t >= s + 2 + len
          BY <5>1, <4>2
        <5> QED BY <5>1, <5>2, <4>1, <4>3, <1>0
      <4>9. Decode(byte[o], byte[o + 1]) = len
        BY <4>6 DEF len
      <4> QED BY <4>1, <4>2, <4>3, <4>5, <4>7, <4>8, <4>9, <1>0
    <3>7. begin \subseteq 0 .. taken - 1
      BY <3>3
    <3>8. Framing(byte, begin, 0, taken)
      BY <3>5, <3>6, <3>7 DEF Framing, LEN_PREFIX_BYTES
    <3>9. BytesFraming(out', begin)
      BY <3>8, <1>2 DEF BytesFraming, byte
    <3> QED BY <3>7, <3>9, <1>2
  <2> QED BY <2>6, <2>8, <2>9
<1>9. Window' /\ WindowFramed'
  BY <1>3, <1>8 DEF Window, WindowFramed
<1>10. WholeRecords'
  <2>1. sound' = ~tainted \/ sound' = sound
    OBVIOUS
  <2>2. CASE tainted
    BY <2>2, <1>3 DEF WholeRecords
  <2>3. CASE ~tainted
    BY <2>3, <1>8 DEF WholeRecords
  <2> QED BY <2>2, <2>3
<1> QED BY <1>5, <1>6, <1>7, <1>9, <1>10

\* Handing a chunk on keeps the invariant.
LEMMA DrainDoneInv ==
  ASSUME RingInv, DrainDone
  PROVE  RingInv'
BY DEF RingInv, DrainDone, ring, producers, history, TypeOK, Mutex, InBounds, Window,
       WindowFramed, BatchFramed, PushInv, DrainInv, WholeRecords, is_consistent

\* A stray write voids only what the invariant says of intact memory.
LEMMA CorruptInv ==
  ASSUME RingInv, Corrupt
  PROVE  RingInv'
<1> USE DEF RingInv, Corrupt, producers, consumer
<1>1. /\ data' \in [0 .. Cap - 1 -> Byte] /\ head' \in Nat /\ tail' \in Nat
      /\ tainted' = TRUE /\ faults' = faults + 1
      /\ UNCHANGED <<lock, pc, batch, wpc, available, taken, records, out, stream, starts, sound>>
  BY RingAssumption DEF TypeOK
<1>2. TypeOK'
  BY <1>1 DEF TypeOK
<1>3. Mutex' /\ InBounds' /\ BatchFramed' /\ WholeRecords'
  BY <1>1 DEF Mutex, InBounds, BatchFramed, WholeRecords
<1>4. Window' /\ WindowFramed' /\ PushInv' /\ DrainInv'
  BY <1>1 DEF Window, WindowFramed, PushInv, DrainInv
<1> QED BY <1>2, <1>3, <1>4

\* New shared memory satisfies the invariant.
LEMMA RestartInv ==
  ASSUME RingInv, Restart
  PROVE  RingInv'
<1> USE DEF Restart
<1>1. /\ Window' /\ WindowFramed' /\ starts' \subseteq Nat
      /\ ~tainted' /\ tainted' \in BOOLEAN /\ sound' = sound
  <2>1. 0 \in Nat /\ head' = 0 /\ tail' = 0 /\ Discarded
    OBVIOUS
  <2> QED BY <2>1, DiscardedLemma
<1>2. TypeOK'
  <2>1. 0 \in Byte /\ << >> \in Seq(Byte)
    BY RingAssumption DEF Byte
  <2>2. batch' \in [Backends -> BatchType]
    BY EmptyBatchLemma
  <2> QED BY <1>1, <2>1, <2>2 DEF RingInv, TypeOK, BatchType
<1>3. Mutex' /\ InBounds' /\ PushInv' /\ DrainInv' /\ WholeRecords'
  BY DEF Mutex, InBounds, PushInv, DrainInv, WholeRecords
<1>4. BatchFramed'
  BY EmptyBatchLemma DEF BatchFramed
<1> QED BY <1>1, <1>2, <1>3, <1>4 DEF RingInv

\* A step that changes nothing keeps the invariant.
LEMMA StutterInv ==
  ASSUME RingInv, UNCHANGED vars
  PROVE  RingInv'
BY DEF RingInv, vars, ring, producers, consumer, history, TypeOK, Mutex, InBounds, Window,
       WindowFramed, BatchFramed, PushInv, DrainInv, WholeRecords, is_consistent

\* Every step keeps the invariant.
LEMMA NextInv == RingInv /\ [Next]_vars => RingInv'
<1> SUFFICES ASSUME RingInv, [Next]_vars PROVE RingInv'
  OBVIOUS
<1>1. ASSUME NEW b \in Backends, NEW payload \in Payloads, PushRecord(b, payload)
      PROVE  RingInv'
  BY <1>1, PushRecordInv
<1>2. ASSUME NEW b \in Backends, Push(b) PROVE RingInv'
  BY <1>2, PushLockInv, PushCopyInv, PushAdvanceInv DEF Push
<1>3. CASE Drain
  BY <1>3, DrainLockInv, DrainMeasureInv, DrainMoveInv, DrainDoneInv DEF Drain
<1>4. CASE Corrupt
  BY <1>4, CorruptInv
<1>5. CASE Restart
  BY <1>5, RestartInv
<1>6. CASE UNCHANGED vars
  BY <1>6, StutterInv
<1> QED BY <1>1, <1>2, <1>3, <1>4, <1>5, <1>6 DEF Next

----------------------------------------------------------------------------
(* The theorems *)

\* The inductive invariant holds of every capacity, radix, number of backends,
\* set of payloads and number of memory corruptions.
THEOREM RingInvariant == Spec => []RingInv
BY InitInv, NextInv, PTL DEF Spec

\* Every variable of the ring and its users keeps its type.
THEOREM TypeCorrect == Spec => []TypeOK
<1>1. RingInv => TypeOK
  BY DEF RingInv
<1> QED BY <1>1, RingInvariant, PTL

\* Unless memory is corrupted, the slice between head and tail holds exactly the
\* bytes pushed and not yet taken (Ring::copy_in, copy_out_slice).
THEOREM WindowIsFifo == Spec => []Window
<1>1. RingInv => Window
  BY DEF RingInv
<1> QED BY <1>1, RingInvariant, PTL

\* A drain of intact memory yields whole records (Ring::measure_drain).
THEOREM DrainsWholeRecords == Spec => []WholeRecords
<1>1. RingInv => WholeRecords
  BY DEF RingInv
<1> QED BY <1>1, RingInvariant, PTL

\* No copy leaves the slice, not even with corrupted positions or prefixes.
THEOREM CopiesInBounds == Spec => []InBounds
<1>1. RingInv => InBounds
  BY DEF RingInv
<1> QED BY <1>1, RingInvariant, PTL

\* A drain that finds memory intact never reports corruption, and no step but a
\* restart moves head backwards: the contents are never discarded by mistake.
THEOREM DiscardsOnlyCorrupted == Spec => NoFalseCorruption
<1>1. ASSUME RingInv, [Next]_vars
      PROVE  [ /\ wpc' = "corrupted" => wpc = "corrupted" \/ tainted
               /\ head' < head => tainted \/ Corrupt \/ Restart ]_vars
  <2> DEFINE Good == /\ wpc' = "corrupted" => wpc = "corrupted" \/ tainted
                     /\ head' < head => tainted \/ Corrupt \/ Restart
  <2>0. head \in Nat /\ tail \in Nat /\ taken \in Nat /\ available \in Nat
    BY <1>1 DEF RingInv, TypeOK
  <2>1. ASSUME NEW b \in Backends, NEW payload \in Payloads, PushRecord(b, payload)
        PROVE  Good
    BY <2>0, <2>1 DEF PushRecord, ring, consumer
  <2>2. ASSUME NEW b \in Backends, PushLock(b) PROVE Good
    BY <1>1, <2>0, <2>2 DEF PushLock, Free, DoesNotFit, consumer, RingInv, Window
  <2>3. ASSUME NEW b \in Backends, PushCopy(b) PROVE Good
    BY <2>0, <2>3 DEF PushCopy, consumer
  <2>4. ASSUME NEW b \in Backends, PushAdvance(b) PROVE Good
    BY <2>0, <2>4 DEF PushAdvance, Release, consumer
  <2>5. CASE DrainLock
    BY <1>1, <2>0, <2>5 DEF DrainLock, Free, RingInv, Window
  <2>6. CASE DrainMeasure
    <3>1. CASE tainted
      BY <3>1
    <3>2. CASE ~tainted
      <4>1. wpc = "measure" /\ taken < available
        BY <2>6 DEF DrainMeasure, Release
      <4> DEFINE len == read_len(head + taken)
      <4>2. /\ available - taken >= 2 /\ len \in 0 .. MAX_RECORD_BYTES
            /\ 2 + len <= available - taken
        BY <1>1, <3>2, <4>1, MeasureLemma
      <4>3. ~(available - taken < LEN_PREFIX_BYTES \/ len > MAX_RECORD_BYTES
                \/ LEN_PREFIX_BYTES + len > available - taken)
        <5> HIDE DEF len
        <5> QED BY <4>2, <2>0, RingAssumption DEF LEN_PREFIX_BYTES
      <4>4. head' = head /\ wpc' # "corrupted"
        BY <4>1, <4>3, <2>6 DEF DrainMeasure, Release
      <4> QED BY <4>4, <2>0
    <3> QED BY <3>1, <3>2
  <2>7. CASE DrainMove
    BY <2>0, <2>7 DEF DrainMove, Measured, Move, Release
  <2>8. CASE DrainDone
    BY <2>0, <2>8 DEF DrainDone, ring
  <2>9. CASE Corrupt \/ Restart
    BY <2>9 DEF Corrupt, Restart, consumer
  <2>10. CASE UNCHANGED vars
    BY <2>10
  <2> QED BY <1>1, <2>1, <2>2, <2>3, <2>4, <2>5, <2>6, <2>7, <2>8, <2>9, <2>10
          DEF Next, Push, Drain
<1> QED BY <1>1, RingInvariant, PTL DEF Spec, NoFalseCorruption

\* The worker receives the oldest bytes, in the order in which they were pushed.
THEOREM DrainsOldestFirst == Spec => TakesOldest
<1>1. ASSUME RingInv, [Next]_vars
      PROVE  [ (wpc' = "decode" /\ wpc # "decode" /\ ~tainted) =>
                 \A i \in 1 .. Len(out') : out'[i] = stream[head + i - 1] ]_vars
  <2> SUFFICES ASSUME wpc' = "decode", wpc # "decode", ~tainted
               PROVE  \A i \in 1 .. Len(out') : out'[i] = stream[head + i - 1]
    OBVIOUS
  <2>1. DrainMove
    BY <1>1 DEF Next, Push, Drain, PushRecord, PushLock, Free, DoesNotFit, PushCopy,
                PushAdvance, Release, DrainLock, DrainMeasure, DrainDone, Corrupt, Restart, consumer, vars
  <2>2. wpc \in {"measure", "move"} /\ out' = CopyOut(head, taken)
    BY <2>1 DEF DrainMove, Measured, Move, Release
  <2>3. /\ head \in Nat /\ tail \in Nat /\ taken \in Nat /\ available \in Nat /\ Cap \in Nat
        /\ data \in [0 .. Cap - 1 -> Byte]
        /\ taken <= available /\ available <= Cap /\ available = tail - head
    BY <1>1, <2>2, RingAssumption DEF RingInv, TypeOK, InBounds, DrainInv
  <2>4. /\ Len(out') = taken
        /\ \A i \in 1 .. taken : out'[i] = data[(head + i - 1) % Cap]
    <3>1. taken \in 0 .. Cap
      BY <2>3
    <3> QED BY <2>2, <2>3, <3>1, CopyOutLemma
  <2>5. \A c \in head .. tail - 1 : data[c % Cap] = stream[c]
    BY <1>1 DEF RingInv, Window
  <2>6. \A i \in 1 .. taken : head + i - 1 \in head .. tail - 1
    BY <2>3
  <2> QED BY <2>4, <2>5, <2>6
<1> QED BY <1>1, RingInvariant, PTL DEF Spec, TakesOldest
=============================================================================
