----------------------------- MODULE AccountProofs -----------------------------
(***************************************************************************)
(* Proof that SpanExport accounts for every span, for any number of        *)
(* backends, statements, failures, crashes and restarts.                   *)
(***************************************************************************)
EXTENDS SpanExportProofs, FiniteSetTheorems

\* No element occurs twice.
Distinct(s) == \A i, j \in 1 .. Len(s) : s[i] = s[j] => i = j

\* A sequence of distinct elements has as many as it is long.
LEMMA DistinctCard ==
  ASSUME NEW S, NEW s \in Seq(S), Distinct(s)
  PROVE  IsFiniteSet(Range(s)) /\ Cardinality(Range(s)) = Len(s)
<1>1. Len(s) \in Nat /\ DOMAIN s = 1 .. Len(s) BY LenProperties
<1>2. IsFiniteSet(1 .. Len(s)) /\ Cardinality(1 .. Len(s)) = Len(s) BY <1>1, FS_Interval
<1>3. s \in [1 .. Len(s) -> Range(s)] BY <1>1 DEF Range
<1>4. s \in Surjection(1 .. Len(s), Range(s)) BY <1>1, <1>3 DEF Surjection, Range
<1>5. s \in Injection(1 .. Len(s), Range(s)) BY <1>3 DEF Injection, Distinct, IsInjective
<1> QED BY <1>2, <1>4, <1>5, FS_Surjection

\* The elements of two sequences one after the other.
LEMMA ConcatRange ==
  ASSUME NEW S, NEW s \in Seq(S), NEW t \in Seq(S)
  PROVE  Range(s \o t) = Range(s) \cup Range(t)
<1>1. /\ Len(s) \in Nat /\ DOMAIN s = 1 .. Len(s)
      /\ Len(t) \in Nat /\ DOMAIN t = 1 .. Len(t)
  BY LenProperties
<1>2. /\ s \o t \in Seq(S) /\ Len(s \o t) = Len(s) + Len(t)
      /\ \A i \in 1 .. Len(s) + Len(t) :
           (s \o t)[i] = IF i <= Len(s) THEN s[i] ELSE t[i - Len(s)]
  BY ConcatProperties
<1>3. DOMAIN (s \o t) = 1 .. Len(s) + Len(t) BY <1>2, LenProperties
<1>4. ASSUME NEW x \in Range(s) \cup Range(t) PROVE x \in Range(s \o t)
  <2>1. CASE x \in Range(s)
    <3>1. PICK i \in 1 .. Len(s) : x = s[i] BY <1>1, <2>1 DEF Range
    <3>2. i \in 1 .. Len(s) + Len(t) /\ (s \o t)[i] = x BY <1>1, <1>2, <3>1
    <3> QED BY <1>3, <3>2 DEF Range
  <2>2. CASE x \in Range(t)
    <3>1. PICK i \in 1 .. Len(t) : x = t[i] BY <1>1, <2>2 DEF Range
    <3>2. Len(s) + i \in 1 .. Len(s) + Len(t) /\ ~(Len(s) + i <= Len(s))
          /\ (Len(s) + i) - Len(s) = i
      BY <1>1, <3>1
    <3>3. (s \o t)[Len(s) + i] = x BY <1>2, <3>1, <3>2
    <3> QED BY <1>3, <3>2, <3>3 DEF Range
  <2> QED BY <2>1, <2>2
<1>5. ASSUME NEW x \in Range(s \o t) PROVE x \in Range(s) \cup Range(t)
  <2>1. PICK i \in 1 .. Len(s) + Len(t) : x = (s \o t)[i] BY <1>3 DEF Range
  <2>2. CASE i <= Len(s)
    <3>1. i \in 1 .. Len(s) /\ x = s[i] BY <1>1, <1>2, <2>1, <2>2
    <3> QED BY <1>1, <3>1 DEF Range
  <2>3. CASE ~(i <= Len(s))
    <3>1. i - Len(s) \in 1 .. Len(t) /\ x = t[i - Len(s)] BY <1>1, <1>2, <2>1, <2>3
    <3> QED BY <1>1, <3>1 DEF Range
  <2> QED BY <2>2, <2>3
<1> QED BY <1>4, <1>5

\* Distinct elements behind other distinct elements.
LEMMA ConcatDistinct ==
  ASSUME NEW S, NEW s \in Seq(S), NEW t \in Seq(S), Distinct(s), Distinct(t),
         Range(s) \cap Range(t) = {}
  PROVE  Distinct(s \o t)
<1>1. /\ Len(s) \in Nat /\ DOMAIN s = 1 .. Len(s)
      /\ Len(t) \in Nat /\ DOMAIN t = 1 .. Len(t)
  BY LenProperties
<1>2. /\ Len(s \o t) = Len(s) + Len(t)
      /\ \A i \in 1 .. Len(s) + Len(t) :
           (s \o t)[i] = IF i <= Len(s) THEN s[i] ELSE t[i - Len(s)]
  BY ConcatProperties
<1>3. \A i \in 1 .. Len(s), j \in 1 .. Len(t) : s[i] # t[j] BY <1>1 DEF Range
<1> SUFFICES ASSUME NEW i \in 1 .. Len(s) + Len(t), NEW j \in 1 .. Len(s) + Len(t),
                    (s \o t)[i] = (s \o t)[j]
             PROVE  i = j
  BY <1>2 DEF Distinct
<1>4. i \in Nat /\ j \in Nat BY <1>1
<1>5. CASE i <= Len(s) /\ j <= Len(s)
  <2>1. i \in 1 .. Len(s) /\ j \in 1 .. Len(s) /\ s[i] = s[j] BY <1>2, <1>4, <1>5
  <2> QED BY <2>1 DEF Distinct
<1>6. CASE ~(i <= Len(s)) /\ ~(j <= Len(s))
  <2>1. i - Len(s) \in 1 .. Len(t) /\ j - Len(s) \in 1 .. Len(t)
    BY <1>1, <1>4, <1>6
  <2>2. t[i - Len(s)] = t[j - Len(s)] BY <1>2, <1>6
  <2>3. i - Len(s) = j - Len(s) BY <2>1, <2>2 DEF Distinct
  <2> QED BY <1>1, <1>4, <2>3
<1>7. CASE i <= Len(s) /\ ~(j <= Len(s))
  <2>1. i \in 1 .. Len(s) /\ j - Len(s) \in 1 .. Len(t) BY <1>1, <1>4, <1>7
  <2>2. s[i] = t[j - Len(s)] BY <1>2, <1>7
  <2> QED BY <1>3, <2>1, <2>2
<1>8. CASE ~(i <= Len(s)) /\ j <= Len(s)
  <2>1. j \in 1 .. Len(s) /\ i - Len(s) \in 1 .. Len(t) BY <1>1, <1>4, <1>8
  <2>2. s[j] = t[i - Len(s)] BY <1>2, <1>8
  <2> QED BY <1>3, <2>1, <2>2
<1> QED BY <1>5, <1>6, <1>7, <1>8

\* Two sets without a common element.
LEMMA DisjointCard ==
  ASSUME NEW S, NEW T, IsFiniteSet(S), IsFiniteSet(T), S \cap T = {}
  PROVE  /\ IsFiniteSet(S \cup T)
         /\ Cardinality(S) \in Nat /\ Cardinality(T) \in Nat
         /\ Cardinality(S \cup T) = Cardinality(S) + Cardinality(T)
<1>1. Cardinality(S) \in Nat /\ Cardinality(T) \in Nat BY FS_CardinalityType
<1>2. Cardinality(S \cap T) = 0 BY FS_EmptySet
<1>3. /\ IsFiniteSet(S \cup T)
      /\ Cardinality(S \cup T) = Cardinality(S) + Cardinality(T) - Cardinality(S \cap T)
  BY FS_Union
<1> QED BY <1>1, <1>2, <1>3

----------------------------------------------------------------------------
(* What was accepted is in one place *)

\* The records handled are those delivered and those given up, each of them once.
Placed ==
  /\ Distinct(log)
  /\ IsFiniteSet(lost) /\ \A r \in lost : \E k \in 1 .. Handed : r = log[k]
  /\ \A k \in 1 .. Handed : log[k] \in Range(exported) \cup lost
  /\ Len(exported) + Cardinality(lost) = Handed

\* The next records that are handled, of which there are n, are given up.
LEMMA GivenUp ==
  ASSUME TypeOK, TypeOK', LogInv, Placed, NEW n \in Nat,
         log' = log, exported' = exported, Handed' = Handed + n, Handed + n <= Len(log),
         lost' = lost \cup {log[Handed + i] : i \in 1 .. n}
  PROVE  Placed'
<1> DEFINE h == Handed
           S == {log[h + i] : i \in 1 .. n}
           next == [i \in 1 .. n |-> log[h + i]]
<1>1. h \in Nat /\ Len(log) \in Nat BY SequenceTypes DEF LogInv, LogEnds, Handed
<1>2. Handed' = h + n /\ h + n <= Len(log) BY DEF h
<1>3. /\ Distinct(log) /\ IsFiniteSet(lost) /\ Len(exported) + Cardinality(lost) = h
      /\ \A r \in lost : \E k \in 1 .. h : r = log[k]
      /\ \A k \in 1 .. h : log[k] \in Range(exported) \cup lost
  BY DEF Placed, h
<1>4. lost' = lost \cup S BY DEF h
<1> HIDE DEF h
<1>5. IsFiniteSet(S) /\ Cardinality(S) = n
  <2>1. next \in Seq(S) /\ Len(next) = n OBVIOUS
  <2>2. Distinct(next)
    <3> SUFFICES ASSUME NEW i \in 1 .. n, NEW j \in 1 .. n, log[h + i] = log[h + j]
                 PROVE  i = j
      BY <2>1 DEF Distinct
    <3>1. h + i \in 1 .. Len(log) /\ h + j \in 1 .. Len(log) BY <1>1, <1>2
    <3>2. h + i = h + j BY <1>3, <3>1 DEF Distinct
    <3> QED BY <1>1, <3>2
  <2>3. Range(next) = S BY DEF Range
  <2> HIDE DEF next
  <2> QED BY <2>1, <2>2, <2>3, DistinctCard
<1>6. lost \cap S = {}
  <2> SUFFICES ASSUME NEW k \in 1 .. h, NEW i \in 1 .. n, log[k] = log[h + i] PROVE FALSE
    BY <1>3
  <2>1. k \in 1 .. Len(log) /\ h + i \in 1 .. Len(log) BY <1>1, <1>2
  <2>2. k = h + i BY <1>3, <2>1 DEF Distinct
  <2> QED BY <1>1, <2>2
<1>7. IsFiniteSet(lost') /\ Cardinality(lost') = Cardinality(lost) + n
  <2> HIDE DEF S
  <2>1. /\ IsFiniteSet(lost \cup S)
        /\ Cardinality(lost \cup S) = Cardinality(lost) + Cardinality(S)
    BY <1>3, <1>5, <1>6, DisjointCard
  <2> QED BY <1>4, <1>5, <2>1
<1>8. \A r \in lost' : \E k \in 1 .. Handed' : r = log'[k]
  <2> SUFFICES ASSUME NEW r \in lost' PROVE \E k \in 1 .. h + n : r = log[k]
    BY <1>2
  <2>1. CASE r \in lost BY <1>1, <1>3, <2>1
  <2>2. CASE r \in S
    <3>1. PICK j \in 1 .. n : r = log[h + j] BY <2>2
    <3>2. h + j \in 1 .. h + n BY <1>1
    <3> QED BY <3>1, <3>2
  <2> QED BY <1>4, <2>1, <2>2
<1>9. \A k \in 1 .. Handed' : log'[k] \in Range(exported') \cup lost'
  <2> SUFFICES ASSUME NEW k \in 1 .. h + n PROVE log[k] \in Range(exported) \cup lost'
    BY <1>2
  <2>1. CASE k <= h BY <1>1, <1>3, <1>4, <2>1
  <2>2. CASE k > h
    <3>1. k - h \in 1 .. n /\ h + (k - h) = k BY <1>1, <2>2
    <3>2. log[k] \in S BY <3>1
    <3> QED BY <1>4, <3>2
  <2> QED BY <1>1, <2>1, <2>2
<1>10. Len(exported') + Cardinality(lost') = Handed'
  <2>1. Cardinality(lost) \in Nat /\ Len(exported) \in Nat
    BY <1>3, FS_CardinalityType, SequenceTypes
  <2>2. Len(exported') = Len(exported) OBVIOUS
  <2>3. Len(exported) + (Cardinality(lost) + n) = h + n BY <1>1, <1>3, <2>1
  <2> QED BY <1>2, <1>7, <2>2, <2>3
<1> QED BY <1>3, <1>7, <1>8, <1>9, <1>10 DEF Placed

\* Steps that only queue, take or leave records: what is handled stays as it is.
LEMMA PlacedKept ==
  ASSUME TypeOK, TypeOK', LogInv, Placed, Distinct(log)', Handed' = Handed,
         exported' = exported, lost' = lost, \A k \in 1 .. Handed : log'[k] = log[k]
  PROVE  Placed'
<1>1. \A r \in lost' : \E k \in 1 .. Handed' : r = log'[k] BY DEF Placed
<1>2. \A k \in 1 .. Handed' : log'[k] \in Range(exported') \cup lost' BY DEF Placed
<1> QED BY <1>1, <1>2 DEF Placed

\* The chunk in the worker's hands is the next of the log.
LEMMA ChunkNext ==
  ASSUME TypeOK, LogInv
  PROVE  /\ Handed \in Nat /\ Len(chunk) \in Nat /\ Handed + Len(chunk) <= Len(log)
         /\ \A i \in 1 .. Len(chunk) : chunk[i] = log[Handed + i]
         /\ Range(chunk) = {log[Handed + i] : i \in 1 .. Len(chunk)}
<1>1. /\ Handed \in Nat /\ Len(chunk) \in Nat /\ Handed + Len(chunk) <= Len(log)
      /\ \A i \in 1 .. Len(chunk) : chunk[i] = log[Handed + i]
  BY SequenceTypes DEF LogInv, LogEnds, Handed
<1>2. DOMAIN chunk = 1 .. Len(chunk) BY SequenceTypes, LenProperties
<1>3. Range(chunk) = {chunk[i] : i \in 1 .. Len(chunk)} BY <1>2 DEF Range
<1> QED BY <1>1, <1>3

\* A chunk is given up or lost.
LEMMA LostPlaced ==
  ASSUME TypeOK, TypeOK', LogInv, Placed, queue' = queue, log' = log, chunk' = << >>,
         exported' = exported, lost' = lost \cup Range(chunk)
  PROVE  Placed'
<1>1. /\ Handed \in Nat /\ Len(chunk) \in Nat /\ Handed + Len(chunk) <= Len(log)
      /\ Range(chunk) = {log[Handed + i] : i \in 1 .. Len(chunk)}
  BY ChunkNext
<1>2. Handed' = Handed + Len(chunk)
  <2>1. Len(chunk') = 0 BY SequenceTypes
  <2> QED BY <2>1, SequenceTypes DEF Handed
<1> QED BY <1>1, <1>2, GivenUp

\* Of the n records behind the first h: those at the places `at`, all, and the others.
PickedOf(recs, h, k, at) == {recs[h + at[i]] : i \in 1 .. k}
AllOf(recs, h, n) == {recs[h + i] : i \in 1 .. n}
LeftOf(recs, h, n, at) == {recs[h + i] : i \in (1 .. n) \ Range(at)}

\* Each of them is picked or left, and as many are left as are not picked.
LEMMA PickedOrLeft ==
  ASSUME NEW S, NEW recs \in Seq(S), Distinct(recs), NEW h \in Nat, NEW n \in Nat,
         h + n <= Len(recs), NEW k \in Nat, NEW at \in Ascending(k, n)
  PROVE  /\ IsFiniteSet(LeftOf(recs, h, n, at)) /\ Cardinality(LeftOf(recs, h, n, at)) + k = n
         /\ PickedOf(recs, h, k, at) \cup LeftOf(recs, h, n, at) = AllOf(recs, h, n)
<1> DEFINE picked == {recs[h + at[i]] : i \in 1 .. k}
           left == {recs[h + i] : i \in (1 .. n) \ Range(at)}
           all == {recs[h + i] : i \in 1 .. n}
           allSeq == [i \in 1 .. n |-> recs[h + i]]
           pickedSeq == [i \in 1 .. k |-> recs[h + at[i]]]
<1>0. /\ at \in [1 .. k -> 1 .. n]
      /\ \A i, j \in 1 .. k : i < j => at[i] < at[j]
  BY DEF Ascending
<1>1. Len(recs) \in Nat /\ \A i, j \in 1 .. n : recs[h + i] = recs[h + j] => i = j
  <2>1. Len(recs) \in Nat BY LenProperties
  <2> SUFFICES ASSUME NEW i \in 1 .. n, NEW j \in 1 .. n, recs[h + i] = recs[h + j]
               PROVE  i = j
    BY <2>1
  <2>2. h + i \in 1 .. Len(recs) /\ h + j \in 1 .. Len(recs) BY <2>1
  <2>3. h + i = h + j BY <2>2 DEF Distinct
  <2> QED BY <2>3
<1>2. \A i, j \in 1 .. k : at[i] = at[j] => i = j
  <2> SUFFICES ASSUME NEW i \in 1 .. k, NEW j \in 1 .. k, at[i] = at[j] PROVE i = j
    OBVIOUS
  <2>1. ~(i < j) /\ ~(j < i) BY <1>0
  <2> QED BY <2>1
<1>3. Range(at) = {at[i] : i \in 1 .. k} /\ \A i \in 1 .. k : at[i] \in 1 .. n BY <1>0 DEF Range
<1>4. IsFiniteSet(all) /\ Cardinality(all) = n
  <2>1. allSeq \in Seq(all) /\ Len(allSeq) = n
    <3>1. \A i \in 1 .. n : recs[h + i] \in all OBVIOUS
    <3> HIDE DEF all
    <3> QED BY <3>1
  <2>2. Distinct(allSeq) BY <1>1, <2>1 DEF Distinct
  <2>3. Range(allSeq) = all BY DEF Range
  <2> HIDE DEF allSeq, all
  <2> QED BY <2>1, <2>2, <2>3, DistinctCard
<1>5. IsFiniteSet(picked) /\ Cardinality(picked) = k
  <2>1. pickedSeq \in Seq(picked) /\ Len(pickedSeq) = k OBVIOUS
  <2>2. Distinct(pickedSeq)
    <3> SUFFICES ASSUME NEW i \in 1 .. k, NEW j \in 1 .. k,
                        recs[h + at[i]] = recs[h + at[j]]
                 PROVE  i = j
      BY <2>1 DEF Distinct
    <3>1. at[i] = at[j] BY <1>1, <1>3
    <3> QED BY <1>2, <3>1
  <2>3. Range(pickedSeq) = picked BY DEF Range
  <2> HIDE DEF pickedSeq, picked
  <2> QED BY <2>1, <2>2, <2>3, DistinctCard
<1>6. picked \cup left = all
  <2>1. ASSUME NEW i \in 1 .. n PROVE recs[h + i] \in picked \cup left
    <3>1. CASE i \in Range(at)
      <4>1. PICK j \in 1 .. k : i = at[j] BY <1>3, <3>1
      <4>2. recs[h + at[j]] \in picked OBVIOUS
      <4> QED BY <4>1, <4>2
    <3>2. CASE i \notin Range(at)
      <4>1. recs[h + i] \in left BY <3>2
      <4> QED BY <4>1
    <3> QED BY <3>1, <3>2
  <2>2. picked \subseteq all BY <1>3
  <2>3. left \subseteq all OBVIOUS
  <2>4. all \subseteq picked \cup left BY <2>1
  <2> QED BY <2>2, <2>3, <2>4
<1>7. picked \cap left = {}
  <2> SUFFICES ASSUME NEW i \in 1 .. k, NEW j \in (1 .. n) \ Range(at),
                      recs[h + at[i]] = recs[h + j]
               PROVE  FALSE
    OBVIOUS
  <2>1. at[i] = j BY <1>1, <1>3
  <2> QED BY <1>3, <2>1
<1> HIDE DEF picked, left, all
<1>9. IsFiniteSet(left)
  <2>1. left \subseteq all BY <1>6
  <2> QED BY <1>4, <2>1, FS_Subset
<1>10. Cardinality(left) \in Nat /\ n = k + Cardinality(left)
  BY <1>4, <1>5, <1>6, <1>7, <1>9, DisjointCard
<1>11. Cardinality(left) + k = n BY <1>10
<1> QED BY <1>6, <1>9, <1>11 DEF picked, left, all, PickedOf, LeftOf, AllOf

\* What decodes of a chunk is delivered, the others are given up.
LEMMA DeliveredPlaced ==
  ASSUME KeepHistory, TypeOK, TypeOK', LogInv, Placed,
         queue' = queue, log' = log, chunk' = << >>,
         NEW k \in 1 .. Len(chunk), NEW at \in Ascending(k, Len(chunk)), Delivered(k, at)
  PROVE  Placed'
<1> DEFINE h == Handed
           n == Len(chunk)
           given == [i \in 1 .. k |-> chunk[at[i]]]
           picked == PickedOf(log, h, k, at)
           left == LeftOf(log, h, n, at)
<1>1. /\ h \in Nat /\ n \in Nat /\ h + n <= Len(log)
      /\ \A i \in 1 .. n : chunk[i] = log[h + i]
  BY ChunkNext
<1>2. Handed' = h + n
  <2>1. Len(chunk') = 0 BY SequenceTypes
  <2> QED BY <2>1, SequenceTypes DEF Handed
<1>3. /\ k \in Nat /\ at \in [1 .. k -> 1 .. n]
      /\ \A i, j \in 1 .. k : i < j => at[i] < at[j]
  BY SequenceTypes DEF Ascending
<1>4. given \in Seq(Records) /\ Len(given) = k BY <1>3, PickedType, SequenceTypes
<1>5. Range(given) = picked
  <2>1. \A i \in 1 .. k : at[i] \in 1 .. n BY <1>3
  <2>2. \A i \in 1 .. k : given[i] = log[h + at[i]] BY <1>1, <2>1
  <2>3. DOMAIN given = 1 .. k OBVIOUS
  <2> HIDE DEF given, h, n
  <2>4. Range(given) = {given[i] : i \in 1 .. k} BY ONLY <2>3 DEF Range
  <2> QED BY ONLY <2>2, <2>4 DEF picked, PickedOf
<1>6. {chunk[i] : i \in DOMAIN chunk \ Range(at)} = left
  <2>1. DOMAIN chunk = 1 .. n BY SequenceTypes, LenProperties
  <2> QED BY <1>1, <2>1 DEF LeftOf
<1>7. exported' = exported \o given /\ lost' = lost \cup left BY <1>6 DEF Delivered
<1>8. Distinct(log) /\ log \in Seq(Records) BY SequenceTypes DEF Placed
<1>9. /\ IsFiniteSet(left) /\ Cardinality(left) + k = n
      /\ picked \cup left = AllOf(log, h, n)
  <2>1. at \in Ascending(k, n) OBVIOUS
  <2> HIDE DEF h, n
  <2>2. /\ log \in Seq(Records) /\ Distinct(log) /\ h \in Nat /\ n \in Nat /\ h + n <= Len(log)
        /\ k \in Nat /\ at \in Ascending(k, n)
    BY <1>1, <1>3, <1>8, <2>1
  <2> QED BY ONLY <2>2, PickedOrLeft
<1> HIDE DEF given, picked, h, n
<1>10. /\ Len(exported') = Len(exported) + k
       /\ Range(exported') = Range(exported) \cup picked
  <2>1. exported \in Seq(Records) BY SequenceTypes
  <2>2. Len(exported \o given) = Len(exported) + k BY ONLY <1>4, <2>1, ConcatProperties
  <2>3. Range(exported \o given) = Range(exported) \cup Range(given)
    BY ONLY <1>4, <2>1, ConcatRange
  <2> QED BY ONLY <1>5, <1>7, <2>2, <2>3
<1>11. lost \cap left = {}
  <2> SUFFICES ASSUME NEW r \in lost, r \in left PROVE FALSE OBVIOUS
  <2>1. PICK i \in 1 .. h : r = log[i] BY DEF Placed, h
  <2>2. PICK j \in 1 .. n : r = log[h + j] BY DEF LeftOf
  <2>3. i \in 1 .. Len(log) /\ h + j \in 1 .. Len(log) BY <1>1, SequenceTypes
  <2>4. i = h + j BY <1>8, <2>1, <2>2, <2>3 DEF Distinct
  <2> QED BY <1>1, <2>4
<1> HIDE DEF left
<1>12. /\ IsFiniteSet(lost) /\ Len(exported) + Cardinality(lost) = h
       /\ \A r \in lost : \E i \in 1 .. h : r = log[i]
       /\ \A i \in 1 .. h : log[i] \in Range(exported) \cup lost
  BY DEF Placed, h
<1>13. /\ IsFiniteSet(lost') /\ Cardinality(lost) \in Nat /\ Cardinality(left) \in Nat
       /\ Cardinality(lost') = Cardinality(lost) + Cardinality(left)
  BY <1>7, <1>9, <1>11, <1>12, DisjointCard
<1>14. \A r \in lost' : \E i \in 1 .. Handed' : r = log'[i]
  <2> SUFFICES ASSUME NEW r \in lost \cup left PROVE \E i \in 1 .. h + n : r = log[i]
    BY <1>2, <1>7
  <2>1. CASE r \in lost BY <1>1, <1>12, <2>1
  <2>2. CASE r \in left
    <3>1. PICK i \in 1 .. n : r = log[h + i] BY <1>9, <2>2 DEF AllOf
    <3>2. h + i \in 1 .. h + n BY <1>1
    <3> QED BY <3>1, <3>2
  <2> QED BY <2>1, <2>2
<1>15. \A i \in 1 .. Handed' : log'[i] \in Range(exported') \cup lost'
  <2> SUFFICES ASSUME NEW i \in 1 .. h + n
               PROVE  log[i] \in (Range(exported) \cup picked) \cup (lost \cup left)
    BY <1>2, <1>7, <1>10
  <2>1. CASE i <= h BY <1>1, <1>12, <2>1
  <2>2. CASE i > h
    <3>1. i - h \in 1 .. n /\ h + (i - h) = i BY <1>1, <2>2
    <3>2. log[i] \in AllOf(log, h, n) BY <3>1 DEF AllOf
    <3> QED BY <1>9, <3>2
  <2> QED BY <1>1, <2>1, <2>2
<1>16. Len(exported') + Cardinality(lost') = Handed'
  <2> DEFINE e == Len(exported)
             l == Cardinality(lost)
             f == Cardinality(left)
  <2>1. e \in Nat BY SequenceTypes
  <2>2. l \in Nat /\ f \in Nat /\ f + k = n /\ e + l = h BY <1>9, <1>12, <1>13
  <2> HIDE DEF e, l, f
  <2>3. (e + k) + (l + f) = h + n BY <1>3, <2>1, <2>2
  <2> QED BY <1>2, <1>10, <1>13, <2>3 DEF e, l, f
<1>17. Distinct(log)' BY DEF Placed, Distinct
<1> QED BY <1>13, <1>14, <1>15, <1>16, <1>17 DEF Placed

\* A chunk is taken, or given up because nothing of it decodes.
LEMMA TakePlaced ==
  ASSUME KeepHistory, TypeOK, TypeOK', LogInv, Placed, chunk = << >>,
         NEW whenEmpty, NEW whenTaken, Take(whenEmpty, whenTaken)
  PROVE  Placed'
<1>1. log' = log /\ exported' = exported /\ queue' = Remaining
  BY DEF Take
<1>2. Len(chunk) = 0 BY SequenceTypes
<1>3. /\ Len(Oldest) \in 0 .. Len(queue)
      /\ Len(Remaining) = Len(queue) - Len(Oldest)
      /\ \A i \in 1 .. Len(Oldest) : Oldest[i] = queue[i]
  BY OldestSplit
<1>4. Handed \in Nat /\ Handed + Len(queue) = Len(log)
  BY <1>2, SequenceTypes DEF Handed, LogInv, LogEnds
<1>5. \A i \in 1 .. Len(queue) : queue[i] = log[Handed + i]
  BY <1>2, <1>4, SequenceTypes DEF LogInv, LogEnds
<1>6. Distinct(log)' BY <1>1 DEF Placed, Distinct
<1>7. CASE Oldest = << >> /\ chunk' = chunk /\ lost' = lost
  <2>1. Len(Oldest) = 0 BY <1>7, SequenceTypes
  <2>2. Handed' = Handed BY <1>1, <1>2, <1>3, <1>7, <2>1, SequenceTypes DEF Handed
  <2> QED BY <1>1, <1>6, <1>7, <2>2, PlacedKept
<1>8. CASE chunk' = Oldest /\ lost' = lost
  <2>1. Handed' = Handed BY <1>1, <1>2, <1>3, <1>4, <1>8, SequenceTypes DEF Handed
  <2> QED BY <1>1, <1>6, <1>8, <2>1, PlacedKept
<1>9. CASE chunk' = chunk /\ lost' = lost \cup Range(Oldest)
  <2> DEFINE n == Len(Oldest)
  <2>1. n \in Nat /\ Handed' = Handed + n /\ Handed + n <= Len(log)
    BY <1>1, <1>2, <1>3, <1>4, <1>9, SequenceTypes DEF Handed
  <2>2. DOMAIN Oldest = 1 .. n
    <3>1. SharedType BY DEF TypeOK
    <3>2. Oldest \in Seq(Records) BY <3>1, OldestType
    <3> QED BY <3>2, LenProperties
  <2>3. \A i \in 1 .. n : Oldest[i] = log[Handed + i]
    <3> TAKE i \in 1 .. n
    <3>1. i \in 1 .. Len(queue) BY <1>3, SequenceTypes
    <3> QED BY <1>3, <1>5, <3>1
  <2>4. Range(Oldest) = {log[Handed + i] : i \in 1 .. n} BY <2>2, <2>3 DEF Range
  <2> HIDE DEF n
  <2> QED BY <1>1, <1>9, <2>1, <2>4, GivenUp
<1> QED BY <1>7, <1>8, <1>9 DEF Take

----------------------------------------------------------------------------
(* What is published is on its way, accepted, or refused *)

\* The records of the statements published so far.
Issued == (1 .. statements) \X (1 .. MaxSpans + 1)

\* The batch of b is still to be queued, or to be counted as dropped.
Open(b) == pc[b] = "push" \/ pc[b] = "drop"

\* No record is accepted and refused, and none of those on their way is on another way.
Apart ==
  /\ Range(log) \subseteq Issued /\ refused \subseteq Issued
  /\ Range(log) \cap refused = {}
  /\ \A b \in Backends : Open(b) => Distinct(batch[b]) /\ Range(batch[b]) \subseteq Issued
  /\ \A b \in Backends : pc[b] = "push" => Range(batch[b]) \cap (Range(log) \cup refused) = {}
  /\ \A b \in Backends : pc[b] = "drop" => Range(batch[b]) \subseteq refused
  /\ \A b, c \in Backends :
       b # c /\ Open(b) /\ Open(c) => Range(batch[b]) \cap Range(batch[c]) = {}

\* The count of dropped spans lacks only those of batches that are about to be counted.
Counted == dropped + Cardinality(Uncounted) = Cardinality(refused)

\* There are not so many records that the count of dropped ones stops.
LEMMA IssuedBound ==
  ASSUME MaxDropped >= MaxStatements * (MaxSpans + 1), NEW n \in 0 .. MaxStatements,
         NEW S \in SUBSET ((1 .. n) \X (1 .. MaxSpans + 1))
  PROVE  IsFiniteSet(S) /\ Cardinality(S) \in 0 .. MaxDropped
<1> DEFINE m == MaxSpans + 1
<1>1. MaxStatements \in Nat /\ m \in Nat /\ MaxDropped \in Nat /\ n \in Nat
  BY ExportAssumption
<1>2. MaxStatements * m <= MaxDropped OBVIOUS
<1>3. S \subseteq (1 .. n) \X (1 .. m) OBVIOUS
<1> HIDE DEF m
<1>4. IsFiniteSet(1 .. n) /\ Cardinality(1 .. n) = n BY <1>1, FS_Interval
<1>5. IsFiniteSet(1 .. m) /\ Cardinality(1 .. m) = m BY <1>1, FS_Interval
<1>6. IsFiniteSet((1 .. n) \X (1 .. m)) /\ Cardinality((1 .. n) \X (1 .. m)) = n * m
  BY <1>4, <1>5, FS_Product
<1>7. IsFiniteSet(S) /\ Cardinality(S) <= n * m BY <1>3, <1>6, FS_Subset
<1>8. Cardinality(S) \in Nat BY <1>7, FS_CardinalityType
<1>9. n * m \in Int /\ MaxStatements * m \in Int /\ n * m <= MaxStatements * m BY <1>1
<1> QED BY <1>1, <1>2, <1>7, <1>8, <1>9

\* Steps that neither publish, queue nor drop.
LEMMA ApartKept ==
  ASSUME Apart, UNCHANGED <<statements, log, refused, batch>>,
         \A b \in Backends : pc'[b] = pc[b] \/ ~(Open(b) \/ Open(b)')
  PROVE  Apart' /\ Uncounted' = Uncounted
<1>1. ASSUME NEW b \in Backends PROVE Open(b)' <=> Open(b) BY DEF Open
<1>2. Issued' = Issued BY DEF Issued
<1>3. Apart'
  <2>1. /\ Range(log)' = Range(log) /\ refused' = refused
        /\ \A b \in Backends : batch'[b] = batch[b]
    OBVIOUS
  <2>2. \A b \in Backends : Distinct(batch[b]) => Distinct(batch[b])' BY <2>1 DEF Distinct
  <2>3. Range(log') \subseteq Issued' /\ refused' \subseteq Issued' /\ Range(log') \cap refused' = {}
    BY <1>2, <2>1 DEF Apart
  <2>4. \A b \in Backends : Open(b)' => Distinct(batch[b])' /\ Range(batch'[b]) \subseteq Issued'
    BY <1>1, <1>2, <2>1, <2>2 DEF Apart
  <2>5. \A b \in Backends :
          /\ pc'[b] = "push" => Range(batch'[b]) \cap (Range(log') \cup refused') = {}
          /\ pc'[b] = "drop" => Range(batch'[b]) \subseteq refused'
    BY <2>1 DEF Apart, Open
  <2>6. \A b, c \in Backends :
          b # c /\ Open(b)' /\ Open(c)' => Range(batch'[b]) \cap Range(batch'[c]) = {}
    BY <1>1, <2>1 DEF Apart
  <2> QED BY <2>3, <2>4, <2>5, <2>6 DEF Apart
<1>4. Uncounted' = Uncounted
  <2>1. ASSUME NEW b \in Backends PROVE pc'[b] = "drop" <=> pc[b] = "drop" BY DEF Open
  <2>2. {b \in Backends : pc'[b] = "drop"} = {b \in Backends : pc[b] = "drop"} BY <2>1
  <2> QED BY <2>2 DEF Uncounted
<1> QED BY <1>3, <1>4

\* A statement's records are new.
LEMMA PublishApart ==
  ASSUME KeepHistory, TypeOK, TypeOK', Apart, NEW b \in Backends, NEW n \in 0 .. MaxSpans,
         NEW skipped \in 0 .. 1, Publish(b, n, skipped)
  PROVE  /\ Apart' /\ Uncounted' = Uncounted
         /\ \E N : /\ IsFiniteSet(N) /\ Cardinality(N) = skipped
                  /\ refused' = refused \cup N /\ refused \cap N = {}
<1> DEFINE s == statements + 1
           N == {<<s, n + i>> : i \in 1 .. skipped}
           B == [i \in 1 .. n |-> <<s, i>>]
<1>1. /\ statements' = s /\ log' = log /\ pc[b] = "idle"
      /\ batch' = [batch EXCEPT ![b] = B]
      /\ pc' = [pc EXCEPT ![b] = IF n = 0 THEN "idle" ELSE "push"]
      /\ refused' = refused \cup N
  BY DEF Publish, Span
<1>2. statements \in Nat /\ MaxSpans \in Nat /\ n \in Nat
  BY ExportAssumption DEF TypeOK, AccountsType
<1>3. /\ batch'[b] = B /\ (pc'[b] = "idle" \/ pc'[b] = "push")
      /\ \A c \in Backends \ {b} : batch'[c] = batch[c] /\ pc'[c] = pc[c]
  BY <1>1 DEF TypeOK, BackendsType
<1>4. Issued \subseteq Issued'
  <2>1. 1 .. statements \subseteq 1 .. s BY <1>2
  <2> QED BY <1>1, <2>1 DEF Issued
<1>5. N \subseteq Issued' /\ N \cap Issued = {}
  <2> SUFFICES ASSUME NEW i \in 1 .. skipped
               PROVE  <<s, n + i>> \in Issued' /\ <<s, n + i>> \notin Issued
    OBVIOUS
  <2>1. s \in 1 .. s /\ s \notin 1 .. statements /\ n + i \in 1 .. MaxSpans + 1
    BY <1>2
  <2> QED BY <1>1, <2>1 DEF Issued
<1>6. Range(B) = {<<s, i>> : i \in 1 .. n} BY DEF Range
<1>7. Range(B) \subseteq Issued' /\ Range(B) \cap Issued = {}
  <2> SUFFICES ASSUME NEW i \in 1 .. n
               PROVE  <<s, i>> \in Issued' /\ <<s, i>> \notin Issued
    BY <1>6
  <2>1. s \in 1 .. s /\ s \notin 1 .. statements /\ i \in 1 .. MaxSpans + 1
    BY <1>2
  <2> QED BY <1>1, <2>1 DEF Issued
<1>8. Range(B) \cap N = {}
  <2> SUFFICES ASSUME NEW i \in 1 .. n, NEW j \in 1 .. skipped, <<s, i>> = <<s, n + j>>
               PROVE  FALSE
    BY <1>6
  <2> QED BY <1>2
<1>9. Distinct(B)
  <2>1. Len(B) = n BY <1>2
  <2> QED BY <2>1 DEF Distinct
<1>10. IsFiniteSet(N) /\ Cardinality(N) = skipped
  <2>1. CASE skipped = 0
    <3>1. N = {} BY <2>1
    <3> HIDE DEF N
    <3> QED BY <2>1, <3>1, FS_EmptySet
  <2>2. CASE skipped = 1
    <3>1. N = {<<s, n + 1>>} BY <2>2
    <3> HIDE DEF N
    <3> QED BY <2>2, <3>1, FS_Singleton
  <2> QED BY <2>1, <2>2
<1> HIDE DEF s, N, B
<1>11. refused \cap N = {} BY <1>5 DEF Apart
<1>12. Apart'
  <2>1. /\ Range(log)' \subseteq Issued' /\ refused' \subseteq Issued'
        /\ Range(log)' \cap refused' = {}
    BY <1>1, <1>4, <1>5 DEF Apart
  <2>2. ASSUME NEW c \in Backends, Open(c)'
        PROVE  Distinct(batch[c])' /\ Range(batch'[c]) \subseteq Issued'
    <3>1. CASE c = b
      <4>1. Distinct(batch[c])' BY <1>3, <1>9, <3>1 DEF Distinct
      <4> QED BY <1>3, <1>7, <3>1, <4>1
    <3>2. CASE c # b
      <4>1. batch'[c] = batch[c] /\ Open(c) BY <1>3, <2>2, <3>2 DEF Open
      <4>2. Distinct(batch[c])' BY <4>1 DEF Apart, Distinct
      <4> QED BY <1>4, <4>1, <4>2 DEF Apart
    <3> QED BY <3>1, <3>2
  <2>3. ASSUME NEW c \in Backends, pc'[c] = "push"
        PROVE  Range(batch'[c]) \cap (Range(log') \cup refused') = {}
    <3>1. CASE c = b BY <1>1, <1>3, <1>7, <1>8, <3>1 DEF Apart
    <3>2. CASE c # b
      <4>1. batch'[c] = batch[c] /\ pc[c] = "push" /\ Open(c) BY <1>3, <2>3, <3>2 DEF Open
      <4> QED BY <1>1, <1>5, <4>1 DEF Apart
    <3> QED BY <3>1, <3>2
  <2>4. ASSUME NEW c \in Backends, pc'[c] = "drop" PROVE Range(batch'[c]) \subseteq refused'
    BY <1>1, <1>3, <2>4 DEF Apart
  <2>5. ASSUME NEW c \in Backends, NEW d \in Backends, c # d, Open(c)', Open(d)'
        PROVE  Range(batch'[c]) \cap Range(batch'[d]) = {}
    <3>1. ASSUME NEW e \in Backends, e # b, Open(e)'
          PROVE  batch'[e] = batch[e] /\ Open(e) /\ Range(batch[e]) \subseteq Issued
      BY <1>3, <3>1 DEF Open, Apart
    <3> QED BY <1>3, <1>7, <2>5, <3>1 DEF Apart
  <2> QED BY <2>1, <2>2, <2>3, <2>4, <2>5 DEF Apart
<1>13. Uncounted' = Uncounted
  <2>1. {c \in Backends : pc'[c] = "drop"} = {c \in Backends : pc[c] = "drop"}
    BY <1>1, <1>3
  <2>2. \A c \in Backends : pc[c] = "drop" => batch'[c] = batch[c] BY <1>1, <1>3
  <2> QED BY <2>1, <2>2 DEF Uncounted
<1> QED BY <1>1, <1>10, <1>11, <1>12, <1>13

\* The backends other than b, in a step of b.
LEMMA OthersApart ==
  ASSUME Apart, NEW b \in Backends, statements' = statements,
         \A c \in Backends \ {b} : batch'[c] = batch[c] /\ pc'[c] = pc[c]
  PROVE  \A c \in Backends \ {b} :
           /\ Open(c)' => Open(c) /\ Distinct(batch[c])' /\ Range(batch'[c]) \subseteq Issued'
           /\ \A d \in Backends \ {b} :
                c # d /\ Open(c)' /\ Open(d)' => Range(batch'[c]) \cap Range(batch'[d]) = {}
<1>1. Issued' = Issued BY DEF Issued
<1>2. ASSUME NEW c \in Backends \ {b}, Open(c)'
      PROVE  Open(c) /\ Distinct(batch[c])' /\ Range(batch'[c]) \subseteq Issued'
  <2>1. Open(c) BY <1>2 DEF Open
  <2>2. Distinct(batch[c])' BY <2>1 DEF Apart, Distinct
  <2> QED BY <1>1, <2>1, <2>2 DEF Apart
<1>3. ASSUME NEW c \in Backends \ {b}, NEW d \in Backends \ {b}, c # d, Open(c)', Open(d)'
      PROVE  Range(batch'[c]) \cap Range(batch'[d]) = {}
  BY <1>2, <1>3 DEF Apart
<1> QED BY <1>2, <1>3

\* A batch that fits becomes part of the log.
LEMMA AcceptApart ==
  ASSUME KeepHistory, TypeOK, TypeOK', Apart, NEW b \in Backends, Push(b), Fits(batch[b])
  PROVE  /\ Apart' /\ refused' = refused /\ Uncounted' = Uncounted
         /\ Distinct(batch[b]) /\ Range(batch[b]) \cap Range(log) = {}
<1>1. /\ statements' = statements /\ refused' = refused /\ log' = log \o batch[b]
      /\ pc[b] = "push" /\ pc'[b] \in {"load", "idle"}
      /\ \A c \in Backends \ {b} : batch'[c] = batch[c] /\ pc'[c] = pc[c]
  BY DEF Push, TypeOK, BackendsType
<1>2. Open(b) /\ ~Open(b)' BY <1>1 DEF Open
<1>3. /\ Distinct(batch[b]) /\ Range(batch[b]) \subseteq Issued
      /\ Range(batch[b]) \cap (Range(log) \cup refused) = {}
  BY <1>1, <1>2 DEF Apart
<1>4. Range(log') = Range(log) \cup Range(batch[b])
  <2>1. batch[b] \in Seq(Records) BY DEF TypeOK, BackendsType
  <2> QED BY <1>1, <2>1, SequenceTypes, ConcatRange
<1>5. Issued' = Issued BY <1>1 DEF Issued
<1>6. \A c \in Backends \ {b} :
        /\ Open(c)' => Open(c) /\ Distinct(batch[c])' /\ Range(batch'[c]) \subseteq Issued'
        /\ \A d \in Backends \ {b} :
             c # d /\ Open(c)' /\ Open(d)' => Range(batch'[c]) \cap Range(batch'[d]) = {}
  BY <1>1, OthersApart
<1>7. Apart'
  <2>1. /\ Range(log)' \subseteq Issued' /\ refused' \subseteq Issued'
        /\ Range(log)' \cap refused' = {}
    BY <1>1, <1>3, <1>4, <1>5 DEF Apart
  <2>2. \A c \in Backends : Open(c)' => Distinct(batch[c])' /\ Range(batch'[c]) \subseteq Issued'
    BY <1>2, <1>6
  <2>3. ASSUME NEW c \in Backends, pc'[c] = "push"
        PROVE  Range(batch'[c]) \cap (Range(log') \cup refused') = {}
    <3>1. c # b /\ batch'[c] = batch[c] /\ pc[c] = "push" /\ Open(c)
      BY <1>1, <2>3 DEF Open
    <3> QED BY <1>1, <1>2, <1>4, <3>1 DEF Apart
  <2>4. ASSUME NEW c \in Backends, pc'[c] = "drop" PROVE Range(batch'[c]) \subseteq refused'
    BY <1>1, <2>4 DEF Apart
  <2>5. \A c, d \in Backends :
          c # d /\ Open(c)' /\ Open(d)' => Range(batch'[c]) \cap Range(batch'[d]) = {}
    BY <1>2, <1>6
  <2> QED BY <2>1, <2>2, <2>3, <2>4, <2>5 DEF Apart
<1>8. Uncounted' = Uncounted
  <2>1. {c \in Backends : pc'[c] = "drop"} = {c \in Backends : pc[c] = "drop"} BY <1>1
  <2>2. \A c \in Backends : pc[c] = "drop" => batch'[c] = batch[c] BY <1>1
  <2> QED BY <2>1, <2>2 DEF Uncounted
<1> QED BY <1>1, <1>3, <1>7, <1>8

\* A batch that does not fit is refused, and still to be counted.
LEMMA RefuseApart ==
  ASSUME KeepHistory, TypeOK, TypeOK', Apart, NEW b \in Backends, Push(b), ~Fits(batch[b])
  PROVE  /\ Apart' /\ log' = log /\ refused' = refused \cup Range(batch[b])
         /\ Uncounted' = Uncounted \cup Range(batch[b])
         /\ refused \cap Range(batch[b]) = {}
<1>1. /\ statements' = statements /\ refused' = refused \cup Range(batch[b]) /\ log' = log
      /\ pc[b] = "push" /\ pc'[b] = "drop" /\ batch' = batch
      /\ \A c \in Backends \ {b} : batch'[c] = batch[c] /\ pc'[c] = pc[c]
  BY DEF Push, TypeOK, BackendsType
<1>2. Open(b) BY <1>1 DEF Open
<1>3. /\ Distinct(batch[b]) /\ Range(batch[b]) \subseteq Issued
      /\ Range(batch[b]) \cap (Range(log) \cup refused) = {}
  BY <1>1, <1>2 DEF Apart
<1>4. Issued' = Issued BY <1>1 DEF Issued
<1>5. \A c \in Backends : Open(c)' => Open(c) BY <1>1, <1>2 DEF Open
<1>6. Apart'
  <2>1. /\ Range(log)' \subseteq Issued' /\ refused' \subseteq Issued'
        /\ Range(log)' \cap refused' = {}
    BY <1>1, <1>3, <1>4 DEF Apart
  <2>2. ASSUME NEW c \in Backends, Open(c)'
        PROVE  Distinct(batch[c])' /\ Range(batch'[c]) \subseteq Issued'
    <3>1. Distinct(batch[c])' BY <1>1, <1>5, <2>2 DEF Apart, Distinct
    <3> QED BY <1>1, <1>4, <1>5, <2>2, <3>1 DEF Apart
  <2>3. ASSUME NEW c \in Backends, pc'[c] = "push"
        PROVE  Range(batch'[c]) \cap (Range(log') \cup refused') = {}
    <3>1. c # b /\ pc[c] = "push" /\ Open(c) BY <1>1, <2>3 DEF Open
    <3> QED BY <1>1, <1>2, <3>1 DEF Apart
  <2>4. ASSUME NEW c \in Backends, pc'[c] = "drop" PROVE Range(batch'[c]) \subseteq refused'
    BY <1>1, <2>4 DEF Apart
  <2>5. \A c, d \in Backends :
          c # d /\ Open(c)' /\ Open(d)' => Range(batch'[c]) \cap Range(batch'[d]) = {}
    BY <1>1, <1>5 DEF Apart
  <2> QED BY <2>1, <2>2, <2>3, <2>4, <2>5 DEF Apart
<1>7. Uncounted' = Uncounted \cup Range(batch[b])
  <2>1. {c \in Backends : pc'[c] = "drop"} = {c \in Backends : pc[c] = "drop"} \cup {b}
    BY <1>1
  <2> QED BY <1>1, <2>1 DEF Uncounted
<1> QED BY <1>1, <1>3, <1>6, <1>7

\* The spans of a refused batch are counted.
LEMMA CountApart ==
  ASSUME TypeOK, TypeOK', Apart, NEW b \in Backends, CountDropped(b)
  PROVE  /\ Apart' /\ log' = log /\ refused' = refused
         /\ Distinct(batch[b]) /\ Range(batch[b]) \subseteq refused
         /\ Uncounted = Uncounted' \cup Range(batch[b])
         /\ Uncounted' \cap Range(batch[b]) = {}
<1>1. /\ statements' = statements /\ refused' = refused /\ log' = log
      /\ pc[b] = "drop" /\ pc'[b] = "idle"
      /\ \A c \in Backends \ {b} : batch'[c] = batch[c] /\ pc'[c] = pc[c]
  BY DEF CountDropped, accounts, TypeOK, BackendsType
<1>2. Open(b) /\ ~Open(b)' BY <1>1 DEF Open
<1>3. Distinct(batch[b]) /\ Range(batch[b]) \subseteq refused
  BY <1>1, <1>2 DEF Apart
<1>4. Issued' = Issued BY <1>1 DEF Issued
<1>5. \A c \in Backends \ {b} :
        /\ Open(c)' => Open(c) /\ Distinct(batch[c])' /\ Range(batch'[c]) \subseteq Issued'
        /\ \A d \in Backends \ {b} :
             c # d /\ Open(c)' /\ Open(d)' => Range(batch'[c]) \cap Range(batch'[d]) = {}
  BY <1>1, OthersApart
<1>6. Apart'
  <2>1. /\ Range(log)' \subseteq Issued' /\ refused' \subseteq Issued'
        /\ Range(log)' \cap refused' = {}
    BY <1>1, <1>4 DEF Apart
  <2>2. \A c \in Backends : Open(c)' => Distinct(batch[c])' /\ Range(batch'[c]) \subseteq Issued'
    BY <1>2, <1>5
  <2>3. \A c \in Backends :
          /\ pc'[c] = "push" => Range(batch'[c]) \cap (Range(log') \cup refused') = {}
          /\ pc'[c] = "drop" => Range(batch'[c]) \subseteq refused'
    BY <1>1 DEF Apart
  <2>4. \A c, d \in Backends :
          c # d /\ Open(c)' /\ Open(d)' => Range(batch'[c]) \cap Range(batch'[d]) = {}
    BY <1>2, <1>5
  <2> QED BY <2>1, <2>2, <2>3, <2>4 DEF Apart
<1>7. {c \in Backends : pc[c] = "drop"} = {c \in Backends : pc'[c] = "drop"} \cup {b}
  BY <1>1
<1>8. \A c \in Backends : pc'[c] = "drop" => c # b /\ batch'[c] = batch[c] /\ Open(c)
  BY <1>1 DEF Open
<1>9. Uncounted = Uncounted' \cup Range(batch[b]) BY <1>7, <1>8 DEF Uncounted
<1>10. Uncounted' \cap Range(batch[b]) = {}
  <2> SUFFICES ASSUME NEW c \in Backends, pc'[c] = "drop"
               PROVE  Range(batch'[c]) \cap Range(batch[b]) = {}
    BY DEF Uncounted
  <2> QED BY <1>2, <1>8 DEF Apart
<1> QED BY <1>1, <1>3, <1>6, <1>9, <1>10

\* In every step the count of dropped spans keeps up with what is refused.
LEMMA ApartStep ==
  ASSUME KeepHistory, MaxDropped >= MaxStatements * (MaxSpans + 1)
  PROVE  TypeOK /\ TypeOK' /\ Apart /\ Counted /\ [Next]_vars => Apart' /\ Counted'
<1> SUFFICES ASSUME TypeOK, TypeOK', Apart, Counted, [Next]_vars PROVE Apart' /\ Counted'
  OBVIOUS
<1> DEFINE Bounded(S) == IsFiniteSet(S) /\ Cardinality(S) \in 0 .. MaxDropped
<1>1. Bounded(refused)
  <2>1. statements \in 0 .. MaxStatements BY DEF TypeOK, AccountsType
  <2>2. refused \subseteq (1 .. statements) \X (1 .. MaxSpans + 1) BY DEF Apart, Issued
  <2> QED BY <2>1, <2>2, IssuedBound
<1>2. Apart' => Bounded(refused')
  <2> SUFFICES ASSUME Apart' PROVE Bounded(refused') OBVIOUS
  <2>1. statements' \in 0 .. MaxStatements BY DEF TypeOK, AccountsType
  <2>2. refused' \subseteq (1 .. statements') \X (1 .. MaxSpans + 1) BY DEF Apart, Issued
  <2> QED BY <2>1, <2>2, IssuedBound
<1>3. IsFiniteSet(Uncounted) /\ Cardinality(Uncounted) \in Nat
  <2>1. Uncounted \subseteq refused BY DEF Uncounted, Apart
  <2> QED BY <1>1, <2>1, FS_Subset, FS_CardinalityType
<1>4. dropped \in Nat /\ dropped' \in Nat /\ MaxDropped \in Nat
  BY ExportAssumption DEF TypeOK, SharedType
<1>5. dropped + Cardinality(Uncounted) = Cardinality(refused) BY DEF Counted
<1>6. \A b \in Backends : batch[b] \in Seq(Records) BY DEF TypeOK, BackendsType
<1>7. ASSUME dropped' = dropped, UNCHANGED <<statements, log, refused, batch>>,
             \A b \in Backends : pc'[b] = pc[b] \/ ~(Open(b) \/ Open(b)')
      PROVE  Apart' /\ Counted'
  BY <1>7, ApartKept DEF Counted
<1>8. ASSUME NEW b \in Backends, NEW n \in 0 .. MaxSpans, NEW skipped \in 0 .. 1,
             Publish(b, n, skipped)
      PROVE  Apart' /\ Counted'
  <2>1. PICK N : /\ Apart' /\ Uncounted' = Uncounted
                 /\ IsFiniteSet(N) /\ Cardinality(N) = skipped
                 /\ refused' = refused \cup N /\ refused \cap N = {}
    BY <1>8, PublishApart
  <2>2. Cardinality(refused \cup N) = Cardinality(refused) + skipped
    BY <1>1, <2>1, DisjointCard
  <2>3. Cardinality(refused') = Cardinality(refused) + skipped BY <2>1, <2>2
  <2>4. Cardinality(refused) + skipped <= MaxDropped BY <1>2, <2>1, <2>3
  <2>5. dropped + skipped <= MaxDropped BY <1>3, <1>4, <1>5, <2>4
  <2>6. dropped' = dropped + skipped BY <1>8, <2>5 DEF Publish, Capped
  <2>7. (dropped + skipped) + Cardinality(Uncounted) = Cardinality(refused) + skipped
    BY <1>3, <1>4, <1>5
  <2> QED BY <2>1, <2>3, <2>6, <2>7 DEF Counted
<1>9. ASSUME NEW b \in Backends, Push(b) PROVE Apart' /\ Counted'
  <2>1. dropped' = dropped BY <1>9 DEF Push
  <2>2. CASE Fits(batch[b])
    <3>1. Apart' /\ refused' = refused /\ Uncounted' = Uncounted BY <1>9, <2>2, AcceptApart
    <3> QED BY <1>5, <2>1, <3>1 DEF Counted
  <2>3. CASE ~Fits(batch[b])
    <3> DEFINE R == Range(batch[b])
    <3>1. /\ Apart' /\ refused' = refused \cup R /\ Uncounted' = Uncounted \cup R
          /\ refused \cap R = {}
      BY <1>9, <2>3, RefuseApart
    <3>2. IsFiniteSet(R) /\ Uncounted \cap R = {}
      <4>1. Uncounted \subseteq refused BY DEF Uncounted, Apart
      <4>2. Range(batch[b]) \subseteq refused' BY <3>1
      <4> HIDE DEF R
      <4> QED BY <1>2, <3>1, <4>1, <4>2, FS_Subset DEF R
    <3> HIDE DEF R
    <3>3. /\ Cardinality(R) \in Nat
          /\ Cardinality(refused \cup R) = Cardinality(refused) + Cardinality(R)
          /\ Cardinality(Uncounted \cup R) = Cardinality(Uncounted) + Cardinality(R)
      BY <1>1, <1>3, <3>1, <3>2, DisjointCard
    <3>4. dropped + (Cardinality(Uncounted) + Cardinality(R)) = Cardinality(refused) + Cardinality(R)
      BY <1>3, <1>4, <1>5, <3>3
    <3> QED BY <2>1, <3>1, <3>3, <3>4 DEF Counted
  <2> QED BY <2>2, <2>3
<1>10. ASSUME NEW b \in Backends, CountDropped(b) PROVE Apart' /\ Counted'
  <2> DEFINE R == Range(batch[b])
  <2>1. /\ Apart' /\ refused' = refused /\ Distinct(batch[b]) /\ R \subseteq refused
        /\ Uncounted = Uncounted' \cup R /\ Uncounted' \cap R = {}
    BY <1>10, CountApart
  <2>2. IsFiniteSet(R) /\ Cardinality(R) = Len(batch[b]) BY <1>6, <2>1, DistinctCard
  <2> HIDE DEF R
  <2>3. IsFiniteSet(Uncounted')
    <3>1. Uncounted' \subseteq Uncounted BY <2>1
    <3> QED BY <1>3, <3>1, FS_Subset
  <2>4. /\ Cardinality(Uncounted') \in Nat /\ Cardinality(R) \in Nat
        /\ Cardinality(Uncounted) = Cardinality(Uncounted') + Cardinality(R)
    BY <2>1, <2>2, <2>3, DisjointCard
  <2>5. dropped + Cardinality(R) <= MaxDropped BY <1>1, <1>4, <1>5, <2>4
  <2>6. dropped' = dropped + Cardinality(R) BY <1>10, <2>2, <2>5 DEF CountDropped, Capped
  <2>7. (dropped + Cardinality(R)) + Cardinality(Uncounted') = Cardinality(refused)
    BY <1>4, <1>5, <2>4
  <2> QED BY <2>1, <2>6, <2>7 DEF Counted
<1>11. ASSUME NEW b \in Backends, LoadWorker(b) \/ SetLatch(b) PROVE Apart' /\ Counted'
  <2>1. dropped' = dropped /\ UNCHANGED <<statements, log, refused, batch>>
    BY <1>11 DEF LoadWorker, SetLatch, shared, accounts
  <2>2. \A c \in Backends : pc'[c] = pc[c] \/ ~(Open(c) \/ Open(c)')
    BY <1>11 DEF LoadWorker, SetLatch, Open, TypeOK, BackendsType
  <2> QED BY <1>7, <2>1, <2>2
<1>12. ASSUME UNCHANGED <<dropped, statements, log, refused, batch, pc>>
       PROVE  Apart' /\ Counted'
  BY <1>7, <1>12
<1>13. CASE \/ Start \/ Register \/ Build \/ SkipWait \/ WakeUp \/ IdleTimeout \/ Poll \/ Reload
            \/ Interrupted \/ Report \/ FlushCheck \/ Deadline \/ Exit
  BY <1>12, <1>13
  DEF Start, Register, Build, SkipWait, WakeUp, IdleTimeout, WaitReturns, Poll, Reload,
      Interrupted, Report, FlushCheck, Deadline, Exit, Others, shared, backends
<1>14. CASE TakeChunk \/ FlushTake
  BY <1>12, <1>14 DEF TakeChunk, FlushTake, Take, backends
<1>15. CASE ExportChunk \/ FlushExport \/ FlushCancelled
  BY <1>12, <1>15 DEF ExportChunk, FlushExport, FlushCancelled, Handled, Others, backends
<1>16. CASE Crash \/ ReloadConfig \/ Terminate \/ UNCHANGED vars
  BY <1>12, <1>16 DEF Crash, ReloadConfig, Terminate, shared, backends, accounts, vars
<1> QED
  BY <1>8, <1>9, <1>10, <1>11, <1>13, <1>14, <1>15, <1>16 DEF Next, Worker, Backend

----------------------------------------------------------------------------
(* Every span is in exactly one place *)

\* A batch that is accepted goes behind what is there already.
LEMMA PushPlaced ==
  ASSUME KeepHistory, TypeOK, TypeOK', LogInv, Placed, Apart, NEW b \in Backends, Push(b)
  PROVE  Placed'
<1>1. chunk' = chunk /\ exported' = exported /\ lost' = lost BY DEF Push, exporting
<1>2. batch[b] \in Seq(Records) /\ Len(batch[b]) \in Nat BY DEF TypeOK, BackendsType
<1>3. Handed \in Nat /\ Handed <= Len(log) BY SequenceTypes DEF LogInv, LogEnds, Handed
<1>4. CASE Fits(batch[b])
  <2>1. log' = log \o batch[b] /\ queue' = queue \o batch[b] BY <1>4 DEF Push
  <2>2. Distinct(log)'
    <3>1. Distinct(log) /\ Distinct(batch[b]) /\ Range(log) \cap Range(batch[b]) = {}
      BY <1>4, AcceptApart DEF Placed
    <3>2. Distinct(log \o batch[b]) BY <1>2, <3>1, SequenceTypes, ConcatDistinct
    <3> QED BY <2>1, <3>2 DEF Distinct
  <2>3. Handed' = Handed
    <3>1. Len(log') = Len(log) + Len(batch[b]) /\ Len(queue') = Len(queue) + Len(batch[b])
      BY <1>2, <2>1, SequenceTypes, ConcatProperties
    <3> QED BY <1>1, <1>2, <3>1, SequenceTypes DEF Handed
  <2>4. \A k \in 1 .. Handed : log'[k] = log[k]
    BY <1>2, <1>3, <2>1, SequenceTypes, ConcatProperties
  <2> QED BY <1>1, <2>2, <2>3, <2>4, PlacedKept
<1>5. CASE ~Fits(batch[b])
  <2>1. log' = log /\ queue' = queue BY <1>5 DEF Push
  <2>2. Handed' = Handed BY <1>1, <2>1 DEF Handed
  <2>3. Distinct(log)' BY <2>1 DEF Placed, Distinct
  <2> QED BY <1>1, <2>1, <2>2, <2>3, PlacedKept
<1> QED BY <1>4, <1>5

\* A worker that exits gives up what it has in its hands.
LEMMA PlacedStep ==
  ASSUME KeepHistory
  PROVE  TypeOK /\ TypeOK' /\ LogInv /\ Apart /\ Placed /\ [Next]_vars => Placed'
<1> SUFFICES ASSUME TypeOK, TypeOK', LogInv, Apart, Placed, [Next]_vars PROVE Placed'
  OBVIOUS
<1>1. ChunkInv BY DEF LogInv
<1>2. ASSUME UNCHANGED <<queue, chunk, log, exported, lost>> PROVE Placed'
  <2>1. Handed' = Handed /\ \A k \in 1 .. Handed : log'[k] = log[k] BY <1>2 DEF Handed
  <2>2. Distinct(log)' BY <1>2 DEF Placed, Distinct
  <2> QED BY <1>2, <2>1, <2>2, PlacedKept
<1>3. CASE \E b \in Backends :
             \/ \E n \in 0 .. MaxSpans, skipped \in 0 .. 1 : Publish(b, n, skipped)
             \/ CountDropped(b) \/ LoadWorker(b) \/ SetLatch(b)
  BY <1>2, <1>3 DEF Publish, CountDropped, LoadWorker, SetLatch, shared, exporting, accounts
<1>4. CASE \E b \in Backends : Push(b)
  BY <1>4, PushPlaced
<1>5. CASE \/ Start \/ Register \/ Build \/ SkipWait \/ WakeUp \/ IdleTimeout \/ Poll \/ Reload
           \/ Interrupted \/ Report \/ FlushCheck \/ Deadline
  BY <1>2, <1>5
  DEF Start, Register, Build, SkipWait, WakeUp, IdleTimeout, WaitReturns, Poll, Reload,
      Interrupted, Report, FlushCheck, Deadline, Others, shared, exporting
<1>6. CASE TakeChunk
  <2>1. chunk = << >> BY <1>1, <1>6 DEF TakeChunk, ChunkInv
  <2>2. Take("report", "export") BY <1>6 DEF TakeChunk
  <2> QED BY <2>1, <2>2, TakePlaced
<1>7. CASE FlushTake
  <2>1. chunk = << >> BY <1>1, <1>7 DEF FlushTake, ChunkInv
  <2>2. Take("exit", "flushExport") BY <1>7 DEF FlushTake
  <2> QED BY <2>1, <2>2, TakePlaced
<1>8. CASE ExportChunk \/ FlushExport \/ FlushCancelled
  <2>1. PICK next \in {"drain", "flush", "exit"} : Handled(next)
    BY <1>8 DEF ExportChunk, FlushExport, FlushCancelled
  <2>2. queue' = queue /\ log' = log /\ chunk' = << >>
    BY <2>1 DEF Handled, Delivered, GiveUp, Others
  <2>3. CASE \E k \in 1 .. Len(chunk) : \E at \in Ascending(k, Len(chunk)) : Delivered(k, at)
    BY <2>2, <2>3, DeliveredPlaced
  <2>4. CASE GiveUp
    <3>1. exported' = exported /\ lost' = lost \cup Range(chunk) BY <2>4 DEF GiveUp
    <3> QED BY <2>2, <3>1, LostPlaced
  <2> QED BY <2>1, <2>3, <2>4 DEF Handled
<1>9. CASE Exit
  <2>1. /\ queue' = queue /\ log' = log /\ chunk' = << >> /\ exported' = exported
        /\ lost' = lost \cup Range(chunk)
    BY <1>9 DEF Exit, Others
  <2> QED BY <2>1, LostPlaced
<1>10. CASE Crash \/ ReloadConfig \/ Terminate \/ UNCHANGED vars
  BY <1>2, <1>10 DEF Crash, ReloadConfig, Terminate, shared, exporting, accounts, vars
<1> QED
  BY <1>3, <1>4, <1>5, <1>6, <1>7, <1>8, <1>9, <1>10 DEF Next, Worker, Backend

\* At first nothing is published.
LEMMA InitPlaced == Init => Placed /\ Apart /\ Counted
<1> SUFFICES ASSUME Init PROVE Placed /\ Apart /\ Counted OBVIOUS
<1>1. Len(log) = 0 /\ Len(queue) = 0 /\ Len(chunk) = 0 /\ Len(exported) = 0
  BY DEF Init
<1>2. lost = {} /\ refused = {} /\ dropped = 0 BY DEF Init
<1>3. IsFiniteSet({}) /\ Cardinality({}) = 0 BY FS_EmptySet
<1>4. Placed BY <1>1, <1>2, <1>3 DEF Placed, Distinct, Handed
<1>5. Range(log) = {} BY DEF Init, Range
<1>6. \A b \in Backends : ~Open(b) BY DEF Init, Open
<1>7. Apart BY <1>2, <1>5, <1>6 DEF Apart, Open
<1>8. Uncounted = {} BY <1>6 DEF Uncounted, Open
<1>9. Counted BY <1>2, <1>3, <1>8 DEF Counted
<1> QED BY <1>4, <1>7, <1>9

\* The log has no other records than those of its parts.
LEMMA LogParts ==
  ASSUME TypeOK, LogInv, Placed
  PROVE  Range(log) = Range(queue) \cup Range(chunk) \cup Range(exported) \cup lost
<1> DEFINE h == Handed
           n == Len(chunk)
<1>1. /\ h \in Nat /\ n \in Nat /\ Len(queue) \in Nat /\ Len(log) = h + n + Len(queue)
  BY SequenceTypes DEF LogInv, LogEnds, Handed
<1>2. /\ \A i \in 1 .. n : chunk[i] = log[h + i]
      /\ \A i \in 1 .. Len(queue) : queue[i] = log[h + n + i]
  BY DEF LogInv, LogEnds
<1>3. PICK at \in [1 .. Len(exported) -> 1 .. h] :
        \A i \in 1 .. Len(exported) : log[at[i]] = exported[i]
  BY DEF LogInv, LogOrder
<1>4. /\ DOMAIN log = 1 .. Len(log) /\ DOMAIN chunk = 1 .. n
      /\ DOMAIN queue = 1 .. Len(queue) /\ DOMAIN exported = 1 .. Len(exported)
  BY SequenceTypes, LenProperties
<1>5. /\ \A r \in lost : \E k \in 1 .. h : r = log[k]
      /\ \A k \in 1 .. h : log[k] \in Range(exported) \cup lost
  BY DEF Placed
<1> HIDE DEF h, n
<1>6. ASSUME NEW k \in 1 .. Len(log)
      PROVE  log[k] \in Range(queue) \cup Range(chunk) \cup Range(exported) \cup lost
  <2>1. CASE k <= h
    <3>1. k \in 1 .. h BY <1>1, <2>1
    <3> QED BY <1>5, <3>1
  <2>2. CASE h < k /\ k <= h + n
    <3>1. k - h \in 1 .. n /\ h + (k - h) = k BY <1>1, <2>2
    <3>2. log[k] = chunk[k - h] BY <1>2, <3>1
    <3> QED BY <1>4, <3>1, <3>2 DEF Range
  <2>3. CASE h + n < k
    <3>1. k - (h + n) \in 1 .. Len(queue) /\ h + n + (k - (h + n)) = k BY <1>1, <2>3
    <3>2. log[k] = queue[k - (h + n)] BY <1>2, <3>1
    <3> QED BY <1>4, <3>1, <3>2 DEF Range
  <2> QED BY <1>1, <2>1, <2>2, <2>3
<1>7. ASSUME NEW k \in 1 .. h PROVE log[k] \in Range(log)
  <2>1. k \in 1 .. Len(log) BY <1>1
  <2> QED BY <1>4, <2>1 DEF Range
<1>8. Range(chunk) \subseteq Range(log)
  <2> SUFFICES ASSUME NEW i \in 1 .. n PROVE chunk[i] \in Range(log)
    BY <1>4 DEF Range
  <2>1. h + i \in 1 .. Len(log) BY <1>1
  <2> QED BY <1>2, <1>4, <2>1 DEF Range
<1>9. Range(queue) \subseteq Range(log)
  <2> SUFFICES ASSUME NEW i \in 1 .. Len(queue) PROVE queue[i] \in Range(log)
    BY <1>4 DEF Range
  <2>1. h + n + i \in 1 .. Len(log) BY <1>1
  <2> QED BY <1>2, <1>4, <2>1 DEF Range
<1>10. Range(exported) \subseteq Range(log)
  <2> SUFFICES ASSUME NEW i \in 1 .. Len(exported) PROVE exported[i] \in Range(log)
    BY <1>4 DEF Range
  <2>1. at[i] \in 1 .. h /\ exported[i] = log[at[i]] BY <1>3
  <2> QED BY <1>7, <2>1
<1>11. lost \subseteq Range(log) BY <1>5, <1>7
<1>12. Range(log) \subseteq Range(queue) \cup Range(chunk) \cup Range(exported) \cup lost
  BY <1>4, <1>6 DEF Range
<1> QED BY <1>8, <1>9, <1>10, <1>11, <1>12

\* Every span that a statement publishes is in exactly one place: counted as dropped or
\* about to be, queued, in the worker's hands, delivered, or given up (publish and
\* count_dropped in shared.rs, export_pending and flush_and_shutdown in worker.rs),
\* whatever fails, crashes and restarts in between.  The bound on the counter must leave
\* room for every span there can be.
THEOREM SpansAccounted ==
  ASSUME KeepHistory, MaxDropped >= MaxStatements * (MaxSpans + 1)
  PROVE  Spec => []Accounted
<1>1. TypeOK /\ LogInv /\ Placed /\ Apart /\ Counted => Accounted
  <2> SUFFICES ASSUME TypeOK, LogInv, Placed, Apart, Counted PROVE Accounted OBVIOUS
  <2>1. Cardinality(Range(log)) = Len(log)
    BY SequenceTypes, DistinctCard DEF Placed
  <2>2. Len(log) = Len(queue) + Len(chunk) + (Len(exported) + Cardinality(lost))
    BY SequenceTypes DEF Handed, Placed
  <2>3. Cardinality(lost) \in Nat BY FS_CardinalityType DEF Placed
  <2>4. Len(log) = Len(queue) + Len(chunk) + Len(exported) + Cardinality(lost)
    BY <2>2, <2>3, SequenceTypes
  <2> QED BY <2>1, <2>4, LogParts DEF Accounted, Counted, Apart
<1>2. /\ TypeOK /\ TypeOK' /\ Apart /\ Counted /\ [Next]_vars => Apart' /\ Counted'
      /\ TypeOK /\ TypeOK' /\ LogInv /\ Apart /\ Placed /\ [Next]_vars => Placed'
  BY ApartStep, PlacedStep
<1>3. Spec => []LogInv BY LogInvariant
<1> QED BY <1>1, <1>2, <1>3, InitPlaced, TypeCorrect, PTL DEF Spec
=============================================================================
