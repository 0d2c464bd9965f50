----------------------------- MODULE CodecProofs -----------------------------
(***************************************************************************)
(* Proofs about Codec, for every radix, record limit and set of            *)
(* statements: what is encoded is decoded as it was, what is decoded was   *)
(* encoded so, and damage does not reach the records around it.            *)
(***************************************************************************)
EXTENDS Codec, SequenceTheorems, WellFoundedInduction, TLAPS

\* What holds for 0, and for a number if it does for the one before, holds for all.
LEMMA Upwards ==
  ASSUME NEW N \in Nat, NEW Bad, Bad \subseteq 0 .. N, 0 \notin Bad,
         \A n \in 1 .. N : n \in Bad => n - 1 \in Bad
  PROVE  Bad = {}
<1> SUFFICES ASSUME Bad # {} PROVE FALSE OBVIOUS
<1> DEFINE Smaller == OpToRel(<, Nat)
<1>1. \A k, m \in Nat : m <= k \/ <<k, m>> \in Smaller BY DEF OpToRel
<1>2. IsWellFoundedOn(Smaller, Nat) BY NatLessThanWellFounded
<1>3. Bad \subseteq Nat OBVIOUS
<1> HIDE DEF Smaller
<1>4. PICK n \in Bad : \A k \in Bad : ~(<<k, n>> \in Smaller) BY <1>2, <1>3, WFMin
<1>5. n \in 1 .. N /\ n - 1 \in Nat /\ n \in Nat OBVIOUS
<1>6. n - 1 \in Bad BY <1>5
<1>7. <<n - 1, n>> \in Smaller BY <1>1, <1>5
<1> QED BY <1>4, <1>6, <1>7

----------------------------------------------------------------------------
(* Sequences put together *)

\* f puts the first m sequences together.
Flattens(f, seqs, m) == f = [j \in 1 .. m |-> IF j = 1 THEN seqs[j] ELSE f[j - 1] \o seqs[j]]

\* There is such a function.
LEMMA FlattensExist ==
  ASSUME NEW S, NEW seqs \in Seq(S)
  PROVE  \E f : Flattens(f, seqs, Len(seqs))
<1> DEFINE N == Len(seqs)
           Bad == {m \in 0 .. N : ~\E f : Flattens(f, seqs, m)}
<1>1. N \in Nat BY LenProperties
<1> HIDE DEF N
<1>2. 0 \notin Bad
  <2> DEFINE g == [j \in 1 .. 0 |-> << >>]
  <2>1. 1 .. 0 = {} OBVIOUS
  <2>2. Flattens(g, seqs, 0) BY <2>1 DEF Flattens
  <2> HIDE DEF g
  <2> QED BY <2>2
<1>3. ASSUME NEW m \in 1 .. N, m - 1 \notin Bad PROVE m \notin Bad
  <2>1. m - 1 \in 0 .. N BY <1>1
  <2>2. PICK f : Flattens(f, seqs, m - 1) BY <1>3, <2>1
  <2> DEFINE e(h, j) == IF j = 1 THEN seqs[j] ELSE h[j - 1] \o seqs[j]
             g == [j \in 1 .. m |-> e(f, j)]
  <2>3. ASSUME NEW j \in 1 .. m PROVE e(f, j) = e(g, j)
    <3>1. CASE j = 1 BY <3>1
    <3>2. CASE j # 1
      <4>1. j - 1 \in 1 .. m - 1 /\ j - 1 \in 1 .. m BY <1>1, <3>2
      <4>2. f[j - 1] = e(f, j - 1) BY <2>2, <4>1 DEF Flattens
      <4>3. g[j - 1] = e(f, j - 1) BY <4>1
      <4> QED BY <3>2, <4>2, <4>3
    <3> QED BY <3>1, <3>2
  <2>4. Flattens(g, seqs, m) BY <2>3 DEF Flattens
  <2> HIDE DEF g
  <2> QED BY <2>4
<1>4. Bad = {}
  <2>1. \A m \in 1 .. N : m \in Bad => m - 1 \in Bad BY <1>3
  <2>2. Bad \subseteq 0 .. N OBVIOUS
  <2> HIDE DEF Bad
  <2> QED BY <1>1, <1>2, <2>1, <2>2, Upwards
<1>5. N \in 0 .. N BY <1>1
<1> QED BY <1>4, <1>5 DEF N

\* Of as many sequences every such function makes the same.
LEMMA FlattensSame ==
  ASSUME NEW f, NEW g, NEW s, NEW t, NEW m \in Nat, NEW n \in Nat, m <= n,
         Flattens(f, s, m), Flattens(g, t, n), \A j \in 1 .. m : s[j] = t[j]
  PROVE  \A j \in 1 .. m : f[j] = g[j]
<1> DEFINE Bad == {j \in 0 .. m : j > 0 /\ f[j] # g[j]}
<1>1. 0 \notin Bad OBVIOUS
<1>2. ASSUME NEW j \in 1 .. m, j \in Bad PROVE j - 1 \in Bad
  <2>1. /\ f[j] = IF j = 1 THEN s[j] ELSE f[j - 1] \o s[j]
        /\ g[j] = IF j = 1 THEN t[j] ELSE g[j - 1] \o t[j]
    <3>1. j \in 1 .. m /\ j \in 1 .. n OBVIOUS
    <3> QED BY <3>1 DEF Flattens
  <2>2. s[j] = t[j] /\ f[j] # g[j] BY <1>2
  <2>3. j # 1 /\ f[j - 1] # g[j - 1] BY <2>1, <2>2
  <2> QED BY <2>3
<1>3. Bad \subseteq 0 .. m /\ m \in Nat OBVIOUS
<1>4. Bad = {}
  <2> HIDE DEF Bad
  <2> QED BY <1>1, <1>2, <1>3, Upwards
<1>5. \A j \in 1 .. m : j \in 0 .. m /\ j > 0 OBVIOUS
<1> QED BY <1>4, <1>5

\* What FlattenSeq makes: nothing of nothing, and with one more sequence that as well.
LEMMA FlattenStep ==
  ASSUME NEW S, NEW seqs \in Seq(Seq(S)), NEW last \in Seq(S), FlattenSeq(seqs) \in Seq(S)
  PROVE  /\ FlattenSeq(Append(seqs, last)) = FlattenSeq(seqs) \o last
         /\ FlattenSeq(Append(seqs, last)) \in Seq(S)
<1> DEFINE n == Len(seqs)
           more == Append(seqs, last)
           f == CHOOSE h : Flattens(h, seqs, n)
           g == CHOOSE h : Flattens(h, more, n + 1)
<1>1. /\ n \in Nat /\ more \in Seq(Seq(S)) /\ Len(more) = n + 1
      /\ \A j \in 1 .. n : more[j] = seqs[j]
      /\ more[n + 1] = last
  BY LenProperties, AppendProperties
<1>2. FlattenSeq(seqs) = IF n = 0 THEN seqs ELSE f[n] BY DEF FlattenSeq, Flattens
<1>3. FlattenSeq(more) = IF n + 1 = 0 THEN more ELSE g[n + 1]
  <2>1. FlattenSeq(more) = IF Len(more) = 0 THEN more ELSE (CHOOSE h : Flattens(h, more, Len(more)))[Len(more)]
    BY DEF FlattenSeq, Flattens
  <2> HIDE DEF more
  <2> QED BY <1>1, <2>1
<1>4. Flattens(f, seqs, n) BY FlattensExist
<1>5. Flattens(g, more, n + 1)
  <2>1. \E h : Flattens(h, more, Len(more)) BY <1>1, FlattensExist
  <2> HIDE DEF more
  <2> QED BY <1>1, <2>1
<1> HIDE DEF f, g, more, n
<1>6. FlattenSeq(more) = g[n + 1] BY <1>1, <1>3
<1>7. g[n + 1] = IF n = 0 THEN last ELSE g[n] \o last
  <2> DEFINE l == n + 1
  <2>1. l \in 1 .. l /\ l - 1 = n /\ (l = 1 <=> n = 0) BY <1>1
  <2>2. g = [j \in 1 .. l |-> IF j = 1 THEN more[j] ELSE g[j - 1] \o more[j]]
    BY <1>5 DEF Flattens
  <2> HIDE DEF l
  <2>3. g[l] = IF l = 1 THEN more[l] ELSE g[l - 1] \o more[l] BY <2>1, <2>2
  <2>4. more[l] = last BY <1>1 DEF l
  <2>5. g[l] = IF n = 0 THEN last ELSE g[n] \o last BY <2>1, <2>3, <2>4
  <2> QED BY <2>5 DEF l
<1>8. CASE n = 0
  <2>1. FlattenSeq(seqs) = << >> BY <1>2, <1>8, EmptySeq DEF n
  <2>2. << >> \o last = last BY ConcatEmptySeq
  <2> QED BY <1>6, <1>7, <1>8, <2>1, <2>2 DEF more
<1>9. CASE n # 0
  <2>1. n \in 1 .. n BY <1>1, <1>9
  <2>2. \A j \in 1 .. n : f[j] = g[j]
    <3> DEFINE l == n + 1
    <3>1. \A j \in 1 .. n : seqs[j] = more[j] BY <1>1
    <3>2. l \in Nat /\ n \in Nat /\ n <= l /\ Flattens(g, more, l) BY <1>1, <1>5
    <3> HIDE DEF l
    <3> QED BY <1>4, <3>1, <3>2, FlattensSame
  <2>3. FlattenSeq(more) = FlattenSeq(seqs) \o last BY <1>2, <1>6, <1>7, <1>9, <2>1, <2>2
  <2> QED BY <2>3, ConcatProperties DEF more
<1> QED BY <1>8, <1>9

\* What FlattenSeq makes of the first sequences, one more each time; all of them are in
\* what it makes of all, each no longer than that.
LEMMA Flatten ==
  ASSUME NEW S, NEW seqs \in Seq(Seq(S))
  PROVE  /\ FlattenSeq(<< >>) = << >>
         /\ \A k \in 0 .. Len(seqs) : FlattenSeq(SubSeq(seqs, 1, k)) \in Seq(S)
         /\ \A k \in 1 .. Len(seqs) :
              FlattenSeq(SubSeq(seqs, 1, k)) = FlattenSeq(SubSeq(seqs, 1, k - 1)) \o seqs[k]
<1> DEFINE N == Len(seqs)
           upto(k) == SubSeq(seqs, 1, k)
           Bad == {k \in 0 .. N : FlattenSeq(upto(k)) \notin Seq(S)}
<1>1. N \in Nat BY LenProperties
<1>2. FlattenSeq(<< >>) = << >> BY EmptySeq DEF FlattenSeq
<1>3. \A k \in 0 .. N : upto(k) \in Seq(Seq(S))
  <2> SUFFICES ASSUME NEW k \in 0 .. N PROVE upto(k) \in Seq(Seq(S)) OBVIOUS
  <2> DEFINE one == 1
  <2>1. \A j \in one .. k : seqs[j] \in Seq(S) BY <1>1, ElementOfSeq
  <2>2. one \in Int /\ k \in Int BY <1>1
  <2>3. upto(k) = SubSeq(seqs, one, k) OBVIOUS
  <2> HIDE DEF one, upto
  <2> QED BY <2>1, <2>2, <2>3, SubSeqProperties
<1>4. ASSUME NEW k \in 1 .. N PROVE upto(k) = Append(upto(k - 1), seqs[k]) /\ seqs[k] \in Seq(S)
  <2>1. 1 \in 1 .. Len(seqs) /\ k \in 1 .. Len(seqs) /\ k - 1 \in 0 .. N BY <1>1
  <2>2. upto(k) = upto(k - 1) \o <<seqs[k]>> BY <2>1, SubSeqRecursiveSecond
  <2>3. seqs[k] \in Seq(S) /\ upto(k - 1) \in Seq(Seq(S)) BY <1>3, <2>1, ElementOfSeq
  <2> HIDE DEF upto
  <2> QED BY <2>2, <2>3, AppendIsConcat
<1>5. upto(0) = << >> BY SubSeqEmpty
<1> HIDE DEF upto, N
<1>6. 0 \notin Bad BY <1>2, <1>5, EmptySeq
<1>7. ASSUME NEW k \in 1 .. N, k - 1 \notin Bad
      PROVE  k \notin Bad /\ FlattenSeq(upto(k)) = FlattenSeq(upto(k - 1)) \o seqs[k]
  <2>1. k - 1 \in 0 .. N BY <1>1
  <2>2. FlattenSeq(upto(k - 1)) \in Seq(S) /\ upto(k - 1) \in Seq(Seq(S)) BY <1>3, <1>7, <2>1
  <2>3. /\ FlattenSeq(Append(upto(k - 1), seqs[k])) = FlattenSeq(upto(k - 1)) \o seqs[k]
        /\ FlattenSeq(Append(upto(k - 1), seqs[k])) \in Seq(S)
    BY <1>4, <2>2, FlattenStep
  <2> QED BY <1>4, <2>3
<1>8. Bad = {}
  <2>1. \A m \in 1 .. N : m \in Bad => m - 1 \in Bad BY <1>7
  <2>2. Bad \subseteq 0 .. N OBVIOUS
  <2> HIDE DEF Bad
  <2> QED BY <1>1, <1>6, <2>1, <2>2, Upwards
<1> QED BY <1>2, <1>7, <1>8 DEF upto, N

----------------------------------------------------------------------------
(* Bytes *)

\* Three sequences of bytes are put together either way.
LEMMA Grouped == \A u, v, w \in Seq(Byte) : (u \o v) \o w = u \o (v \o w)
<1> SUFFICES ASSUME NEW u \in Seq(Byte), NEW v \in Seq(Byte), NEW w \in Seq(Byte)
             PROVE  (u \o v) \o w = u \o (v \o w)
  OBVIOUS
<1> QED BY ConcatAssociative

\* What is known of sequences put together, for bytes.
LEMMA Joined ==
  /\ \A u, v, w \in Seq(Byte) : (u \o v) \o w = u \o (v \o w)
  /\ \A u, v \in Seq(Byte) : u \o v \in Seq(Byte) /\ Len(u \o v) = Len(u) + Len(v)
  /\ \A u, v, w \in Seq(Byte) : u \o v = u \o w => v = w
<1>1. ASSUME NEW u \in Seq(Byte), NEW v \in Seq(Byte), NEW w \in Seq(Byte)
      PROVE  (u \o v) \o w = u \o (v \o w)
  BY Grouped
<1>2. ASSUME NEW u \in Seq(Byte), NEW v \in Seq(Byte)
      PROVE  u \o v \in Seq(Byte) /\ Len(u \o v) = Len(u) + Len(v)
  BY ConcatProperties
<1>3. ASSUME NEW u \in Seq(Byte), NEW v \in Seq(Byte), NEW w \in Seq(Byte), u \o v = u \o w
      PROVE  v = w
  <2>1. \A x, y, z \in Seq(Byte) : x \o y = x \o z => y = z BY ConcatSimplifications
  <2> QED BY <1>3, <2>1
<1> QED BY <1>1, <1>2, <1>3

\* A sequence is the first one of two in one way only.
LEMMA SameFront ==
  ASSUME NEW S, NEW a \in Seq(S), NEW b \in Seq(S), NEW c \in Seq(S), NEW d \in Seq(S),
         a \o b = c \o d, Len(a) = Len(c)
  PROVE  a = c /\ b = d
<1>1. Len(a) \in Nat /\ Len(b) \in Nat /\ Len(d) \in Nat BY LenProperties
<1>2. /\ Len(a \o b) = Len(a) + Len(b)
      /\ \A j \in 1 .. Len(a) + Len(b) : (a \o b)[j] = IF j <= Len(a) THEN a[j] ELSE b[j - Len(a)]
  BY ConcatProperties
<1>3. \A j \in 1 .. Len(c) + Len(d) : (c \o d)[j] = IF j <= Len(c) THEN c[j] ELSE d[j - Len(c)]
  BY ConcatProperties
<1>4. Len(c \o d) = Len(c) + Len(d) BY ConcatProperties
<1>5. ASSUME NEW j \in 1 .. Len(a) PROVE a[j] = c[j]
  <2>1. j \in 1 .. Len(a) + Len(b) /\ j \in 1 .. Len(c) + Len(d) /\ j <= Len(a)
    BY <1>1, <1>2, <1>4
  <2> QED BY <1>2, <1>3, <2>1
<1>6. a = c BY <1>5, SeqEqual
<1>7. b = d
  <2>1. c \o b = c \o d BY <1>6
  <2>2. \A t, u \in Seq(S) : c \o t = c \o u => t = u BY ConcatSimplifications
  <2> QED BY <2>1, <2>2
<1> QED BY <1>6, <1>7

\* The length and the contents of a part.
LEMMA PartIs ==
  ASSUME NEW S, NEW s \in Seq(S), NEW from \in Nat, NEW to \in Int, to <= Len(s), 1 <= from
  PROVE  /\ SubSeq(s, from, to) \in Seq(S)
         /\ Len(SubSeq(s, from, to)) = IF from <= to THEN to - from + 1 ELSE 0
         /\ \A j \in 1 .. to - from + 1 : SubSeq(s, from, to)[j] = s[from + j - 1]
<1>1. Len(s) \in Nat BY LenProperties
<1>2. \A j \in from .. to : s[j] \in S BY <1>1, ElementOfSeq
<1> QED BY <1>2, SubSeqProperties

\* A sequence is its beginning and the rest.
LEMMA Parts ==
  ASSUME NEW S, NEW s \in Seq(S), NEW n \in 0 .. Len(s)
  PROVE  /\ SubSeq(s, 1, n) \in Seq(S) /\ Len(SubSeq(s, 1, n)) = n
         /\ SubSeq(s, n + 1, Len(s)) \in Seq(S) /\ Len(SubSeq(s, n + 1, Len(s))) = Len(s) - n
         /\ SubSeq(s, 1, n) \o SubSeq(s, n + 1, Len(s)) = s
<1> DEFINE one == 1
           N == Len(s)
<1>1. N \in Nat /\ n \in Nat /\ one \in Nat /\ n <= N /\ one <= one BY LenProperties
<1>2. n + 1 \in Nat /\ one <= n + 1 /\ N \in Int /\ N <= N /\ n \in Int BY <1>1
<1>3. /\ SubSeq(s, one, n) \in Seq(S)
      /\ Len(SubSeq(s, one, n)) = IF one <= n THEN n - one + 1 ELSE 0
  <2> HIDE DEF one
  <2> QED BY <1>1, <1>2, PartIs DEF one
<1>4. /\ SubSeq(s, n + 1, N) \in Seq(S)
      /\ Len(SubSeq(s, n + 1, N)) = IF n + 1 <= N THEN N - (n + 1) + 1 ELSE 0
  BY <1>2, PartIs
<1>5. SubSeq(s, 1, n) \o SubSeq(s, n + 1, N) = SubSeq(s, 1, N)
  <2>1. 1 \in 1 .. Len(s) + 1 /\ n \in 1 - 1 .. Len(s) /\ Len(s) \in n .. Len(s) BY <1>1
  <2> QED BY <2>1, ConcatAdjacentSubSeq
<1>6. SubSeq(s, 1, N) = s BY SubSeqFull
<1>7. (IF one <= n THEN n - one + 1 ELSE 0) = n BY <1>1
<1>8. (IF n + 1 <= N THEN N - (n + 1) + 1 ELSE 0) = N - n BY <1>1
<1>9. SubSeq(s, one, n) \in Seq(S) /\ Len(SubSeq(s, one, n)) = n BY <1>3, <1>7
<1>10. SubSeq(s, n + 1, N) \in Seq(S) /\ Len(SubSeq(s, n + 1, N)) = N - n BY <1>4, <1>8
<1> QED BY <1>5, <1>6, <1>9, <1>10, Zenon

\* What take returns of bytes that begin with a, and what it can return.
LEMMA TakeIs ==
  ASSUME NEW a \in Seq(Byte), NEW rest \in Seq(Byte)
  PROVE  take(a \o rest, Len(a)) = {Read(a, rest)}
<1> DEFINE s == a \o rest
           n == Len(a)
<1>1. n \in Nat /\ Len(rest) \in Nat /\ s \in Seq(Byte) /\ Len(s) = n + Len(rest)
  BY LenProperties, ConcatProperties
<1>2. n \in 0 .. Len(s) /\ ~(n > Len(s)) BY <1>1
<1> HIDE DEF n
<1>3. /\ SubSeq(s, 1, n) \in Seq(Byte) /\ Len(SubSeq(s, 1, n)) = n
      /\ SubSeq(s, n + 1, Len(s)) \in Seq(Byte)
      /\ SubSeq(s, 1, n) \o SubSeq(s, n + 1, Len(s)) = a \o rest
  BY <1>1, <1>2, Parts
<1>4. SubSeq(s, 1, n) = a /\ SubSeq(s, n + 1, Len(s)) = rest BY <1>3, SameFront DEF n
<1>5. take(s, n) = {Read(SubSeq(s, 1, n), SubSeq(s, n + 1, Len(s)))} BY <1>2 DEF take
<1> QED BY <1>4, <1>5 DEF n

LEMMA Taken ==
  ASSUME NEW bytes \in Seq(Byte), NEW n \in Nat, NEW t \in take(bytes, n)
  PROVE  /\ t = Read(t.value, t.rest)
         /\ t.value \in Seq(Byte) /\ Len(t.value) = n /\ t.rest \in Seq(Byte)
         /\ t.value \o t.rest = bytes
<1> DEFINE a == SubSeq(bytes, 1, n)
           b == SubSeq(bytes, n + 1, Len(bytes))
<1>1. Len(bytes) \in Nat BY LenProperties
<1>2. ~(n > Len(bytes)) BY DEF take
<1>3. t = Read(a, b) BY <1>2 DEF take
<1>4. n \in 0 .. Len(bytes) BY <1>1, <1>2
<1>5. /\ a \in Seq(Byte) /\ Len(a) = n /\ b \in Seq(Byte) /\ a \o b = bytes
  BY <1>4, Parts
<1> HIDE DEF a, b
<1>6. t.value = a /\ t.rest = b BY <1>3 DEF Read
<1> QED BY <1>3, <1>5, <1>6

\* A prefix is read as the length that was written, and a length is written in one way.
LEMMA Lengths ==
  /\ BASE \in Nat /\ BASE > 3 /\ 0 \in Byte /\ 1 \in Byte /\ 2 \in Byte
  /\ \A n \in 0 .. BASE * BASE - 1 :
       /\ n % BASE \in Byte /\ n \div BASE \in Byte
       /\ (n % BASE) + (n \div BASE) * BASE = n
  /\ \A low, high \in Byte :
       /\ low + high * BASE \in Nat
       /\ (low + high * BASE) % BASE = low /\ (low + high * BASE) \div BASE = high
       /\ low + high * BASE < BASE * BASE
<1>1. BASE \in Nat /\ BASE > 3 /\ 0 \in Byte /\ 1 \in Byte /\ 2 \in Byte
  BY CodecAssumption DEF Byte
<1>2. ASSUME NEW n \in 0 .. BASE * BASE - 1
      PROVE  /\ n % BASE \in Byte /\ n \div BASE \in Byte
             /\ (n % BASE) + (n \div BASE) * BASE = n
  <2> DEFINE low == n % BASE
             high == n \div BASE
  <2>1. n \in Nat /\ n < BASE * BASE
    <3>1. BASE * BASE \in Int BY <1>1
    <3> QED BY <3>1
  <2>2. n = BASE * high + low /\ low \in 0 .. BASE - 1 /\ high \in Int BY <1>1, <2>1
  <2> HIDE DEF low, high
  <2>3. high >= 0
    <3> SUFFICES ASSUME high <= -1 PROVE FALSE BY <2>2
    <3>1. BASE * high <= BASE * (-1) BY <1>1, <2>2
    <3> QED BY <1>1, <2>1, <2>2, <3>1
  <2>4. high < BASE
    <3> SUFFICES ASSUME high >= BASE PROVE FALSE BY <1>1, <2>2
    <3>1. BASE * high >= BASE * BASE BY <1>1, <2>2
    <3> QED BY <1>1, <2>1, <2>2, <3>1
  <2>5. low \in Byte /\ high \in Byte BY <1>1, <2>2, <2>3, <2>4 DEF Byte
  <2>6. low + high * BASE = n BY <1>1, <2>2
  <2> QED BY <2>5, <2>6 DEF low, high
<1>3. ASSUME NEW low \in Byte, NEW high \in Byte
      PROVE  /\ low + high * BASE \in Nat
             /\ (low + high * BASE) % BASE = low /\ (low + high * BASE) \div BASE = high
             /\ low + high * BASE < BASE * BASE
  <2> DEFINE n == low + high * BASE
             r == n % BASE
             q == n \div BASE
  <2>1. low \in 0 .. BASE - 1 /\ high \in 0 .. BASE - 1 BY DEF Byte
  <2>2. n \in Nat BY <1>1, <2>1
  <2>3. n < BASE * BASE
    <3>1. high * BASE <= (BASE - 1) * BASE BY <1>1, <2>1
    <3>2. (BASE - 1) * BASE = BASE * BASE - BASE BY <1>1
    <3> QED BY <1>1, <2>1, <3>1, <3>2
  <2> HIDE DEF n
  <2>4. n = BASE * q + r /\ r \in 0 .. BASE - 1 /\ q \in Int BY <1>1, <2>2
  <2> HIDE DEF q, r
  <2>5. (high - q) * BASE = r - low BY <1>1, <2>1, <2>4 DEF n
  <2>6. high = q
    <3>1. CASE high - q >= 1
      <4>1. (high - q) * BASE >= BASE BY <1>1, <2>1, <2>4, <3>1
      <4> QED BY <1>1, <2>1, <2>4, <2>5, <4>1
    <3>2. CASE high - q <= -1
      <4>1. (q - high) * BASE >= BASE BY <1>1, <2>1, <2>4, <3>2
      <4>2. (q - high) * BASE = low - r BY <1>1, <2>1, <2>4, <2>5
      <4> QED BY <1>1, <2>1, <2>4, <4>1, <4>2
    <3> QED BY <2>1, <2>4, <3>1, <3>2
  <2>7. low = r BY <1>1, <2>1, <2>4, <2>5, <2>6
  <2> QED BY <2>2, <2>3, <2>6, <2>7 DEF n, q, r
<1> QED BY <1>1, <1>2, <1>3

----------------------------------------------------------------------------
(* Fields *)

\* A byte is read as it was written.
LEMMA ByteBack ==
  ASSUME NEW x \in Byte, NEW rest \in Seq(Byte)
  PROVE  byte(<<x>> \o rest) = {Read(x, rest)}
<1>1. <<x>> \in Seq(Byte) /\ Len(<<x>>) = 1 /\ <<x>>[1] = x OBVIOUS
<1>2. take(<<x>> \o rest, 1) = {Read(<<x>>, rest)}
  <2>1. take(<<x>> \o rest, Len(<<x>>)) = {Read(<<x>>, rest)} BY <1>1, TakeIs
  <2> QED BY <1>1, <2>1
<1>3. Read(<<x>>, rest).value = <<x>> /\ Read(<<x>>, rest).rest = rest BY DEF Read
<1>4. byte(<<x>> \o rest) = {Read(t.value[1], t.rest) : t \in {Read(<<x>>, rest)}}
  BY <1>2 DEF byte
<1> HIDE DEF Read
<1> QED BY <1>1, <1>3, <1>4

LEMMA ByteRead ==
  ASSUME NEW bytes \in Seq(Byte), NEW r \in byte(bytes)
  PROVE  /\ r = Read(r.value, r.rest)
         /\ r.value \in Byte /\ r.rest \in Seq(Byte) /\ <<r.value>> \o r.rest = bytes
<1>1. PICK t \in take(bytes, 1) : r = Read(t.value[1], t.rest) BY DEF byte
<1>2. t.value \in Seq(Byte) /\ Len(t.value) = 1 /\ t.rest \in Seq(Byte) /\ t.value \o t.rest = bytes
  BY Taken
<1>3. t.value = <<t.value[1]>> /\ t.value[1] \in Byte
  <2> DEFINE s == t.value
  <2>1. s \in Seq(Byte) /\ Len(s) = 1 BY <1>2
  <2> HIDE DEF s
  <2>2. s[1] \in Byte
    <3>1. 1 \in 1 .. Len(s) BY <2>1
    <3> QED BY <2>1, <3>1, ElementOfSeq
  <2>3. s = <<s[1]>>
    <3> DEFINE u == <<s[1]>>
    <3>1. u \in Seq(Byte) /\ Len(u) = 1 /\ u[1] = s[1] BY <2>2
    <3> HIDE DEF u
    <3>2. \A j \in 1 .. Len(s) : s[j] = u[j] BY <2>1, <3>1
    <3>3. s = u BY <2>1, <3>1, <3>2, SeqEqual
    <3> QED BY <3>3 DEF u
  <2> QED BY <2>2, <2>3 DEF s
<1>4. r.value = t.value[1] /\ r.rest = t.rest BY <1>1 DEF Read
<1> QED BY <1>1, <1>2, <1>3, <1>4

\* Two bytes of a length and what follows them.
LEMMA LengthBack ==
  ASSUME NEW n \in 0 .. BASE * BASE - 1, NEW rest \in Seq(Byte)
  PROVE  /\ put_len(n) \in Seq(Byte) /\ Len(put_len(n)) = 2
         /\ take(put_len(n) \o rest, 2) = {Read(put_len(n), rest)}
         /\ put_len(n)[1] + put_len(n)[2] * BASE = n
<1>1. put_len(n) \in Seq(Byte) /\ Len(put_len(n)) = 2
  <2> DEFINE low == n % BASE
             high == n \div BASE
  <2>1. low \in Byte /\ high \in Byte BY Lengths
  <2>2. put_len(n) = <<low, high>> BY DEF put_len
  <2> HIDE DEF low, high
  <2> QED BY <2>1, <2>2
<1>2. take(put_len(n) \o rest, Len(put_len(n))) = {Read(put_len(n), rest)} BY <1>1, TakeIs
<1>3. put_len(n)[1] = n % BASE /\ put_len(n)[2] = n \div BASE BY DEF put_len
<1>4. (n % BASE) + (n \div BASE) * BASE = n BY Lengths
<1> QED BY <1>1, <1>2, <1>3, <1>4

LEMMA LengthRead ==
  ASSUME NEW bytes \in Seq(Byte), NEW t \in take(bytes, 2)
  PROVE  /\ t.value[1] + t.value[2] * BASE \in 0 .. BASE * BASE - 1
         /\ t.value = put_len(t.value[1] + t.value[2] * BASE)
         /\ t.rest \in Seq(Byte) /\ t.value \o t.rest = bytes
         /\ t.value \in Seq(Byte) /\ Len(t.value) = 2
<1>1. t.value \in Seq(Byte) /\ Len(t.value) = 2 /\ t.rest \in Seq(Byte) /\ t.value \o t.rest = bytes
  BY Taken
<1> DEFINE s == t.value
<1> HIDE DEF s
<1>2. s \in Seq(Byte) /\ Len(s) = 2 BY <1>1 DEF s
<1>3. s[1] \in Byte /\ s[2] \in Byte
  <2>1. 1 \in 1 .. Len(s) /\ 2 \in 1 .. Len(s) BY <1>2
  <2> QED BY <1>2, <2>1, ElementOfSeq
<1> DEFINE n == s[1] + s[2] * BASE
<1>4. n \in Nat /\ n % BASE = s[1] /\ n \div BASE = s[2] /\ n < BASE * BASE
  BY <1>3, Lengths
<1> HIDE DEF n
<1>5. n \in 0 .. BASE * BASE - 1
  <2>1. BASE * BASE \in Int BY Lengths
  <2> QED BY <1>4, <2>1
<1>6. s = put_len(n)
  <2> DEFINE u == put_len(n)
  <2>1. u = <<s[1], s[2]>> BY <1>4 DEF put_len
  <2>2. u \in Seq(Byte) /\ Len(u) = 2 /\ u[1] = s[1] /\ u[2] = s[2] BY <1>3, <2>1
  <2> HIDE DEF u
  <2>3. \A j \in 1 .. Len(s) : s[j] = u[j]
    <3>1. \A j \in 1 .. Len(s) : j = 1 \/ j = 2 BY <1>2
    <3> QED BY <2>2, <3>1
  <2>4. s = u BY <1>2, <2>2, <2>3, SeqEqual
  <2> QED BY <2>4 DEF u
<1> QED BY <1>1, <1>5, <1>6 DEF n, s

\* What is written of a string, cut if it is longer than a length can say.
LEMMA StringType ==
  ASSUME NEW s \in Seq(Byte)
  PROVE  /\ put_str(s) \in Seq(Byte)
         /\ Len(s) < BASE * BASE => put_str(s) = put_len(Len(s)) \o s
         /\ ~(Len(s) < BASE * BASE) => Len(put_str(s)) > BASE * BASE
<1>1. Len(s) \in Nat /\ BASE * BASE \in Int BY Lengths, LenProperties
<1>2. BASE * BASE >= 1
  <2>1. BASE \in Nat /\ BASE > 3 BY Lengths
  <2>2. BASE * BASE >= 1 * BASE BY <2>1
  <2> QED BY <2>1, <2>2
<1>3. CASE Len(s) < BASE * BASE
  <2>1. put_str(s) = put_len(Len(s)) \o SubSeq(s, 1, Len(s)) BY <1>3 DEF put_str
  <2>2. put_str(s) = put_len(Len(s)) \o s BY <2>1, SubSeqFull
  <2>3. Len(s) \in 0 .. BASE * BASE - 1 BY <1>1, <1>3
  <2>4. put_len(Len(s)) \in Seq(Byte)
    <3>1. << >> \in Seq(Byte) BY EmptySeq
    <3> QED BY <2>3, <3>1, LengthBack
  <2> QED BY <1>3, <2>2, <2>4, ConcatProperties
<1>4. CASE ~(Len(s) < BASE * BASE)
  <2> DEFINE n == BASE * BASE - 1
  <2>1. n \in 0 .. Len(s) /\ n \in 0 .. BASE * BASE - 1 BY <1>1, <1>2, <1>4
  <2>2. put_str(s) = put_len(n) \o SubSeq(s, 1, n) BY <1>4 DEF put_str
  <2> HIDE DEF n
  <2>3. SubSeq(s, 1, n) \in Seq(Byte) /\ Len(SubSeq(s, 1, n)) = n BY <2>1, Parts
  <2>4. put_len(n) \in Seq(Byte) /\ Len(put_len(n)) = 2 BY <2>1, <2>3, LengthBack
  <2>5. put_str(s) \in Seq(Byte) /\ Len(put_str(s)) = 2 + n
    <3>1. \A x, y \in Seq(Byte) : x \o y \in Seq(Byte) /\ Len(x \o y) = Len(x) + Len(y)
      BY ConcatProperties
    <3> DEFINE a == put_len(n)
               b == SubSeq(s, 1, n)
    <3>2. a \in Seq(Byte) /\ Len(a) = 2 /\ b \in Seq(Byte) /\ Len(b) = n /\ put_str(s) = a \o b
      BY <2>2, <2>3, <2>4
    <3> HIDE DEF a, b
    <3> QED BY <3>1, <3>2
  <2>6. 2 + n > BASE * BASE BY <1>1 DEF n
  <2> QED BY <1>4, <2>5, <2>6
<1> QED BY <1>3, <1>4

\* A string is read as it was written, and is UTF-8.
LEMMA StringBack ==
  ASSUME NEW s \in Seq(Byte), IsUtf8(s), Len(s) < BASE * BASE, NEW rest \in Seq(Byte)
  PROVE  string(put_str(s) \o rest) = {Read(s, rest)}
<1> DEFINE n == Len(s)
<1>1. n \in 0 .. BASE * BASE - 1
  <2>1. Len(s) \in Nat /\ BASE * BASE \in Int BY Lengths, LenProperties
  <2> QED BY <2>1
<1>2. s \o rest \in Seq(Byte) BY ConcatProperties
<1>3. /\ put_len(n) \in Seq(Byte)
      /\ take(put_len(n) \o (s \o rest), 2) = {Read(put_len(n), s \o rest)}
      /\ put_len(n)[1] + put_len(n)[2] * BASE = n
  BY <1>1, <1>2, LengthBack
<1>4. put_str(s) \o rest = put_len(n) \o (s \o rest)
  <2>1. put_str(s) = put_len(n) \o s BY StringType
  <2> QED BY <1>3, <2>1, ConcatAssociative
<1>5. take(s \o rest, n) = {Read(s, rest)} BY TakeIs
<1> HIDE DEF n
<1> DEFINE p == Read(put_len(n), s \o rest)
<1>6. p.value = put_len(n) /\ p.rest = s \o rest BY DEF Read
<1>7. Read(s, rest).value = s BY DEF Read
<1> HIDE DEF p
<1>8. UNION {take(len.rest, len.value[1] + len.value[2] * BASE) : len \in {p}} = {Read(s, rest)}
  <2>1. take(p.rest, p.value[1] + p.value[2] * BASE) = {Read(s, rest)} BY <1>3, <1>5, <1>6
  <2> QED BY <2>1, Zenon
<1>9. string(put_str(s) \o rest) = {r \in {Read(s, rest)} : IsUtf8(r.value)}
  BY <1>3, <1>4, <1>8, Zenon DEF string, p
<1> QED BY <1>7, <1>9

LEMMA StringRead ==
  ASSUME NEW bytes \in Seq(Byte), NEW r \in string(bytes)
  PROVE  /\ r = Read(r.value, r.rest) /\ r.value \in Seq(Byte) /\ IsUtf8(r.value)
         /\ r.rest \in Seq(Byte) /\ put_str(r.value) \o r.rest = bytes
<1>1. PICK len \in take(bytes, 2) : r \in take(len.rest, len.value[1] + len.value[2] * BASE)
  BY DEF string
<1>2. IsUtf8(r.value) BY DEF string
<1> DEFINE n == len.value[1] + len.value[2] * BASE
<1>3. /\ n \in 0 .. BASE * BASE - 1 /\ len.value = put_len(n) /\ len.rest \in Seq(Byte)
      /\ len.value \o len.rest = bytes /\ len.value \in Seq(Byte)
  BY LengthRead
<1> HIDE DEF n
<1>4. n \in Nat /\ n < BASE * BASE
  <2>1. BASE * BASE \in Int BY Lengths
  <2> QED BY <1>3, <2>1
<1>5. /\ r = Read(r.value, r.rest) /\ r.value \in Seq(Byte) /\ Len(r.value) = n
      /\ r.rest \in Seq(Byte) /\ r.value \o r.rest = len.rest
  <2> DEFINE more == len.rest
  <2>1. more \in Seq(Byte) /\ n \in Nat /\ r \in take(more, n) BY <1>1, <1>3, <1>4 DEF n
  <2> HIDE DEF more
  <2>2. /\ r = Read(r.value, r.rest) /\ r.value \in Seq(Byte) /\ Len(r.value) = n
        /\ r.rest \in Seq(Byte) /\ r.value \o r.rest = more
    BY <2>1, Taken
  <2> QED BY <2>2 DEF more
<1>6. put_str(r.value) = put_len(n) \o r.value BY <1>4, <1>5, StringType
<1>7. (put_len(n) \o r.value) \o r.rest = put_len(n) \o (r.value \o r.rest)
  <2>1. \A x, y, z \in Seq(Byte) : (x \o y) \o z = x \o (y \o z) BY Joined
  <2>2. put_len(n) \in Seq(Byte) BY <1>3
  <2> QED BY <1>5, <2>1, <2>2
<1> QED BY <1>2, <1>3, <1>5, <1>6, <1>7

\* The types there are, and what is kept of a value.
Types == {"number", "time", "bool", "string", "opt_number", "opt_string"}

Kept(type, v) == IF type = "time" THEN put_time(v) ELSE v

LEMMA PutIs ==
  ASSUME NEW v
  PROVE  /\ put("number", v) = <<v>> /\ put("time", v) = <<put_time(v)>>
         /\ put("bool", v) = <<IF v THEN 1 ELSE 0>> /\ put("string", v) = put_str(v)
         /\ put("opt_number", v) = (IF v = << >> THEN <<0>> ELSE <<1>> \o v)
         /\ put("opt_string", v) = (IF v = << >> THEN <<0>> ELSE <<1>> \o put_str(v[1]))
BY DEF put

LEMMA ReadIs ==
  ASSUME NEW bytes
  PROVE  /\ read("number", bytes) = byte(bytes) /\ read("time", bytes) = byte(bytes)
         /\ read("bool", bytes) = bool(bytes) /\ read("string", bytes) = string(bytes)
         /\ read("opt_number", bytes) = opt_i64(bytes)
         /\ read("opt_string", bytes) = opt_string(bytes)
BY DEF read

LEMMA IsAIs ==
  ASSUME NEW v
  PROVE  /\ IsA("number", v) <=> v \in Byte
         /\ IsA("time", v) <=> v \in Byte
         /\ IsA("bool", v) <=> v \in BOOLEAN
         /\ IsA("string", v) <=> v \in Seq(Byte) /\ IsUtf8(v)
         /\ IsA("opt_number", v) <=> v \in Seq(Byte) /\ Len(v) <= 1
         /\ IsA("opt_string", v) <=> /\ v \in Seq(Seq(Byte)) /\ Len(v) <= 1
                                     /\ v # << >> => IsUtf8(v[1])
BY DEF IsA

\* A sequence of at most one that is not empty is one of its element.
LEMMA JustOne ==
  ASSUME NEW S, NEW v \in Seq(S), Len(v) <= 1, v # << >>
  PROVE  v[1] \in S /\ v = <<v[1]>>
<1>1. Len(v) \in Nat /\ Len(v) # 0 BY LenProperties, EmptySeq
<1>2. Len(v) = 1 BY <1>1
<1>3. v[1] \in S
  <2>1. 1 \in 1 .. Len(v) BY <1>2
  <2> QED BY <2>1, ElementOfSeq
<1> DEFINE u == <<v[1]>>
<1>4. u \in Seq(S) /\ Len(u) = 1 /\ u[1] = v[1] BY <1>3
<1> HIDE DEF u
<1>5. \A j \in 1 .. Len(v) : v[j] = u[j] BY <1>2, <1>4
<1>6. v = u BY <1>2, <1>4, <1>5, SeqEqual
<1> QED BY <1>3, <1>6 DEF u

\* Times that are written are bytes.
LEMMA TimeType ==
  ASSUME NEW t \in Int
  PROVE  put_time(t) \in Byte /\ (t \in Byte => put_time(t) = t)
<1>1. BASE \in Nat /\ BASE > 3 BY Lengths
<1> QED BY <1>1 DEF put_time, Byte

\* Fields are written as bytes.
LEMMA FieldType ==
  ASSUME NEW type \in Types, NEW v, IsTaken(type, v)
  PROVE  put(type, v) \in Seq(Byte)
<1>0. 0 \in Byte /\ 1 \in Byte BY Lengths
<1>1. CASE type = "number"
  <2>1. v \in Byte BY <1>1, IsAIs DEF IsTaken
  <2>2. put(type, v) = <<v>> BY <1>1, PutIs
  <2> QED BY <2>1, <2>2
<1>2. CASE type = "time"
  <2>1. v \in Int BY <1>2 DEF IsTaken
  <2>2. put_time(v) \in Byte BY <2>1, TimeType
  <2>3. put(type, v) = <<put_time(v)>> BY <1>2, PutIs
  <2> QED BY <2>2, <2>3
<1>3. CASE type = "bool"
  <2> DEFINE x == IF v THEN 1 ELSE 0
  <2>1. x \in Byte BY <1>0
  <2>2. put("bool", v) = <<x>> BY PutIs
  <2>3. put(type, v) = <<x>> BY <1>3, <2>2, Zenon
  <2> HIDE DEF x
  <2> QED BY <2>1, <2>3
<1>4. CASE type = "string"
  <2>1. v \in Seq(Byte) BY <1>4, IsAIs DEF IsTaken
  <2> QED BY <1>4, <2>1, PutIs, StringType
<1>5. CASE type = "opt_number"
  <2>1. v \in Seq(Byte) BY <1>5, IsAIs DEF IsTaken
  <2>2. <<0>> \in Seq(Byte) /\ <<1>> \in Seq(Byte) BY <1>0
  <2>3. <<1>> \o v \in Seq(Byte) BY <2>1, <2>2, ConcatProperties
  <2> QED BY <1>5, <2>2, <2>3, PutIs
<1>6. CASE type = "opt_string"
  <2>1. v \in Seq(Seq(Byte)) /\ Len(v) <= 1 BY <1>6, IsAIs DEF IsTaken
  <2>2. <<0>> \in Seq(Byte) /\ <<1>> \in Seq(Byte) BY <1>0
  <2>3. CASE v = << >> BY <1>6, <2>2, <2>3, PutIs
  <2>4. CASE v # << >>
    <3>1. v[1] \in Seq(Byte) BY <2>1, <2>4, JustOne
    <3>2. put_str(v[1]) \in Seq(Byte) BY <3>1, StringType
    <3>3. <<1>> \o put_str(v[1]) \in Seq(Byte) BY <2>2, <3>2, ConcatProperties
    <3> QED BY <1>6, <2>4, <3>3, PutIs
  <2> QED BY <2>3, <2>4
<1> QED BY <1>1, <1>2, <1>3, <1>4, <1>5, <1>6 DEF Types

\* A Boolean is read as it was written, and is written as it was read.
LEMMA BoolBack ==
  ASSUME NEW v \in BOOLEAN, NEW rest \in Seq(Byte)
  PROVE  bool(<<IF v THEN 1 ELSE 0>> \o rest) = {Read(v, rest)}
<1> DEFINE x == IF v THEN 1 ELSE 0
<1>1. x \in Byte /\ x \in {0, 1} BY Lengths
<1>2. (x = 1) = v OBVIOUS
<1> HIDE DEF x
<1>3. byte(<<x>> \o rest) = {Read(x, rest)} BY <1>1, ByteBack
<1>4. Read(x, rest).value = x /\ Read(x, rest).rest = rest BY DEF Read
<1> DEFINE b == Read(x, rest)
<1>5. b.value = x /\ b.rest = rest /\ byte(<<x>> \o rest) = {b} BY <1>3, <1>4
<1> HIDE DEF b
<1>6. {c \in byte(<<x>> \o rest) : c.value \in {0, 1}} = {b} BY <1>1, <1>5
<1>7. bool(<<x>> \o rest) = {Read(c.value = 1, c.rest) : c \in {b}} BY <1>6, Zenon DEF bool
<1>8. bool(<<x>> \o rest) = {Read(b.value = 1, b.rest)} BY <1>7, Zenon
<1>9. Read(b.value = 1, b.rest) = Read(v, rest) BY <1>2, <1>5, Zenon
<1> QED BY <1>8, <1>9, Zenon DEF x

LEMMA BoolRead ==
  ASSUME NEW bytes \in Seq(Byte), NEW r \in bool(bytes)
  PROVE  /\ r = Read(r.value, r.rest) /\ r.value \in BOOLEAN
         /\ r.rest \in Seq(Byte) /\ <<IF r.value THEN 1 ELSE 0>> \o r.rest = bytes
<1>1. PICK b \in byte(bytes) : b.value \in {0, 1} /\ r = Read(b.value = 1, b.rest)
  BY DEF bool
<1>2. b.value \in Byte /\ b.rest \in Seq(Byte) /\ <<b.value>> \o b.rest = bytes BY ByteRead
<1>3. r = [value |-> (b.value = 1), rest |-> b.rest] BY <1>1, Zenon DEF Read
<1>4. r.rest = b.rest BY <1>3
<1>5. CASE b.value = 1
  <2>1. (b.value = 1) = TRUE BY <1>5
  <2>2. r = [value |-> TRUE, rest |-> b.rest] BY <1>3, <2>1, Zenon
  <2>3. r.value = TRUE BY <2>2
  <2>4. (IF r.value THEN 1 ELSE 0) = b.value BY <1>5, <2>3
  <2> QED BY <1>2, <1>4, <2>2, <2>3, <2>4 DEF Read
<1>6. CASE b.value = 0
  <2>1. (b.value = 1) = FALSE BY <1>6
  <2>2. r = [value |-> FALSE, rest |-> b.rest] BY <1>3, <2>1, Zenon
  <2>3. r.value = FALSE BY <2>2
  <2>4. (IF r.value THEN 1 ELSE 0) = b.value BY <1>6, <2>3
  <2> QED BY <1>2, <1>4, <2>2, <2>3, <2>4 DEF Read
<1> QED BY <1>1, <1>5, <1>6

\* The tag of an optional value and what it says.
LEMMA TagBack ==
  ASSUME NEW x \in {0, 1}, NEW rest \in Seq(Byte)
  PROVE  /\ opt_i64(<<x>> \o rest) = opt(Read(x, rest), byte(rest))
         /\ opt_string(<<x>> \o rest) = opt(Read(x, rest), string(rest))
<1>1. x \in Byte BY Lengths
<1> DEFINE tag == Read(x, rest)
<1>2. byte(<<x>> \o rest) = {tag} BY <1>1, ByteBack
<1>3. tag.rest = rest BY DEF Read
<1> HIDE DEF tag
<1>4. opt_i64(<<x>> \o rest) = opt(tag, byte(tag.rest)) BY <1>2, Zenon DEF opt_i64
<1>5. opt_string(<<x>> \o rest) = opt(tag, string(tag.rest)) BY <1>2, Zenon DEF opt_string
<1> QED BY <1>3, <1>4, <1>5 DEF tag

LEMMA OptIs ==
  ASSUME NEW x, NEW rest, NEW some
  PROVE  /\ x = 0 => opt(Read(x, rest), some) = {Read(<< >>, rest)}
         /\ x = 1 => opt(Read(x, rest), some) = {Read(<<r.value>>, r.rest) : r \in some}
         /\ x \notin {0, 1} => opt(Read(x, rest), some) = {}
<1> DEFINE tag == Read(x, rest)
<1>1. tag.value = x /\ tag.rest = rest BY DEF Read
<1> HIDE DEF tag
<1>2. CASE x = 0 BY <1>1, <1>2 DEF opt, tag
<1>3. CASE x = 1
  <2>1. opt(tag, some) = {Read(<<r.value>>, r.rest) : r \in some} BY <1>1, <1>3 DEF opt
  <2>2. x # 0 BY <1>3
  <2> QED BY <1>3, <2>1, <2>2, Zenon DEF tag
<1>4. CASE x \notin {0, 1} BY <1>1, <1>4 DEF opt, tag
<1> QED BY <1>2, <1>3, <1>4

\* A field is read as it was written, but for times out of range.
LEMMA FieldBack ==
  ASSUME NEW type \in Types, NEW v, IsTaken(type, v), Len(put(type, v)) <= MAX_RECORD_BYTES,
         NEW rest \in Seq(Byte)
  PROVE  read(type, put(type, v) \o rest) = {Read(Kept(type, v), rest)}
<1>0. 0 \in Byte /\ 1 \in Byte /\ <<0>> \in Seq(Byte) /\ <<1>> \in Seq(Byte)
  <2>1. 0 \in Byte /\ 1 \in Byte BY Lengths
  <2> QED BY <2>1
<1>1. \A s \in Seq(Byte) : Len(put_str(s)) <= MAX_RECORD_BYTES => Len(s) < BASE * BASE
  <2> SUFFICES ASSUME NEW s \in Seq(Byte), Len(put_str(s)) <= MAX_RECORD_BYTES
               PROVE  Len(s) < BASE * BASE
    OBVIOUS
  <2>1. put_str(s) \in Seq(Byte)
        /\ (~(Len(s) < BASE * BASE) => Len(put_str(s)) > BASE * BASE)
    BY StringType
  <2>2. Len(put_str(s)) \in Nat BY <2>1, LenProperties
  <2>3. BASE * BASE \in Int BY Lengths
  <2>4. MAX_RECORD_BYTES \in 0 .. BASE * BASE - 1 BY CodecAssumption
  <2> QED BY <2>1, <2>2, <2>3, <2>4
<1>2. \A x, y, z \in Seq(Byte) : (x \o y) \o z = x \o (y \o z) BY Joined
<1>3. CASE type = "number"
  <2>1. v \in Byte /\ put(type, v) = <<v>> /\ Kept(type, v) = v
    BY <1>3, IsAIs, PutIs DEF IsTaken, Kept
  <2>2. read(type, <<v>> \o rest) = byte(<<v>> \o rest) BY <1>3, ReadIs
  <2> QED BY <2>1, <2>2, ByteBack
<1>4. CASE type = "time"
  <2> DEFINE t == put_time(v)
  <2>1. t \in Byte /\ put(type, v) = <<t>> /\ Kept(type, v) = t
    BY <1>4, TimeType, PutIs DEF IsTaken, Kept
  <2> HIDE DEF t
  <2>2. read(type, <<t>> \o rest) = byte(<<t>> \o rest) BY <1>4, ReadIs
  <2> QED BY <2>1, <2>2, ByteBack
<1>5. CASE type = "bool"
  <2> DEFINE s == <<IF v THEN 1 ELSE 0>>
  <2>1. v \in BOOLEAN BY <1>5, IsAIs DEF IsTaken
  <2>2. bool(s \o rest) = {Read(v, rest)} BY <2>1, BoolBack
  <2>3. put("bool", v) = s BY PutIs
  <2> HIDE DEF s
  <2>4. read("bool", s \o rest) = bool(s \o rest) BY ReadIs
  <2>5. Kept("bool", v) = v BY DEF Kept
  <2> QED BY <1>5, <2>2, <2>3, <2>4, <2>5, Zenon
<1>6. CASE type = "string"
  <2>1. v \in Seq(Byte) /\ IsUtf8(v) /\ put(type, v) = put_str(v) /\ Kept(type, v) = v
    BY <1>6, IsAIs, PutIs DEF IsTaken, Kept
  <2>2. Len(v) < BASE * BASE BY <1>1, <2>1
  <2>3. read(type, put_str(v) \o rest) = string(put_str(v) \o rest) BY <1>6, ReadIs
  <2> QED BY <2>1, <2>2, <2>3, StringBack
<1>7. CASE type = "opt_number"
  <2>1. v \in Seq(Byte) /\ Len(v) <= 1 /\ Kept(type, v) = v
    BY <1>7, IsAIs DEF IsTaken, Kept
  <2>2. CASE v = << >>
    <3>1. put(type, v) = <<0>> BY <1>7, <2>2, PutIs
    <3>2. read(type, <<0>> \o rest) = opt(Read(0, rest), byte(rest)) BY <1>7, ReadIs, TagBack
    <3>3. opt(Read(0, rest), byte(rest)) = {Read(<< >>, rest)} BY OptIs
    <3> QED BY <2>1, <2>2, <3>1, <3>2, <3>3
  <2>3. CASE v # << >>
    <3> DEFINE x == v[1]
               more == v \o rest
    <3>1. x \in Byte /\ v = <<x>> BY <2>1, <2>3, JustOne
    <3>2. put(type, v) \o rest = <<1>> \o more /\ more \in Seq(Byte)
      <4>1. put(type, v) = <<1>> \o v BY <1>7, <2>3, PutIs
      <4> QED BY <1>0, <1>2, <2>1, <4>1, ConcatProperties
    <3>3. byte(more) = {Read(x, rest)} BY <3>1, ByteBack
    <3>4. Read(x, rest).value = x /\ Read(x, rest).rest = rest BY DEF Read
    <3> HIDE DEF x, more
    <3>5. read(type, <<1>> \o more) = opt(Read(1, more), byte(more))
      BY <1>7, <3>2, ReadIs, TagBack
    <3>6. opt(Read(1, more), byte(more)) = {Read(<<r.value>>, r.rest) : r \in byte(more)}
      BY OptIs
    <3>7. {Read(<<r.value>>, r.rest) : r \in byte(more)} = {Read(<<x>>, rest)}
      BY <3>3, <3>4, Zenon
    <3>8. read(type, <<1>> \o more) = {Read(<<x>>, rest)} BY <3>5, <3>6, <3>7, Zenon
    <3> QED BY <2>1, <3>1, <3>2, <3>8
  <2> QED BY <2>2, <2>3
<1>8. CASE type = "opt_string"
  <2>1. v \in Seq(Seq(Byte)) /\ Len(v) <= 1 /\ (v # << >> => IsUtf8(v[1])) /\ Kept(type, v) = v
    BY <1>8, IsAIs DEF IsTaken, Kept
  <2>2. CASE v = << >>
    <3>1. put(type, v) = <<0>> BY <1>8, <2>2, PutIs
    <3>2. read(type, <<0>> \o rest) = opt(Read(0, rest), string(rest)) BY <1>8, ReadIs, TagBack
    <3>3. opt(Read(0, rest), string(rest)) = {Read(<< >>, rest)} BY OptIs
    <3> QED BY <2>1, <2>2, <3>1, <3>2, <3>3
  <2>3. CASE v # << >>
    <3> DEFINE x == v[1]
               p == put_str(x)
               more == p \o rest
    <3>1. x \in Seq(Byte) /\ v = <<x>> /\ IsUtf8(x) BY <2>1, <2>3, JustOne
    <3>2. p \in Seq(Byte) BY <3>1, StringType
    <3>3. put(type, v) = <<1>> \o p BY <1>8, <2>3, PutIs
    <3>4. Len(p) <= MAX_RECORD_BYTES
      <4>1. Len(<<1>> \o p) = Len(<<1>>) + Len(p) BY <1>0, <3>2, ConcatProperties
      <4>2. Len(p) \in Nat /\ Len(<<1>>) = 1 BY <3>2, LenProperties
      <4>3. MAX_RECORD_BYTES \in Int
        <5>1. BASE * BASE \in Int BY Lengths
        <5> QED BY <5>1, CodecAssumption
      <4> QED BY <3>3, <4>1, <4>2, <4>3
    <3>5. Len(x) < BASE * BASE BY <1>1, <3>1, <3>4
    <3>6. put(type, v) \o rest = <<1>> \o more /\ more \in Seq(Byte)
      BY <1>0, <1>2, <3>2, <3>3, ConcatProperties
    <3>7. string(more) = {Read(x, rest)} BY <3>1, <3>5, StringBack
    <3>8. Read(x, rest).value = x /\ Read(x, rest).rest = rest BY DEF Read
    <3> HIDE DEF x, p, more
    <3>9. read(type, <<1>> \o more) = opt(Read(1, more), string(more))
      BY <1>8, <3>6, ReadIs, TagBack
    <3>10. opt(Read(1, more), string(more)) = {Read(<<r.value>>, r.rest) : r \in string(more)}
      BY OptIs
    <3>11. {Read(<<r.value>>, r.rest) : r \in string(more)} = {Read(<<x>>, rest)}
      BY <3>7, <3>8, Zenon
    <3>12. read(type, <<1>> \o more) = {Read(<<x>>, rest)} BY <3>9, <3>10, <3>11, Zenon
    <3> QED BY <2>1, <3>1, <3>6, <3>12
  <2> QED BY <2>2, <2>3
<1> QED BY <1>3, <1>4, <1>5, <1>6, <1>7, <1>8 DEF Types

\* Values of fields.
Values == Byte \cup BOOLEAN \cup Seq(Byte) \cup Seq(Seq(Byte))

\* A field that was read is of its type, and written so.
LEMMA FieldRead ==
  ASSUME NEW type \in Types, NEW bytes \in Seq(Byte), NEW r \in read(type, bytes)
  PROVE  /\ r = Read(r.value, r.rest) /\ IsA(type, r.value) /\ r.value \in Values
         /\ r.rest \in Seq(Byte)
         /\ put(type, r.value) \in Seq(Byte) /\ put(type, r.value) \o r.rest = bytes
<1>0. 0 \in Byte /\ 1 \in Byte /\ <<0>> \in Seq(Byte) /\ <<1>> \in Seq(Byte)
  <2>1. 0 \in Byte /\ 1 \in Byte BY Lengths
  <2> QED BY <2>1
<1>1. \A x, y, z \in Seq(Byte) : (x \o y) \o z = x \o (y \o z) BY Joined
<1>2. CASE type \in {"number", "time"}
  <2>1. r \in byte(bytes) BY <1>2, ReadIs
  <2>2. /\ r = Read(r.value, r.rest)
        /\ r.value \in Byte /\ r.rest \in Seq(Byte) /\ <<r.value>> \o r.rest = bytes
    BY <2>1, ByteRead
  <2>3. put(type, r.value) = <<r.value>>
    <3>1. r.value \in Int BY <2>2, Lengths DEF Byte
    <3>2. put_time(r.value) = r.value BY <2>2, <3>1, TimeType
    <3> QED BY <1>2, <3>2, PutIs
  <2>4. IsA(type, r.value) BY <1>2, <2>2, IsAIs
  <2>5. <<r.value>> \in Seq(Byte) BY <2>2
  <2> QED BY <2>2, <2>3, <2>4, <2>5 DEF Values
<1>3. CASE type = "bool"
  <2>1. r \in bool(bytes) BY <1>3, ReadIs
  <2> DEFINE x == IF r.value THEN 1 ELSE 0
  <2>2. /\ r = Read(r.value, r.rest) /\ r.value \in BOOLEAN
        /\ r.rest \in Seq(Byte) /\ <<x>> \o r.rest = bytes
    BY <2>1, BoolRead
  <2>3. put("bool", r.value) = <<x>> BY PutIs
  <2>4. x \in Byte BY <1>0
  <2> HIDE DEF x
  <2>5. <<x>> \in Seq(Byte) BY <2>4
  <2>6. IsA("bool", r.value) BY <2>2, IsAIs
  <2>7. r.value \in Values BY <2>2 DEF Values
  <2> QED BY <1>3, <2>2, <2>3, <2>5, <2>6, <2>7, Zenon
<1>4. CASE type = "string"
  <2>1. r \in string(bytes) BY <1>4, ReadIs
  <2>2. /\ r = Read(r.value, r.rest) /\ r.value \in Seq(Byte) /\ IsUtf8(r.value)
        /\ r.rest \in Seq(Byte) /\ put_str(r.value) \o r.rest = bytes
    BY <2>1, StringRead
  <2>3. put_str(r.value) \in Seq(Byte) BY <2>2, StringType
  <2>4. put(type, r.value) = put_str(r.value) BY <1>4, PutIs
  <2>5. IsA(type, r.value) BY <1>4, <2>2, IsAIs
  <2> QED BY <2>2, <2>3, <2>4, <2>5 DEF Values
<1>5. CASE type = "opt_number"
  <2>1. PICK tag \in byte(bytes) : r \in opt(tag, byte(tag.rest))
    <3>1. r \in opt_i64(bytes) BY <1>5, ReadIs
    <3> QED BY <3>1 DEF opt_i64
  <2>2. tag = Read(tag.value, tag.rest) /\ tag.rest \in Seq(Byte) /\ <<tag.value>> \o tag.rest = bytes
    BY ByteRead
  <2>3. CASE tag.value = 0
    <3>1. r = Read(<< >>, tag.rest) BY <2>1, <2>2, <2>3, OptIs
    <3>2. r.value = << >> /\ r.rest = tag.rest BY <3>1 DEF Read
    <3>3. << >> \in Seq(Byte) /\ Len(<< >>) <= 1 BY EmptySeq
    <3>4. put(type, << >>) = <<0>> BY <1>5, PutIs
    <3>5. IsA(type, << >>) BY <1>5, <3>3, IsAIs
    <3> QED BY <1>0, <2>2, <2>3, <3>1, <3>2, <3>3, <3>4, <3>5 DEF Values
  <2>4. CASE tag.value = 1
    <3>1. PICK b \in byte(tag.rest) : r = Read(<<b.value>>, b.rest) BY <2>1, <2>2, <2>4, OptIs
    <3>2. b.value \in Byte /\ b.rest \in Seq(Byte) /\ <<b.value>> \o b.rest = tag.rest
      BY <2>2, ByteRead
    <3> DEFINE v == <<b.value>>
    <3>3. v \in Seq(Byte) /\ Len(v) = 1 BY <3>2
    <3>4. v # << >> BY <3>3, EmptySeq
    <3>5. r.value = v /\ r.rest = b.rest BY <3>1 DEF Read
    <3>6. v \o b.rest = tag.rest BY <3>2
    <3> HIDE DEF v
    <3>7. put(type, v) = <<1>> \o v BY <1>5, <3>4, PutIs
    <3>8. <<1>> \o v \in Seq(Byte) BY <1>0, <3>3, ConcatProperties
    <3>9. (<<1>> \o v) \o b.rest = <<1>> \o (v \o b.rest) BY <1>0, <1>1, <3>2, <3>3
    <3>10. (<<1>> \o v) \o b.rest = bytes BY <2>2, <2>4, <3>6, <3>9
    <3>11. IsA(type, v)
      <4>1. Len(v) <= 1 BY <3>3
      <4> QED BY <1>5, <3>3, <4>1, IsAIs
    <3>12. v \in Values BY <3>3 DEF Values
    <3>13. r = Read(r.value, r.rest) BY <3>1, <3>5 DEF v
    <3> QED BY <3>2, <3>5, <3>7, <3>8, <3>10, <3>11, <3>12, <3>13
  <2>5. CASE tag.value \notin {0, 1}
    <3>1. opt(tag, byte(tag.rest)) = {} BY <2>2, <2>5, OptIs
    <3> QED BY <2>1, <3>1
  <2> QED BY <2>3, <2>4, <2>5
<1>6. CASE type = "opt_string"
  <2>1. PICK tag \in byte(bytes) : r \in opt(tag, string(tag.rest))
    <3>1. r \in opt_string(bytes) BY <1>6, ReadIs
    <3> QED BY <3>1 DEF opt_string
  <2>2. tag = Read(tag.value, tag.rest) /\ tag.rest \in Seq(Byte) /\ <<tag.value>> \o tag.rest = bytes
    BY ByteRead
  <2>3. CASE tag.value = 0
    <3>1. r = Read(<< >>, tag.rest) BY <2>1, <2>2, <2>3, OptIs
    <3>2. r.value = << >> /\ r.rest = tag.rest BY <3>1 DEF Read
    <3>3. << >> \in Seq(Seq(Byte)) /\ Len(<< >>) <= 1 BY EmptySeq
    <3>4. put(type, << >>) = <<0>> BY <1>6, PutIs
    <3>5. IsA(type, << >>) BY <1>6, <3>3, IsAIs
    <3> QED BY <1>0, <2>2, <2>3, <3>1, <3>2, <3>3, <3>4, <3>5 DEF Values
  <2>4. CASE tag.value = 1
    <3>1. PICK b \in string(tag.rest) : r = Read(<<b.value>>, b.rest) BY <2>1, <2>2, <2>4, OptIs
    <3> DEFINE x == b.value
    <3>2. x \in Seq(Byte) /\ IsUtf8(x) /\ b.rest \in Seq(Byte) /\ put_str(x) \o b.rest = tag.rest
      BY <2>2, StringRead
    <3>3. put_str(x) \in Seq(Byte) BY <3>2, StringType
    <3> DEFINE p == put_str(x)
               v == <<x>>
    <3>4. r.value = v /\ r.rest = b.rest BY <3>1 DEF Read
    <3>5. p \in Seq(Byte) /\ p \o b.rest = tag.rest BY <3>2, <3>3
    <3> HIDE DEF x
    <3>6. v \in Seq(Seq(Byte)) /\ Len(v) = 1 /\ v[1] = x BY <3>2
    <3>7. v # << >> BY <3>6, EmptySeq
    <3>8. put(type, v) = <<1>> \o p
      <4>1. put(type, v) = <<1>> \o put_str(v[1]) BY <1>6, <3>7, PutIs
      <4> QED BY <3>6, <4>1
    <3> HIDE DEF p
    <3>9. <<1>> \o p \in Seq(Byte) BY <1>0, <3>5, ConcatProperties
    <3>10. (<<1>> \o p) \o b.rest = <<1>> \o (p \o b.rest)
      <4> DEFINE u == <<1>>
                 w == b.rest
      <4>1. u \in Seq(Byte) /\ p \in Seq(Byte) /\ w \in Seq(Byte) BY <1>0, <3>2, <3>5
      <4> HIDE DEF u, w
      <4>2. (u \o p) \o w = u \o (p \o w) BY ONLY <4>1, Grouped, Zenon
      <4> QED BY <4>2 DEF u, w
    <3>11. (<<1>> \o p) \o b.rest = bytes BY <2>2, <2>4, <3>5, <3>10
    <3>12. IsA(type, v)
      <4> HIDE DEF v
      <4>1. Len(v) <= 1 /\ (v # << >> => IsUtf8(v[1])) BY <3>2, <3>6
      <4> QED BY <1>6, <3>6, <4>1, IsAIs
    <3>13. v \in Values BY <3>6 DEF Values
    <3>14. r = Read(r.value, r.rest) BY <3>1, <3>4 DEF x
    <3> HIDE DEF v
    <3> QED BY <3>2, <3>4, <3>8, <3>9, <3>11, <3>12, <3>13, <3>14
  <2>5. CASE tag.value \notin {0, 1}
    <3>1. opt(tag, string(tag.rest)) = {} BY <2>2, <2>5, OptIs
    <3> QED BY <2>1, <3>1
  <2> QED BY <2>3, <2>4, <2>5
<1> QED BY <1>2, <1>3, <1>4, <1>5, <1>6 DEF Types

\* What is kept of a value is of its type, and so is what was read and is written again.
LEMMA KeptType ==
  ASSUME NEW type \in Types, NEW v
  PROVE  /\ IsTaken(type, v) => IsA(type, Kept(type, v)) /\ Kept(type, v) \in Values
         /\ IsA(type, v) => IsTaken(type, v)
<1>1. CASE type = "time"
  <2>1. Kept(type, v) = put_time(v) /\ (IsTaken(type, v) => v \in Int) BY <1>1 DEF Kept, IsTaken
  <2>2. v \in Int => put_time(v) \in Byte BY TimeType
  <2>3. \A w : IsA(type, w) <=> w \in Byte BY <1>1, IsAIs
  <2>4. IsTaken(type, v) <=> v \in Int BY <1>1 DEF IsTaken
  <2>5. Byte \subseteq Int BY Lengths DEF Byte
  <2> QED BY <2>1, <2>2, <2>3, <2>4, <2>5 DEF Values
<1>2. CASE type # "time"
  <2>1. Kept(type, v) = v BY <1>2 DEF Kept
  <2>2. IsTaken(type, v) <=> IsA(type, v) BY <1>2 DEF IsTaken
  <2>3. IsA(type, v) => v \in Values
    <3>1. CASE type = "number" BY <3>1, IsAIs DEF Values
    <3>2. CASE type = "bool" BY <3>2, IsAIs DEF Values
    <3>3. CASE type = "string" BY <3>3, IsAIs DEF Values
    <3>4. CASE type = "opt_number" BY <3>4, IsAIs DEF Values
    <3>5. CASE type = "opt_string" BY <3>5, IsAIs DEF Values
    <3> QED BY <1>2, <3>1, <3>2, <3>3, <3>4, <3>5 DEF Types
  <2> QED BY <2>1, <2>2, <2>3
<1> QED BY <1>1, <1>2

----------------------------------------------------------------------------
(* The fields of a span *)

\* A table of the first numbers is a sequence.
LEMMA TableIs ==
  ASSUME NEW S, NEW k \in Nat, NEW f \in [1 .. k -> S]
  PROVE  f \in Seq(S) /\ Len(f) = k
<1>1. f \in Seq(S) BY IsASeq
<1>2. DOMAIN f = 1 .. Len(f) /\ Len(f) \in Nat BY <1>1, LenProperties
<1>3. 1 .. k = 1 .. Len(f) BY <1>2
<1>4. Len(f) = k
  <2> DEFINE m == Len(f)
  <2>1. m \in Nat /\ \A j \in Int : j \in 1 .. k <=> j \in 1 .. m BY <1>2, <1>3
  <2> HIDE DEF m
  <2>2. CASE k < m
    <3>1. m \in 1 .. m BY <2>1, <2>2
    <3> QED BY <2>1, <2>2, <3>1
  <2>3. CASE m < k
    <3>1. k \in 1 .. k BY <2>1, <2>3
    <3> QED BY <2>1, <2>3, <3>1
  <2>4. k = m BY <2>1, <2>2, <2>3
  <2> QED BY <2>4 DEF m
<1> QED BY <1>1, <1>4

LEMMA TableGrows ==
  ASSUME NEW S, NEW k \in Nat, k >= 1, NEW f \in [1 .. k -> S], NEW g \in Seq(S),
         Len(g) = k - 1, \A j \in 1 .. k - 1 : g[j] = f[j]
  PROVE  f = Append(g, f[k]) /\ f[k] \in S
<1>1. f \in Seq(S) /\ Len(f) = k BY TableIs
<1>2. k \in 1 .. k OBVIOUS
<1>3. f[k] \in S BY <1>2
<1> DEFINE h == Append(g, f[k])
<1>4. h \in Seq(S) /\ Len(h) = Len(g) + 1 /\ h[Len(g) + 1] = f[k] /\ \A j \in 1 .. Len(g) : h[j] = g[j]
  BY <1>3, AppendProperties
<1> HIDE DEF h
<1>5. Len(h) = k /\ h[k] = f[k] /\ \A j \in 1 .. k - 1 : h[j] = f[j]
  <2>1. Len(g) + 1 = k OBVIOUS
  <2> QED BY <1>4, <2>1
<1>6. \A j \in 1 .. k : f[j] = h[j]
  <2>1. \A j \in 1 .. k : j = k \/ j \in 1 .. k - 1 OBVIOUS
  <2> QED BY <1>5, <2>1
<1>7. f = h BY <1>1, <1>4, <1>5, <1>6, SeqEqual
<1> QED BY <1>3, <1>7 DEF h

\* What is made of the first sequences is in front of what is made of all.
LEMMA FlattenFront ==
  ASSUME NEW seqs \in Seq(Seq(Byte)), NEW k \in 0 .. Len(seqs)
  PROVE  \E tail \in Seq(Byte) : FlattenSeq(SubSeq(seqs, 1, k)) \o tail = FlattenSeq(seqs)
<1> DEFINE N == Len(seqs)
           F(n) == FlattenSeq(SubSeq(seqs, 1, n))
           all == FlattenSeq(seqs)
           Bad == {m \in 0 .. N : ~\E tail \in Seq(Byte) : F(N - m) \o tail = all}
<1>1. N \in Nat BY LenProperties
<1>2. \A n \in 0 .. N : F(n) \in Seq(Byte) BY Flatten
<1>3. \A n \in 1 .. N : F(n) = F(n - 1) \o seqs[n] /\ seqs[n] \in Seq(Byte) BY Flatten, ElementOfSeq
<1>4. F(N) = all /\ all \in Seq(Byte)
  <2>1. SubSeq(seqs, 1, N) = seqs BY SubSeqFull
  <2>2. N \in 0 .. N BY <1>1
  <2> QED BY <1>2, <2>1, <2>2
<1>5. k \in 0 .. N OBVIOUS
<1> HIDE DEF F, N, all
<1>6. 0 \notin Bad
  <2>1. N - 0 = N BY <1>1
  <2>2. << >> \in Seq(Byte) /\ all \o << >> = all BY <1>4, EmptySeq, ConcatEmptySeq
  <2>3. F(N - 0) \o << >> = all BY <1>4, <2>1, <2>2
  <2> QED BY <2>2, <2>3
<1>7. ASSUME NEW m \in 1 .. N, m - 1 \notin Bad PROVE m \notin Bad
  <2> DEFINE n == N - (m - 1)
  <2>1. n \in 1 .. N /\ n - 1 = N - m /\ m - 1 \in 0 .. N /\ n - 1 \in 0 .. N BY <1>1
  <2>2. PICK tail \in Seq(Byte) : F(N - (m - 1)) \o tail = all BY <1>7, <2>1
  <2>3. F(n) \o tail = all BY <2>2
  <2> HIDE DEF n
  <2>4. F(n) = F(n - 1) \o seqs[n] /\ seqs[n] \in Seq(Byte) /\ F(n - 1) \in Seq(Byte)
    <3>1. n \in 1 .. N /\ n - 1 \in 0 .. N BY <2>1
    <3>2. F(n) = F(n - 1) \o seqs[n] /\ seqs[n] \in Seq(Byte) BY ONLY <1>3, <3>1
    <3>3. F(n - 1) \in Seq(Byte) BY ONLY <1>2, <3>1
    <3> QED BY <3>2, <3>3
  <2>6. F(n - 1) \o (seqs[n] \o tail) = all
    <3> DEFINE a == F(n - 1)
               b == seqs[n]
    <3>1. a \in Seq(Byte) /\ b \in Seq(Byte) /\ (a \o b) \o tail = all BY <2>3, <2>4
    <3>2. a \in Seq(Byte) /\ b \in Seq(Byte) /\ tail \in Seq(Byte) BY <3>1
    <3> HIDE DEF a, b
    <3>3. (a \o b) \o tail = a \o (b \o tail) BY ONLY <3>2, Grouped, Zenon
    <3> QED BY <3>1, <3>3 DEF a, b
  <2>7. seqs[n] \o tail \in Seq(Byte) BY <2>4, ConcatProperties
  <2>8. \E t \in Seq(Byte) : F(N - m) \o t = all BY <2>1, <2>6, <2>7
  <2> QED BY <2>8
<1>8. Bad = {}
  <2>1. \A m \in 1 .. N : m \in Bad => m - 1 \in Bad BY <1>7
  <2>2. Bad \subseteq 0 .. N OBVIOUS
  <2> HIDE DEF Bad
  <2> QED BY <1>1, <1>6, <2>1, <2>2, Upwards
<1>9. N - k \in 0 .. N /\ N - (N - k) = k BY <1>1, <1>5
<1>10. \E tail \in Seq(Byte) : F(k) \o tail = all
  <2>1. N - k \notin Bad BY <1>8
  <2>2. \E tail \in Seq(Byte) : F(N - (N - k)) \o tail = all BY <1>9, <2>1
  <2> QED BY <1>9, <2>2
<1> QED BY <1>10 DEF F, all

\* f has what can be read of the first fields.
FirstFields(f, format, bytes, n) ==
  f = [k \in 0 .. n |->
        IF k = 0 THEN {Read(<< >>, bytes)}
        ELSE UNION {{Read(Append(fields.value, r.value), r.rest) : r \in read(format[k], fields.rest)} :
                      fields \in f[k - 1]}]

LEMMA FirstFieldsExist ==
  ASSUME NEW format, NEW bytes, NEW N \in Nat
  PROVE  \E f : FirstFields(f, format, bytes, N)
<1> DEFINE Bad == {m \in 0 .. N : ~\E f : FirstFields(f, format, bytes, m)}
           more(k, found) ==
             UNION {{Read(Append(fields.value, r.value), r.rest) : r \in read(format[k], fields.rest)} :
                      fields \in found}
           e(h, k) == IF k = 0 THEN {Read(<< >>, bytes)} ELSE more(k, h[k - 1])
<1>1. \A f : \A m \in Nat : FirstFields(f, format, bytes, m) <=> f = [k \in 0 .. m |-> e(f, k)]
  BY Zenon DEF FirstFields
<1> HIDE DEF more
<1>2. 0 \notin Bad
  <2> DEFINE g == [k \in 0 .. 0 |-> {Read(<< >>, bytes)}]
  <2>1. \A k \in 0 .. 0 : k = 0 OBVIOUS
  <2>2. g = [k \in 0 .. 0 |-> e(g, k)] BY <2>1
  <2>3. FirstFields(g, format, bytes, 0) BY <1>1, <2>2
  <2> HIDE DEF g
  <2> QED BY <2>3
<1>3. ASSUME NEW m \in 1 .. N, m - 1 \notin Bad PROVE m \notin Bad
  <2>1. m - 1 \in 0 .. N /\ m - 1 \in Nat /\ m \in Nat OBVIOUS
  <2>2. PICK f : FirstFields(f, format, bytes, m - 1) BY <1>3, <2>1
  <2>3. f = [k \in 0 .. m - 1 |-> e(f, k)] BY <1>1, <2>1, <2>2
  <2> DEFINE g == [k \in 0 .. m |-> e(f, k)]
  <2>4. ASSUME NEW k \in 0 .. m PROVE e(f, k) = e(g, k)
    <3>1. CASE k = 0 BY <3>1
    <3>2. CASE k # 0
      <4>1. k - 1 \in 0 .. m - 1 /\ k - 1 \in 0 .. m BY <3>2
      <4>2. f[k - 1] = e(f, k - 1) BY <2>3, <4>1
      <4>3. g[k - 1] = e(f, k - 1) BY <4>1
      <4>4. f[k - 1] = g[k - 1] BY <4>2, <4>3
      <4> HIDE DEF g
      <4> QED BY <3>2, <4>4
    <3> QED BY <3>1, <3>2
  <2>5. g = [k \in 0 .. m |-> e(g, k)] BY <2>4
  <2> HIDE DEF g, e
  <2>6. FirstFields(g, format, bytes, m) BY <1>1, <2>1, <2>5 DEF e
  <2> QED BY <2>6
<1>4. Bad = {}
  <2>1. \A m \in 1 .. N : m \in Bad => m - 1 \in Bad BY <1>3
  <2>2. Bad \subseteq 0 .. N OBVIOUS
  <2> HIDE DEF Bad, e
  <2> QED BY <1>2, <2>1, <2>2, Upwards
<1>5. N \in 0 .. N OBVIOUS
<1> QED BY <1>4, <1>5

LEMMA ReadFieldsIs ==
  ASSUME NEW format \in Seq(Types), NEW bytes
  PROVE  \E f : /\ f[0] = {Read(<< >>, bytes)}
                /\ \A k \in 1 .. Len(format) :
                     f[k] = UNION {{Read(Append(fields.value, r.value), r.rest) :
                                      r \in read(format[k], fields.rest)} : fields \in f[k - 1]}
                /\ read_fields(format, bytes) = f[Len(format)]
<1> DEFINE N == Len(format)
           f == CHOOSE h : FirstFields(h, format, bytes, N)
<1>1. N \in Nat BY LenProperties
<1>2. read_fields(format, bytes) = f[N] BY DEF read_fields, FirstFields
<1> HIDE DEF N
<1>3. FirstFields(f, format, bytes, N) BY <1>1, FirstFieldsExist
<1> HIDE DEF f
<1>4. f = [k \in 0 .. N |->
            IF k = 0 THEN {Read(<< >>, bytes)}
            ELSE UNION {{Read(Append(fields.value, r.value), r.rest) : r \in read(format[k], fields.rest)} :
                          fields \in f[k - 1]}]
  BY <1>3, Zenon DEF FirstFields
<1>5. f[0] = {Read(<< >>, bytes)}
  <2>1. 0 \in 0 .. N BY <1>1
  <2> QED BY <1>4, <2>1
<1>6. \A k \in 1 .. N :
        f[k] = UNION {{Read(Append(fields.value, r.value), r.rest) : r \in read(format[k], fields.rest)} :
                        fields \in f[k - 1]}
  <2>1. \A k \in 1 .. N : k \in 0 .. N /\ k # 0 BY <1>1
  <2> QED BY <1>4, <2>1
<1> QED BY <1>2, <1>5, <1>6 DEF N

\* What is written of the fields v, and what is kept of them.
AreFields(format, v, puts, kept) ==
  /\ Len(puts) = Len(format) /\ Len(kept) = Len(format)
  /\ \A k \in 1 .. Len(format) :
       /\ IsTaken(format[k], v[k]) /\ puts[k] = put(format[k], v[k])
       /\ kept[k] = Kept(format[k], v[k])

\* Fields that were written one after the other are read as they were kept.
LEMMA FieldsBack ==
  ASSUME NEW format \in Seq(Types), NEW v, NEW puts \in Seq(Seq(Byte)), NEW kept \in Seq(Values),
         AreFields(format, v, puts, kept), Len(FlattenSeq(puts)) <= MAX_RECORD_BYTES
  PROVE  read_fields(format, FlattenSeq(puts)) = {Read(kept, << >>)}
<1>0. /\ Len(puts) = Len(format) /\ Len(kept) = Len(format)
      /\ \A k \in 1 .. Len(format) :
           /\ IsTaken(format[k], v[k]) /\ puts[k] = put(format[k], v[k])
           /\ kept[k] = Kept(format[k], v[k])
  BY DEF AreFields
<1> USE <1>0
<1> DEFINE N == Len(format)
           all == FlattenSeq(puts)
           F(k) == FlattenSeq(SubSeq(puts, 1, k))
           upto(k) == SubSeq(kept, 1, k)
<1>1. N \in Nat BY LenProperties
<1>2. PICK f : /\ f[0] = {Read(<< >>, all)}
               /\ \A k \in 1 .. Len(format) :
                    f[k] = UNION {{Read(Append(fields.value, r.value), r.rest) :
                                     r \in read(format[k], fields.rest)} : fields \in f[k - 1]}
               /\ read_fields(format, all) = f[Len(format)]
  BY ReadFieldsIs
<1>3. \A k \in 0 .. N : F(k) \in Seq(Byte) /\ \E tail \in Seq(Byte) : F(k) \o tail = all
  <2> SUFFICES ASSUME NEW k \in 0 .. N
               PROVE  F(k) \in Seq(Byte) /\ \E tail \in Seq(Byte) : F(k) \o tail = all
    OBVIOUS
  <2>1. k \in 0 .. Len(puts) OBVIOUS
  <2>2. F(k) \in Seq(Byte) BY <2>1, Flatten
  <2>3. \E tail \in Seq(Byte) : F(k) \o tail = all BY <2>1, FlattenFront
  <2> QED BY <2>2, <2>3
<1>4. \A k \in 1 .. N : F(k) = F(k - 1) \o puts[k] /\ puts[k] \in Seq(Byte)
  BY Flatten, ElementOfSeq
<1>5. F(0) = << >> /\ F(N) = all /\ all \in Seq(Byte)
  <2>1. SubSeq(puts, 1, N) = puts BY SubSeqFull
  <2>2. SubSeq(puts, 1, 0) = << >> BY SubSeqEmpty
  <2>3. N \in 0 .. N BY <1>1
  <2> QED BY <1>3, <2>1, <2>2, <2>3, Flatten
<1>6. upto(0) = << >> /\ upto(N) = kept BY SubSeqEmpty, SubSeqFull
<1>7. \A k \in 1 .. N : upto(k) = Append(upto(k - 1), kept[k])
  <2> SUFFICES ASSUME NEW k \in 1 .. N PROVE upto(k) = Append(upto(k - 1), kept[k]) OBVIOUS
  <2>1. 1 \in 1 .. Len(kept) /\ k \in 1 .. Len(kept) /\ k - 1 \in 0 .. Len(kept) BY <1>1
  <2>2. upto(k) = upto(k - 1) \o <<kept[k]>> BY <2>1, SubSeqRecursiveSecond
  <2>3. kept[k] \in Values BY <2>1, ElementOfSeq
  <2>4. upto(k - 1) \in Seq(Values) BY <2>1, Parts
  <2> HIDE DEF upto
  <2> QED BY <2>2, <2>3, <2>4, AppendIsConcat
<1>8. \A k \in 1 .. N : /\ format[k] \in Types /\ IsTaken(format[k], v[k])
                        /\ puts[k] = put(format[k], v[k]) /\ kept[k] = Kept(format[k], v[k])
  BY ElementOfSeq
<1>9. /\ Len(all) <= MAX_RECORD_BYTES
      /\ read_fields(format, all) = f[N]
      /\ \A k \in 1 .. N :
           f[k] = UNION {{Read(Append(fields.value, r.value), r.rest) :
                            r \in read(format[k], fields.rest)} : fields \in f[k - 1]}
  BY <1>2
<1> HIDE DEF N, all, F, upto
<1> DEFINE Ok(k) == \E tail \in Seq(Byte) : F(k) \o tail = all /\ f[k] = {Read(upto(k), tail)}
           Bad == {k \in 0 .. N : ~Ok(k)}
<1>10. 0 \notin Bad
  <2>1. F(0) \o all = all BY <1>5, ConcatEmptySeq
  <2>2. f[0] = {Read(upto(0), all)} BY <1>2, <1>6
  <2> QED BY <1>5, <2>1, <2>2
<1>11. ASSUME NEW k \in 1 .. N, k - 1 \notin Bad PROVE k \notin Bad
  <2>1. k - 1 \in 0 .. N /\ k \in 0 .. N BY <1>1
  <2>2. PICK tail \in Seq(Byte) : F(k - 1) \o tail = all /\ f[k - 1] = {Read(upto(k - 1), tail)}
    BY <1>11, <2>1
  <2>3. PICK t \in Seq(Byte) : F(k) \o t = all BY <1>3, <2>1
  <2> DEFINE a == F(k - 1)
             p == puts[k]
  <2>4. a \in Seq(Byte) /\ p \in Seq(Byte) /\ (a \o p) \o t = all /\ a \o tail = all
    BY <1>3, <1>4, <2>1, <2>2, <2>3
  <2>5. p = put(format[k], v[k]) BY <1>8
  <2> HIDE DEF a, p
  <2>6. tail = p \o t /\ Len(p) <= Len(all)
    <3>1. \A x, y, z \in Seq(Byte) : (x \o y) \o z = x \o (y \o z) BY Joined
    <3>2. \A x, y \in Seq(Byte) : x \o y \in Seq(Byte) /\ Len(x \o y) = Len(x) + Len(y)
      BY ConcatProperties
    <3>3. \A x, y, z \in Seq(Byte) : x \o y = x \o z => y = z
      BY ConcatSimplifications
    <3>4. p \o t \in Seq(Byte) /\ a \o (p \o t) = a \o tail
      <4>1. p \o t \in Seq(Byte) BY <2>4, <3>2
      <4>2. (a \o p) \o t = a \o (p \o t) BY <2>4, <3>1
      <4> QED BY <2>4, <4>1, <4>2
    <3>5. tail = p \o t BY <2>4, <3>3, <3>4
    <3>6. Len(all) = Len(a) + (Len(p) + Len(t)) BY <2>4, <3>2, <3>5
    <3>7. Len(a) \in Nat /\ Len(p) \in Nat /\ Len(t) \in Nat BY <2>4, LenProperties
    <3> QED BY <3>5, <3>6, <3>7
  <2>7. Len(p) <= MAX_RECORD_BYTES
    <3>1. Len(p) \in Nat /\ Len(all) \in Nat BY <1>5, <2>4, LenProperties
    <3>2. MAX_RECORD_BYTES \in Int
      <4>1. BASE * BASE \in Int BY Lengths
      <4> QED BY <4>1, CodecAssumption
    <3> QED BY <1>9, <2>6, <3>1, <3>2
  <2> DEFINE type == format[k]
             x == v[k]
  <2>8. type \in Types /\ IsTaken(type, x) /\ p = put(type, x) /\ kept[k] = Kept(type, x)
    BY <1>8, <2>5
  <2>9. f[k] = UNION {{Read(Append(fields.value, r.value), r.rest) :
                         r \in read(type, fields.rest)} : fields \in f[k - 1]}
    BY <1>9
  <2> HIDE DEF type, x
  <2>10. read(type, tail) = {Read(kept[k], t)}
    <3>1. Len(put(type, x)) <= MAX_RECORD_BYTES BY <2>7, <2>8
    <3>2. read(type, put(type, x) \o t) = {Read(Kept(type, x), t)} BY <2>8, <3>1, FieldBack
    <3> QED BY <2>6, <2>8, <3>2
  <2> DEFINE h == Read(upto(k - 1), tail)
             last == Read(kept[k], t)
  <2>11. h.value = upto(k - 1) /\ h.rest = tail /\ last.value = kept[k] /\ last.rest = t
    BY DEF Read
  <2>12. f[k - 1] = {h} /\ read(type, tail) = {last} BY <2>2, <2>10
  <2> HIDE DEF h, last
  <2>13. f[k] = {Read(Append(h.value, r.value), r.rest) : r \in read(type, h.rest)}
    <3> DEFINE more(fields) ==
                 {Read(Append(fields.value, r.value), r.rest) : r \in read(type, fields.rest)}
    <3>1. f[k] = UNION {more(fields) : fields \in f[k - 1]} BY <2>9
    <3> HIDE DEF more
    <3>2. f[k] = UNION {more(fields) : fields \in {h}} BY <2>12, <3>1, Zenon
    <3>3. f[k] = more(h) BY <3>2
    <3> QED BY <3>3 DEF more
  <2>14. f[k] = {Read(Append(h.value, last.value), last.rest)} BY <2>11, <2>12, <2>13, Zenon
  <2>15. f[k] = {Read(upto(k), t)} BY <1>7, <2>11, <2>14
  <2>16. Ok(k) BY <2>3, <2>15
  <2> QED BY <2>16
<1>12. Bad = {}
  <2>1. \A m \in 1 .. N : m \in Bad => m - 1 \in Bad BY <1>11
  <2>2. Bad \subseteq 0 .. N OBVIOUS
  <2> HIDE DEF Bad
  <2> QED BY <1>1, <1>10, <2>1, <2>2, Upwards
<1>13. Ok(N)
  <2>1. N \in 0 .. N BY <1>1
  <2> QED BY <1>12, <2>1
<1>14. PICK tail \in Seq(Byte) : F(N) \o tail = all /\ f[N] = {Read(upto(N), tail)} BY <1>13
<1>15. tail = << >>
  <2>1. all \o tail = all BY <1>5, <1>14
  <2>2. \A x, y \in Seq(Byte) : x \o y = x => y = << >> BY ConcatSimplifications
  <2> QED BY <1>5, <2>1, <2>2
<1>16. read_fields(format, all) = {Read(kept, << >>)} BY <1>6, <1>9, <1>14, <1>15
<1> QED BY <1>16 DEF all

\* Fields that were read are of their types, and written again give the bytes they were in.
LEMMA FieldsRead ==
  ASSUME NEW format \in Seq(Types), NEW bytes \in Seq(Byte), NEW r \in read_fields(format, bytes)
  PROVE  /\ r.value \in Seq(Values) /\ Len(r.value) = Len(format)
         /\ \A k \in 1 .. Len(format) : IsA(format[k], r.value[k])
         /\ r.rest \in Seq(Byte)
         /\ \E puts \in Seq(Seq(Byte)) :
              /\ Len(puts) = Len(format) /\ FlattenSeq(puts) \in Seq(Byte)
              /\ \A k \in 1 .. Len(format) : puts[k] = put(format[k], r.value[k])
              /\ FlattenSeq(puts) \o r.rest = bytes
<1> DEFINE N == Len(format)
<1>1. N \in Nat BY LenProperties
<1>2. PICK f : /\ f[0] = {Read(<< >>, bytes)}
               /\ \A k \in 1 .. Len(format) :
                    f[k] = UNION {{Read(Append(fields.value, s.value), s.rest) :
                                     s \in read(format[k], fields.rest)} : fields \in f[k - 1]}
               /\ read_fields(format, bytes) = f[Len(format)]
  BY ReadFieldsIs
<1> DEFINE Written1(s, k, puts) ==
             /\ Len(puts) = k /\ FlattenSeq(puts) \in Seq(Byte)
             /\ \A j \in 1 .. k : puts[j] = put(format[j], s.value[j])
             /\ FlattenSeq(puts) \o s.rest = bytes
           Good(s, k) ==
             /\ s.value \in Seq(Values) /\ Len(s.value) = k /\ s.rest \in Seq(Byte)
             /\ \A j \in 1 .. k : IsA(format[j], s.value[j])
             /\ \E puts \in Seq(Seq(Byte)) : Written1(s, k, puts)
           Bad == {k \in 0 .. N : ~\A s \in f[k] : Good(s, k)}
<1>3. 0 \notin Bad
  <2> SUFFICES ASSUME NEW s \in f[0] PROVE Good(s, 0) OBVIOUS
  <2>1. s = Read(<< >>, bytes) BY <1>2
  <2>2. s.value = << >> /\ s.rest = bytes BY <2>1 DEF Read
  <2>3. << >> \in Seq(Values) /\ Len(<< >>) = 0 /\ << >> \in Seq(Seq(Byte)) /\ << >> \in Seq(Byte)
    BY EmptySeq
  <2>4. FlattenSeq(<< >>) = << >> BY <2>3, Flatten
  <2>5. << >> \o bytes = bytes BY ConcatEmptySeq
  <2>6. \A j \in 1 .. 0 : FALSE OBVIOUS
  <2>7. Written1(s, 0, << >>) BY <2>2, <2>3, <2>4, <2>5, <2>6
  <2> HIDE DEF Written1
  <2> QED BY <2>2, <2>3, <2>6, <2>7
<1>4. ASSUME NEW k \in 1 .. N, k - 1 \notin Bad PROVE k \notin Bad
  <2>1. k - 1 \in 0 .. N /\ k - 1 \in Nat /\ k \in Nat /\ k >= 1 BY <1>1
  <2> SUFFICES ASSUME NEW s \in f[k] PROVE Good(s, k) BY <2>1
  <2> DEFINE more(fields) ==
               {Read(Append(fields.value, t.value), t.rest) : t \in read(format[k], fields.rest)}
  <2>2. f[k] = UNION {more(fields) : fields \in f[k - 1]} BY <1>2
  <2> HIDE DEF more
  <2>3. PICK h \in f[k - 1] : s \in more(h) BY <2>2
  <2>4. Good(h, k - 1) BY <1>4, <2>1
  <2>5. PICK t \in read(format[k], h.rest) : s = Read(Append(h.value, t.value), t.rest)
    BY <2>3 DEF more
  <2>6. PICK puts \in Seq(Seq(Byte)) : Written1(h, k - 1, puts) BY <2>4
  <2>7. /\ h.value \in Seq(Values) /\ Len(h.value) = k - 1 /\ h.rest \in Seq(Byte)
        /\ \A j \in 1 .. k - 1 : IsA(format[j], h.value[j])
    BY <2>4
  <2>8. format[k] \in Types
    <3>1. k \in 1 .. Len(format) OBVIOUS
    <3> QED BY <3>1, ElementOfSeq
  <2> DEFINE type == format[k]
             x == t.value
             p == put(type, x)
  <2>9. /\ IsA(type, x) /\ x \in Values /\ t.rest \in Seq(Byte)
        /\ p \in Seq(Byte) /\ p \o t.rest = h.rest
    BY <2>5, <2>7, <2>8, FieldRead
  <2>10. s.value = Append(h.value, x) /\ s.rest = t.rest BY <2>5 DEF Read
  <2>11. /\ s.value \in Seq(Values) /\ Len(s.value) = k /\ s.value[k] = x
         /\ \A j \in 1 .. k - 1 : s.value[j] = h.value[j]
    <3> DEFINE g == h.value
               n == Len(g)
    <3>1. g \in Seq(Values) /\ n = k - 1 /\ n + 1 = k BY <2>1, <2>7
    <3> HIDE DEF g, x
    <3>2. /\ Append(g, x) \in Seq(Values) /\ Len(Append(g, x)) = n + 1
          /\ \A j \in 1 .. n : Append(g, x)[j] = g[j]
          /\ Append(g, x)[n + 1] = x
      BY <2>9, <3>1, AppendProperties
    <3> QED BY <2>10, <3>1, <3>2 DEF g
  <2>12. \A j \in 1 .. k : j = k \/ j \in 1 .. k - 1 BY <2>1
  <2>13. \A j \in 1 .. k : IsA(format[j], s.value[j]) BY <2>7, <2>9, <2>11, <2>12
  <2> DEFINE q == Append(puts, p)
  <2>14. /\ Len(puts) = k - 1 /\ FlattenSeq(puts) \in Seq(Byte)
         /\ \A j \in 1 .. k - 1 : puts[j] = put(format[j], h.value[j])
         /\ FlattenSeq(puts) \o h.rest = bytes
    BY <2>6
  <2>15. /\ q \in Seq(Seq(Byte)) /\ Len(q) = k /\ q[k] = p /\ \A j \in 1 .. k - 1 : q[j] = puts[j]
    <3> DEFINE n == Len(puts)
    <3>1. n = k - 1 /\ n + 1 = k BY <2>1, <2>14
    <3> HIDE DEF p
    <3>2. /\ Append(puts, p) \in Seq(Seq(Byte)) /\ Len(Append(puts, p)) = n + 1
          /\ \A j \in 1 .. n : Append(puts, p)[j] = puts[j]
          /\ Append(puts, p)[n + 1] = p
      BY <2>9, AppendProperties
    <3> QED BY <3>1, <3>2
  <2>16. \A j \in 1 .. k : q[j] = put(format[j], s.value[j])
    <3> HIDE DEF q
    <3>1. q[k] = put(format[k], s.value[k]) BY <2>11, <2>15
    <3>2. \A j \in 1 .. k - 1 : q[j] = put(format[j], s.value[j]) BY <2>11, <2>14, <2>15
    <3> QED BY <2>12, <3>1, <3>2
  <2>17. FlattenSeq(q) = FlattenSeq(puts) \o p /\ FlattenSeq(q) \in Seq(Byte)
    <3> HIDE DEF p
    <3> QED BY <2>9, <2>14, FlattenStep
  <2>18. FlattenSeq(q) \o s.rest = bytes
    <3> DEFINE a == FlattenSeq(puts)
    <3>1. \A u, v, w \in Seq(Byte) : (u \o v) \o w = u \o (v \o w) BY Joined
    <3>2. a \in Seq(Byte) /\ FlattenSeq(q) = a \o p /\ a \o h.rest = bytes BY <2>14, <2>17
    <3> HIDE DEF a, p, q
    <3>3. (a \o p) \o t.rest = a \o (p \o t.rest) BY <2>9, <3>1, <3>2
    <3> QED BY <2>9, <2>10, <3>2, <3>3
  <2>19. Written1(s, k, q) BY <2>15, <2>16, <2>17, <2>18
  <2> HIDE DEF Written1
  <2>20. s.rest \in Seq(Byte) BY <2>9, <2>10
  <2> QED BY <2>11, <2>13, <2>15, <2>19, <2>20
<1>5. Bad = {}
  <2>1. \A m \in 1 .. N : m \in Bad => m - 1 \in Bad BY <1>4
  <2>2. Bad \subseteq 0 .. N OBVIOUS
  <2> HIDE DEF Bad
  <2> QED BY <1>1, <1>3, <2>1, <2>2, Upwards
<1>6. Good(r, N)
  <2>1. N \in 0 .. N /\ r \in f[N] BY <1>1, <1>2
  <2> QED BY <1>5, <2>1
<1> QED BY <1>6

----------------------------------------------------------------------------
(* Spans *)

LEMMA FormatType ==
  ASSUME NEW kind
  PROVE  Format(kind) \in Seq(Types)
<1>1. Header \in Seq(Types)
  <2>1. "number" \in Types /\ "time" \in Types /\ "string" \in Types BY DEF Types
  <2> QED BY <2>1 DEF Header
<1>2. QueryFormat \in Seq(Types)
  <2>1. "number" \in Types /\ "bool" \in Types /\ "string" \in Types /\ "opt_string" \in Types
    BY DEF Types
  <2> QED BY <2>1 DEF QueryFormat
<1>3. PlanNodeFormat \in Seq(Types)
  <2>1. /\ "number" \in Types /\ "bool" \in Types /\ "string" \in Types
        /\ "opt_string" \in Types /\ "opt_number" \in Types
    BY DEF Types
  <2> QED BY <2>1 DEF PlanNodeFormat
<1> QED BY <1>1, <1>2, <1>3, ConcatProperties DEF Format

\* A span as a statement can have it.
IsSpan(span) ==
  LET n == Len(Format(span.kind))
  IN  /\ span = [kind |-> span.kind, fields |-> [k \in 1 .. n |-> span.fields[k]]]
      /\ span.kind \in {KIND_QUERY, KIND_PLAN_NODE}
      /\ \A k \in 1 .. n : IsTaken(Format(span.kind)[k], span.fields[k])

\* A span as it can be decoded.
IsDecoded(span) ==
  /\ span.kind \in {KIND_QUERY, KIND_PLAN_NODE}
  /\ span = [kind |-> span.kind, fields |-> span.fields]
  /\ span.fields \in Seq(Values) /\ Len(span.fields) = Len(Format(span.kind))
  /\ \A k \in 1 .. Len(span.fields) : IsA(Format(span.kind)[k], span.fields[k])

\* The nearest time that can be written is the one that is.
LEMMA Nearest ==
  ASSUME NEW t \in Int
  PROVE  put_time(t) =
           CHOOSE u \in Byte : \A w \in Byte : (u - t) * (u - t) <= (w - t) * (w - t)
<1> DEFINE best == put_time(t)
<1>1. BASE \in Nat /\ BASE > 3 /\ Byte = 0 .. BASE - 1 BY Lengths DEF Byte
<1>2. best \in Byte BY TimeType
<1>3. ASSUME NEW w \in Byte, w # best
      PROVE  (best - t) * (best - t) < (w - t) * (w - t)
  <2>1. CASE t < 0
    <3>1. best = 0 BY <2>1 DEF put_time
    <3>2. w >= 1 BY <1>1, <1>3, <3>1
    <3> DEFINE d == 0 - t
    <3>3. d >= 1 /\ d \in Int BY <2>1
    <3>4. (best - t) * (best - t) = d * d BY <3>1
    <3>5. (w - t) * (w - t) = d * d + 2 * (d * w) + w * w BY <1>1
    <3>6. d * w >= 1 * w BY <1>1, <3>2, <3>3
    <3>7. w * w >= 1 * w BY <1>1, <3>2
    <3>8. d * d \in Int /\ d * w \in Int /\ w * w \in Int /\ w \in Int BY <1>1, <3>3
    <3> HIDE DEF d
    <3> QED BY <3>2, <3>4, <3>5, <3>6, <3>7, <3>8
  <2>2. CASE t >= BASE
    <3>1. best = BASE - 1 BY <1>1, <2>2 DEF put_time
    <3> DEFINE d == t - (BASE - 1)
               e == (BASE - 1) - w
    <3>2. d >= 1 /\ e >= 1 /\ d \in Int /\ e \in Int BY <1>1, <1>3, <2>2, <3>1
    <3>3. best - t = 0 - d /\ w - t = 0 - (d + e) BY <1>1, <3>1
    <3>4. (best - t) * (best - t) = d * d BY <3>2, <3>3
    <3>5. (w - t) * (w - t) = d * d + 2 * (d * e) + e * e BY <3>2, <3>3
    <3> HIDE DEF d, e
    <3>6. d * e >= 1 * e BY <3>2
    <3>7. e * e >= 1 * e BY <3>2
    <3>8. d * d \in Int /\ d * e \in Int /\ e * e \in Int BY <3>2
    <3> QED BY <3>2, <3>4, <3>5, <3>6, <3>7, <3>8
  <2>3. CASE t >= 0 /\ t < BASE
    <3>1. best = t BY <1>1, <2>3 DEF put_time
    <3> DEFINE d == w - t
    <3>2. d \in Int /\ d # 0 BY <1>1, <1>3, <3>1
    <3>3. (best - t) * (best - t) = 0 BY <3>1
    <3> HIDE DEF d
    <3>4. d * d >= 1
      <4>1. CASE d >= 1
        <5>1. d * d >= 1 * d BY <4>1, <3>2
        <5> QED BY <3>2, <4>1, <5>1
      <4>2. CASE d <= -1
        <5> DEFINE m == 0 - d
        <5>1. m >= 1 /\ m \in Int /\ d * d = m * m BY <3>2, <4>2
        <5> HIDE DEF m
        <5>2. m * m >= 1 * m BY <5>1
        <5> QED BY <5>1, <5>2
      <4> QED BY <3>2, <4>1, <4>2
    <3>5. (w - t) * (w - t) >= 1 BY <3>4 DEF d
    <3>6. (w - t) * (w - t) \in Int BY <1>1
    <3> QED BY <3>3, <3>5, <3>6
  <2> QED BY <1>1, <2>1, <2>2, <2>3
<1> HIDE DEF best
<1> DEFINE sq(u) == (u - t) * (u - t)
<1>4. \A u \in Byte : sq(u) \in Int BY <1>1
<1>5. \A w \in Byte : w # best => sq(best) < sq(w) BY <1>3
<1> HIDE DEF sq
<1>6. \A w \in Byte : sq(best) <= sq(w)
  <2> SUFFICES ASSUME NEW w \in Byte PROVE sq(best) <= sq(w) OBVIOUS
  <2>1. CASE w = best BY <1>2, <1>4, <2>1
  <2>2. CASE w # best BY <1>2, <1>4, <1>5, <2>2
  <2> QED BY <2>1, <2>2
<1>7. ASSUME NEW u \in Byte, \A w \in Byte : sq(u) <= sq(w) PROVE u = best
  <2> SUFFICES ASSUME u # best PROVE FALSE OBVIOUS
  <2>1. sq(best) < sq(u) /\ sq(u) <= sq(best) BY <1>2, <1>5, <1>7
  <2>2. sq(u) \in Int /\ sq(best) \in Int BY <1>2, <1>4
  <2> QED BY <2>1, <2>2
<1>8. best = CHOOSE u \in Byte : \A w \in Byte : sq(u) <= sq(w) BY <1>2, <1>6, <1>7
<1> QED BY <1>8 DEF best, sq

\* What a span is when it was written, in terms of what is kept of its fields.
LEMMA WrittenIs ==
  ASSUME NEW span, IsSpan(span)
  PROVE  LET n == Len(Format(span.kind))
         IN  /\ Len(span.fields) = n
             /\ Written(span) =
                  [kind |-> span.kind,
                   fields |-> [k \in 1 .. n |-> Kept(Format(span.kind)[k], span.fields[k])]]
<1> DEFINE n == Len(Format(span.kind))
           format == Format(span.kind)
           v == span.fields
           near(t) == CHOOSE u \in Byte : \A w \in Byte : (u - t) * (u - t) <= (w - t) * (w - t)
           kept == [k \in 1 .. n |-> IF format[k] = "time" THEN near(v[k]) ELSE v[k]]
<1>1. n \in Nat /\ format \in Seq(Types) /\ \A k \in 1 .. n : format[k] \in Types
  BY FormatType, LenProperties, ElementOfSeq
<1>2. /\ span = [kind |-> span.kind, fields |-> [k \in 1 .. n |-> v[k]]]
      /\ \A k \in 1 .. n : IsTaken(format[k], v[k])
  BY DEF IsSpan
<1>3. v = [k \in 1 .. n |-> v[k]] BY <1>2
<1>4. Len(v) = n
  <2> DEFINE T == {v[k] : k \in 1 .. n}
  <2>1. v \in [1 .. n -> T] BY <1>3
  <2> HIDE DEF T, n, v
  <2>2. Len(v) = n BY <1>1, <2>1, TableIs
  <2> QED BY <2>2 DEF n, v
<1>5. Written(span) = [span EXCEPT !.fields = [k \in 1 .. Len(@) |->
                         IF format[k] = "time" THEN near(@[k]) ELSE @[k]]]
  BY DEF Written
<1>6. Written(span) = [kind |-> span.kind, fields |-> [k \in 1 .. Len(v) |->
                         IF format[k] = "time" THEN near(v[k]) ELSE v[k]]]
  <2> HIDE DEF near, format
  <2> DEFINE d(x) == [k \in 1 .. Len(x) |-> IF format[k] = "time" THEN near(x[k]) ELSE x[k]]
  <2>1. Written(span) = [span EXCEPT !.fields = d(@)] BY <1>5
  <2>2. PICK table : span = [kind |-> span.kind, fields |-> table] BY <1>2, Zenon
  <2> HIDE DEF d
  <2>3. [span EXCEPT !.fields = d(@)] = [kind |-> span.kind, fields |-> d(v)] BY <2>2
  <2>4. Written(span) = [kind |-> span.kind, fields |-> d(v)] BY <2>1, <2>3
  <2> QED BY <2>4 DEF d
<1>7. \A k \in 1 .. n : (IF format[k] = "time" THEN near(v[k]) ELSE v[k]) = Kept(format[k], v[k])
  <2> SUFFICES ASSUME NEW k \in 1 .. n
               PROVE  (IF format[k] = "time" THEN near(v[k]) ELSE v[k]) = Kept(format[k], v[k])
    OBVIOUS
  <2> DEFINE type == format[k]
             x == v[k]
  <2>1. IsTaken(type, x) BY <1>2
  <2> HIDE DEF type, x
  <2>2. CASE type = "time"
    <3>1. x \in Int /\ Kept(type, x) = put_time(x) BY <2>1, <2>2 DEF IsTaken, Kept
    <3>2. put_time(x) = near(x) BY <3>1, Nearest
    <3> QED BY <2>2, <3>1, <3>2 DEF type, x
  <2>3. CASE type # "time" BY <2>3 DEF Kept, type, x
  <2> QED BY <2>2, <2>3
<1>8. [k \in 1 .. n |-> IF format[k] = "time" THEN near(v[k]) ELSE v[k]] =
      [k \in 1 .. n |-> Kept(format[k], v[k])]
  <2> HIDE DEF near, format, n, v
  <2> QED BY <1>7
<1>9. Written(span) = [kind |-> span.kind, fields |-> [k \in 1 .. n |-> Kept(format[k], v[k])]]
  <2> HIDE DEF near
  <2> QED BY <1>4, <1>6, <1>8
<1> QED BY <1>4, <1>9

\* The bytes of a span: its head and its fields.
LEMMA EncodedIs ==
  ASSUME NEW span, NEW puts \in Seq(Seq(Byte)), span.kind \in {KIND_QUERY, KIND_PLAN_NODE},
         Len(puts) = Len(span.fields), FlattenSeq(puts) \in Seq(Byte),
         \A k \in 1 .. Len(puts) : puts[k] = put(Format(span.kind)[k], span.fields[k])
  PROVE  LET head == <<FORMAT_VERSION, span.kind>>
         IN  /\ head \in Seq(Byte) /\ Len(head) = 2 /\ head[1] = FORMAT_VERSION /\ head[2] = span.kind
             /\ encode_span(span) = head \o FlattenSeq(puts) /\ encode_span(span) \in Seq(Byte)
             /\ Len(encode_span(span)) = 2 + Len(FlattenSeq(puts))
<1> DEFINE head == <<FORMAT_VERSION, span.kind>>
           e == [k \in 1 .. Len(span.fields) |-> put(Format(span.kind)[k], span.fields[k])]
           all == FlattenSeq(puts)
<1>1. FORMAT_VERSION \in Byte /\ span.kind \in Byte
  BY Lengths DEF FORMAT_VERSION, KIND_QUERY, KIND_PLAN_NODE
<1>2. head \in Seq(Byte) /\ Len(head) = 2 /\ head[1] = FORMAT_VERSION /\ head[2] = span.kind
  BY <1>1
<1>3. e = puts
  <2>1. puts \in [1 .. Len(puts) -> Seq(Byte)] BY LenProperties
  <2>2. \A k \in 1 .. Len(puts) : e[k] = puts[k] OBVIOUS
  <2>3. e = [k \in 1 .. Len(puts) |-> e[k]] OBVIOUS
  <2> HIDE DEF e
  <2> QED BY <2>1, <2>2, <2>3
<1>4. encode_span(span) = head \o FlattenSeq(e) BY DEF encode_span
<1>5. encode_span(span) = head \o all BY <1>3, <1>4
<1> HIDE DEF head, e, all
<1>6. head \o all \in Seq(Byte) /\ Len(head \o all) = Len(head) + Len(all)
  <2>1. all \in Seq(Byte) BY DEF all
  <2> QED BY <1>2, <2>1, ConcatProperties
<1> QED BY <1>2, <1>5, <1>6 DEF head, all

\* What decode_span reads of a head and more.
LEMMA DecodedIs ==
  ASSUME NEW head \in Seq(Byte), NEW all \in Seq(Byte), Len(head) = 2,
         NEW kind \in {KIND_QUERY, KIND_PLAN_NODE}, head[1] = FORMAT_VERSION, head[2] = kind
  PROVE  decode_span(head \o all) =
           {[kind |-> kind, fields |-> fields.value] :
              fields \in {f \in read_fields(Format(kind), all) : ended(f)}}
<1> DEFINE bytes == head \o all
<1>0. bytes \in Seq(Byte) BY ConcatProperties
<1>1. Len(all) \in Nat BY LenProperties
<1>2. Len(bytes) = 2 + Len(all) /\ bytes[1] = FORMAT_VERSION /\ bytes[2] = kind
  <2>1. /\ Len(head \o all) = Len(head) + Len(all)
        /\ \A j \in 1 .. Len(head) + Len(all) :
             (head \o all)[j] = IF j <= Len(head) THEN head[j] ELSE all[j - Len(head)]
    BY ConcatProperties
  <2>2. 1 \in 1 .. Len(head) + Len(all) /\ 2 \in 1 .. Len(head) + Len(all) BY <1>1
  <2> QED BY <2>1, <2>2
<1>3. SubSeq(bytes, 3, Len(bytes)) = all
  <2>0. bytes = head \o all OBVIOUS
  <2> DEFINE two == 2
  <2>1. two \in 0 .. Len(bytes) BY <1>1, <1>2
  <2> HIDE DEF two, bytes
  <2>2. /\ SubSeq(bytes, 1, two) \in Seq(Byte) /\ Len(SubSeq(bytes, 1, two)) = two
        /\ SubSeq(bytes, two + 1, Len(bytes)) \in Seq(Byte)
        /\ SubSeq(bytes, 1, two) \o SubSeq(bytes, two + 1, Len(bytes)) = bytes
    BY <1>0, <2>1, Parts
  <2>3. Len(head) = two BY DEF two
  <2>4. SubSeq(bytes, two + 1, Len(bytes)) = all BY <2>0, <2>2, <2>3, SameFront
  <2>5. two + 1 = 3 BY DEF two
  <2> QED BY <2>4, <2>5
<1>4. {k \in {KIND_QUERY, KIND_PLAN_NODE} :
         Len(bytes) >= 2 /\ bytes[1] = FORMAT_VERSION /\ bytes[2] = k} = {kind}
  <2>1. Len(bytes) >= 2 BY <1>1, <1>2
  <2> QED BY <1>2, <2>1
<1> DEFINE of(k) == {[kind |-> k, fields |-> fields.value] :
                        fields \in {f \in read_fields(Format(k), SubSeq(bytes, 3, Len(bytes))) : ended(f)}}
<1>5. decode_span(bytes) = UNION {of(k) : k \in {kind}} BY <1>4, Zenon DEF decode_span
<1>6. of(kind) = {[kind |-> kind, fields |-> fields.value] :
                    fields \in {f \in read_fields(Format(kind), all) : ended(f)}}
  BY <1>3, Zenon
<1> HIDE DEF of
<1>7. decode_span(bytes) = of(kind) BY <1>5
<1> QED BY <1>6, <1>7

\* The fields of a span as they are written, and as they are kept.
LEMMA PutsOf ==
  ASSUME NEW span, IsSpan(span)
  PROVE  LET n      == Len(Format(span.kind))
             format == Format(span.kind)
         IN  \E puts \in Seq(Seq(Byte)), kept \in Seq(Values) :
               /\ Len(puts) = n /\ Len(kept) = n
               /\ \A k \in 1 .. n :
                    /\ IsTaken(format[k], span.fields[k]) /\ puts[k] = put(format[k], span.fields[k])
                    /\ kept[k] = Kept(format[k], span.fields[k])
               /\ Written(span) = [kind |-> span.kind, fields |-> kept]
               /\ FlattenSeq(puts) \in Seq(Byte) /\ Len(span.fields) = n
<1> DEFINE n == Len(Format(span.kind))
           format == Format(span.kind)
           v == span.fields
           puts == [k \in 1 .. n |-> put(format[k], v[k])]
           kept == [k \in 1 .. n |-> Kept(format[k], v[k])]
<1>1. n \in Nat /\ \A k \in 1 .. n : format[k] \in Types
  BY FormatType, LenProperties, ElementOfSeq
<1>2. \A k \in 1 .. n : IsTaken(format[k], v[k]) BY DEF IsSpan
<1>3. Len(v) = n /\ Written(span) = [kind |-> span.kind, fields |-> kept] BY WrittenIs
<1> HIDE DEF n, format, v
<1>4. puts \in [1 .. n -> Seq(Byte)] /\ kept \in [1 .. n -> Values]
  <2>1. \A k \in 1 .. n : put(format[k], v[k]) \in Seq(Byte) BY <1>1, <1>2, FieldType
  <2>2. \A k \in 1 .. n : Kept(format[k], v[k]) \in Values BY <1>1, <1>2, KeptType
  <2> QED BY <2>1, <2>2
<1>5. \A k \in 1 .. n : puts[k] = put(format[k], v[k]) /\ kept[k] = Kept(format[k], v[k]) OBVIOUS
<1> HIDE DEF puts, kept
<1>6. puts \in Seq(Seq(Byte)) /\ Len(puts) = n /\ kept \in Seq(Values) /\ Len(kept) = n
  BY <1>1, <1>4, TableIs
<1>7. FlattenSeq(puts) \in Seq(Byte)
  <2>1. n \in 0 .. Len(puts) BY <1>1, <1>6
  <2>2. FlattenSeq(SubSeq(puts, 1, n)) \in Seq(Byte) BY <1>6, <2>1, Flatten
  <2>3. SubSeq(puts, 1, n) = puts BY <1>6, SubSeqFull
  <2> QED BY <2>2, <2>3
<1> QED BY <1>2, <1>3, <1>5, <1>6, <1>7 DEF n, format, v

\* A span that fits a record is decoded as it was, but for times out of range.
LEMMA SpanBack ==
  ASSUME NEW span, IsSpan(span)
  PROVE  /\ encode_span(span) \in Seq(Byte)
         /\ Len(encode_span(span)) <= MAX_RECORD_BYTES =>
              decode_span(encode_span(span)) = {Written(span)}
<1> DEFINE n == Len(Format(span.kind))
           format == Format(span.kind)
           kind == span.kind
           head == <<FORMAT_VERSION, kind>>
           bytes == encode_span(span)
<1>1. PICK puts \in Seq(Seq(Byte)), kept \in Seq(Values) :
        /\ Len(puts) = n /\ Len(kept) = n
        /\ \A k \in 1 .. n : /\ IsTaken(format[k], span.fields[k])
                             /\ puts[k] = put(format[k], span.fields[k])
                             /\ kept[k] = Kept(format[k], span.fields[k])
        /\ Written(span) = [kind |-> kind, fields |-> kept]
        /\ FlattenSeq(puts) \in Seq(Byte) /\ Len(span.fields) = n
  BY PutsOf
<1>2. kind \in {KIND_QUERY, KIND_PLAN_NODE} /\ format \in Seq(Types) BY FormatType DEF IsSpan
<1> DEFINE all == FlattenSeq(puts)
<1>3. /\ head \in Seq(Byte) /\ Len(head) = 2 /\ head[1] = FORMAT_VERSION /\ head[2] = kind
      /\ bytes = head \o all /\ bytes \in Seq(Byte) /\ Len(bytes) = 2 + Len(all)
  BY <1>1, <1>2, EncodedIs
<1> SUFFICES ASSUME Len(bytes) <= MAX_RECORD_BYTES PROVE decode_span(bytes) = {Written(span)}
  BY <1>3
<1>4. Len(all) <= MAX_RECORD_BYTES /\ all \in Seq(Byte)
  <2>1. MAX_RECORD_BYTES \in Int
    <3>1. BASE * BASE \in Int BY Lengths
    <3> QED BY <3>1, CodecAssumption
  <2>2. all \in Seq(Byte) /\ Len(all) \in Nat BY <1>1, LenProperties
  <2> QED BY <1>3, <2>1, <2>2
<1> DEFINE r == Read(kept, << >>)
<1>5. read_fields(format, all) = {r}
  <2>1. AreFields(format, span.fields, puts, kept) BY <1>1 DEF AreFields
  <2> HIDE DEF format
  <2> QED BY <1>2, <1>4, <2>1, FieldsBack
<1>6. decode_span(bytes) = {[kind |-> kind, fields |-> fields.value] :
                              fields \in {f \in read_fields(format, all) : ended(f)}}
  <2> HIDE DEF head, all
  <2>1. /\ head \in Seq(Byte) /\ all \in Seq(Byte) /\ Len(head) = 2
        /\ kind \in {KIND_QUERY, KIND_PLAN_NODE} /\ head[1] = FORMAT_VERSION /\ head[2] = kind
    BY <1>2, <1>3, <1>4
  <2>2. format = Format(kind) /\ bytes = head \o all BY <1>3
  <2> HIDE DEF kind, format, bytes
  <2>3. decode_span(head \o all) =
          {[kind |-> kind, fields |-> fields.value] :
             fields \in {f \in read_fields(Format(kind), all) : ended(f)}}
    BY ONLY <2>1, DecodedIs
  <2> QED BY ONLY <2>2, <2>3, Zenon
<1>7. r.value = kept /\ r.rest = << >> BY DEF Read
<1> HIDE DEF r, format, all, bytes
<1>8. {f \in read_fields(format, all) : ended(f)} = {r} BY <1>5, <1>7 DEF ended
<1>9. decode_span(bytes) = {[kind |-> kind, fields |-> r.value]} BY <1>6, <1>8, Zenon
<1> QED BY <1>1, <1>7, <1>9

\* What was decoded is a span, and written again gives the bytes it was in.
LEMMA SpanRead ==
  ASSUME NEW bytes \in Seq(Byte), NEW span \in decode_span(bytes)
  PROVE  IsDecoded(span) /\ encode_span(span) = bytes
<1>1. PICK kind \in {KIND_QUERY, KIND_PLAN_NODE} :
        /\ Len(bytes) >= 2 /\ bytes[1] = FORMAT_VERSION /\ bytes[2] = kind
        /\ span \in {[kind |-> kind, fields |-> fields.value] :
                       fields \in {f \in read_fields(Format(kind), SubSeq(bytes, 3, Len(bytes))) : ended(f)}}
  BY DEF decode_span
<1> DEFINE rest == SubSeq(bytes, 3, Len(bytes))
           start == SubSeq(bytes, 1, 2)
           format == Format(kind)
<1>2. PICK r \in read_fields(format, rest) : ended(r) /\ span = [kind |-> kind, fields |-> r.value]
  BY <1>1
<1>3. /\ start \in Seq(Byte) /\ Len(start) = 2 /\ rest \in Seq(Byte) /\ start \o rest = bytes
      /\ start[1] = bytes[1] /\ start[2] = bytes[2]
  <2> DEFINE two == 2
  <2>1. Len(bytes) \in Nat BY LenProperties
  <2>2. two \in 0 .. Len(bytes) BY <1>1, <2>1
  <2> HIDE DEF two
  <2>3. /\ SubSeq(bytes, 1, two) \in Seq(Byte) /\ Len(SubSeq(bytes, 1, two)) = two
        /\ SubSeq(bytes, two + 1, Len(bytes)) \in Seq(Byte)
        /\ SubSeq(bytes, 1, two) \o SubSeq(bytes, two + 1, Len(bytes)) = bytes
    BY <2>2, Parts
  <2>4. two = 2 /\ two + 1 = 3 BY DEF two
  <2>5. start \in Seq(Byte) /\ Len(start) = 2 /\ rest \in Seq(Byte) /\ start \o rest = bytes
    BY <2>3, <2>4
  <2> HIDE DEF start, rest
  <2>6. \A j \in 1 .. Len(start) + Len(rest) :
          (start \o rest)[j] = IF j <= Len(start) THEN start[j] ELSE rest[j - Len(start)]
    BY <2>5, ConcatProperties
  <2>7. Len(rest) \in Nat BY <2>5, LenProperties
  <2>8. 1 \in 1 .. Len(start) + Len(rest) /\ 2 \in 1 .. Len(start) + Len(rest) BY <2>5, <2>7
  <2>9. bytes[1] = start[1] /\ bytes[2] = start[2] BY <2>5, <2>6, <2>8
  <2> QED BY <2>5, <2>9
<1>4. format \in Seq(Types) BY FormatType
<1> DEFINE v == r.value
<1>5. PICK puts \in Seq(Seq(Byte)) :
        /\ v \in Seq(Values) /\ Len(v) = Len(format)
        /\ \A k \in 1 .. Len(format) : IsA(format[k], v[k])
        /\ r.rest \in Seq(Byte)
        /\ Len(puts) = Len(format) /\ FlattenSeq(puts) \in Seq(Byte)
        /\ \A k \in 1 .. Len(format) : puts[k] = put(format[k], v[k])
        /\ FlattenSeq(puts) \o r.rest = rest
  <2> HIDE DEF format, rest
  <2> QED BY <1>2, <1>3, <1>4, FieldsRead
<1> HIDE DEF v
<1>6. span.kind = kind /\ span.fields = v BY <1>2 DEF v
<1>7. FlattenSeq(puts) = rest
  <2>1. r.rest = << >> BY <1>2 DEF ended
  <2> QED BY <1>5, <2>1, ConcatEmptySeq
<1>8. encode_span(span) = <<FORMAT_VERSION, kind>> \o FlattenSeq(puts)
  <2>1. Len(puts) = Len(span.fields) BY <1>5, <1>6
  <2>2. \A k \in 1 .. Len(puts) : puts[k] = put(Format(span.kind)[k], span.fields[k])
    BY <1>5, <1>6
  <2> QED BY <1>5, <1>6, <2>1, <2>2, EncodedIs
<1>9. <<FORMAT_VERSION, kind>> = start
  <2> DEFINE head == <<FORMAT_VERSION, kind>>
  <2>1. FORMAT_VERSION \in Byte /\ kind \in Byte
    BY Lengths DEF FORMAT_VERSION, KIND_QUERY, KIND_PLAN_NODE
  <2>2. head \in Seq(Byte) /\ Len(head) = 2 /\ head[1] = FORMAT_VERSION /\ head[2] = kind BY <2>1
  <2> HIDE DEF head, start
  <2>3. \A j \in 1 .. Len(head) : head[j] = start[j]
    <3>1. \A j \in 1 .. Len(head) : j = 1 \/ j = 2 BY <2>2
    <3> QED BY <1>1, <1>3, <2>2, <3>1
  <2>4. head = start BY <1>3, <2>2, <2>3, SeqEqual
  <2> QED BY <2>4 DEF head
<1>10. encode_span(span) = bytes BY <1>3, <1>7, <1>8, <1>9
<1>11. IsDecoded(span)
  <2>1. span = [kind |-> span.kind, fields |-> span.fields] BY <1>2, <1>6 DEF v
  <2>2. /\ span.fields \in Seq(Values) /\ Len(span.fields) = Len(Format(span.kind))
        /\ \A k \in 1 .. Len(span.fields) : IsA(Format(span.kind)[k], span.fields[k])
    BY <1>5, <1>6
  <2> QED BY <1>6, <2>1, <2>2 DEF IsDecoded
<1> QED BY <1>10, <1>11

----------------------------------------------------------------------------
(* Records *)

\* Bytes of a record.
Record(p) == put_len(Len(p)) \o p

LEMMA Limit == MAX_RECORD_BYTES \in Int /\ MAX_RECORD_BYTES < BASE * BASE /\ BASE * BASE \in Int
<1>1. BASE * BASE \in Int BY Lengths
<1> QED BY <1>1, CodecAssumption

\* A record is read as it was written.
LEMMA RecordBack ==
  ASSUME NEW p \in Seq(Byte), Len(p) <= MAX_RECORD_BYTES, NEW rest \in Seq(Byte)
  PROVE  /\ Record(p) \in Seq(Byte) /\ Len(Record(p)) = 2 + Len(p)
         /\ put_len(Len(p)) \in Seq(Byte) /\ Len(put_len(Len(p))) = 2
         /\ split_record(Record(p) \o rest) = {Read(p, rest)}
<1> DEFINE n == Len(p)
           more == p \o rest
           prefix == Read(put_len(n), more)
<1>1. n \in 0 .. BASE * BASE - 1
  <2>1. Len(p) \in Nat BY LenProperties
  <2> QED BY <2>1, Limit
<1>2. more \in Seq(Byte) BY ConcatProperties
<1>3. take(more, n) = {Read(p, rest)} BY TakeIs
<1> HIDE DEF n, more
<1>4. /\ put_len(n) \in Seq(Byte) /\ Len(put_len(n)) = 2
      /\ take(put_len(n) \o more, 2) = {prefix}
      /\ put_len(n)[1] + put_len(n)[2] * BASE = n
  BY <1>1, <1>2, LengthBack
<1>5. /\ put_len(n) \o p \in Seq(Byte) /\ Len(put_len(n) \o p) = 2 + n
      /\ (put_len(n) \o p) \o rest = put_len(n) \o more
  <2> DEFINE a == put_len(n)
  <2>1. a \in Seq(Byte) /\ Len(a) = 2 BY <1>4
  <2> HIDE DEF a
  <2>2. a \o p \in Seq(Byte) /\ Len(a \o p) = Len(a) + Len(p) BY <2>1, ConcatProperties
  <2>3. (a \o p) \o rest = a \o (p \o rest) BY <2>1, ConcatAssociative
  <2> QED BY <2>1, <2>2, <2>3 DEF a, n, more
<1>6. prefix.value = put_len(n) /\ prefix.rest = more BY DEF Read
<1> HIDE DEF prefix
<1>7. UNION {take(x.rest, x.value[1] + x.value[2] * BASE) : x \in {prefix}} = {Read(p, rest)}
  <2>1. take(prefix.rest, prefix.value[1] + prefix.value[2] * BASE) = {Read(p, rest)}
    BY <1>3, <1>4, <1>6
  <2> QED BY <2>1, Zenon
<1>8. split_record(put_len(n) \o more) = {r \in {Read(p, rest)} : Len(r.value) <= MAX_RECORD_BYTES}
  BY <1>4, <1>7, Zenon DEF split_record
<1>9. Read(p, rest).value = p BY DEF Read
<1>10. split_record(put_len(n) \o more) = {Read(p, rest)} BY <1>8, <1>9
<1> QED BY <1>4, <1>5, <1>10 DEF Record, n

LEMMA RecordRead ==
  ASSUME NEW bytes \in Seq(Byte), NEW r \in split_record(bytes)
  PROVE  r.value \in Seq(Byte) /\ r.rest \in Seq(Byte)
<1>1. PICK prefix \in take(bytes, 2) : r \in take(prefix.rest, prefix.value[1] + prefix.value[2] * BASE)
  BY DEF split_record
<1> DEFINE n == prefix.value[1] + prefix.value[2] * BASE
           more == prefix.rest
<1>2. n \in 0 .. BASE * BASE - 1 /\ more \in Seq(Byte) BY LengthRead
<1>3. r \in take(more, n) BY <1>1
<1> HIDE DEF n, more
<1>4. n \in Nat
  <2>1. BASE * BASE \in Int BY Lengths
  <2> QED BY <1>2, <2>1
<1> QED BY <1>2, <1>3, <1>4, Taken

\* A span whose record is not too large.
Fits(span) == IsSpan(span) /\ Len(encode_span(span)) <= MAX_RECORD_BYTES

AllFit(recs, n) == \A j \in 1 .. n : Fits(recs[j])

\* The bytes of the first k records.
Bytes(recs, k) == FlattenSeq([j \in 1 .. k |-> Record(encode_span(recs[j]))])

\* One record more each time; in front of all are the first, and with each they grow.
LEMMA BytesAre ==
  ASSUME NEW recs, NEW n \in Nat, AllFit(recs, n)
  PROVE  /\ Bytes(recs, 0) = << >>
         /\ \A k \in 0 .. n : /\ Bytes(recs, k) \in Seq(Byte)
                              /\ \E tail \in Seq(Byte) : Bytes(recs, k) \o tail = Bytes(recs, n)
         /\ \A k \in 1 .. n :
              /\ encode_span(recs[k]) \in Seq(Byte) /\ Record(encode_span(recs[k])) \in Seq(Byte)
              /\ Bytes(recs, k) = Bytes(recs, k - 1) \o Record(encode_span(recs[k]))
<1> DEFINE e(j) == Record(encode_span(recs[j]))
           seqs == [j \in 1 .. n |-> e(j)]
<1>1. ASSUME NEW j \in 1 .. n PROVE encode_span(recs[j]) \in Seq(Byte) /\ e(j) \in Seq(Byte)
  <2> DEFINE span == recs[j]
  <2>1. IsSpan(span) /\ Len(encode_span(span)) <= MAX_RECORD_BYTES BY DEF AllFit, Fits
  <2> HIDE DEF span
  <2>2. encode_span(span) \in Seq(Byte) BY <2>1, SpanBack
  <2> DEFINE p == encode_span(span)
  <2>3. p \in Seq(Byte) /\ Len(p) <= MAX_RECORD_BYTES /\ << >> \in Seq(Byte) BY <2>1, <2>2, EmptySeq
  <2> HIDE DEF p
  <2>4. Record(p) \in Seq(Byte) BY <2>3, RecordBack
  <2> QED BY <2>2, <2>4 DEF span, p
<1> HIDE DEF e
<1>2. seqs \in [1 .. n -> Seq(Byte)] BY <1>1
<1>3. \A j \in 1 .. n : seqs[j] = e(j) OBVIOUS
<1>4. \A k \in 0 .. n : Bytes(recs, k) = FlattenSeq([j \in 1 .. k |-> e(j)]) BY DEF Bytes, e
<1> HIDE DEF seqs
<1>5. seqs \in Seq(Seq(Byte)) /\ Len(seqs) = n BY <1>2, TableIs
<1>6. ASSUME NEW k \in 0 .. n PROVE SubSeq(seqs, 1, k) = [j \in 1 .. k |-> e(j)]
  <2> DEFINE part == SubSeq(seqs, 1, k)
             front == [j \in 1 .. k |-> e(j)]
  <2>1. k \in 0 .. Len(seqs) /\ k \in Nat BY <1>5
  <2>2. part \in Seq(Seq(Byte)) /\ Len(part) = k BY <1>5, <2>1, Parts
  <2>3. \A j \in 1 .. k : part[j] = e(j)
    <3> DEFINE one == 1
    <3>1. one \in Nat /\ k \in Int /\ k <= Len(seqs) /\ one <= one BY <1>5
    <3>2. \A j \in 1 .. k - one + 1 : SubSeq(seqs, one, k)[j] = seqs[one + j - 1]
      <4> HIDE DEF one
      <4> QED BY <1>5, <3>1, PartIs DEF one
    <3>3. k - one + 1 = k /\ \A j \in 1 .. k : one + j - 1 = j /\ j \in 1 .. n OBVIOUS
    <3> HIDE DEF one
    <3>4. \A j \in 1 .. k : SubSeq(seqs, one, k)[j] = seqs[j] BY <3>2, <3>3
    <3> QED BY <1>3, <3>3, <3>4 DEF one
  <2> HIDE DEF part
  <2>4. part = [j \in 1 .. Len(part) |-> part[j]] BY <2>2
  <2> QED BY <2>2, <2>3, <2>4 DEF part
<1>7. SubSeq(seqs, 1, n) = seqs BY <1>5, SubSeqFull
<1>8. \A k \in 0 .. n : Bytes(recs, k) = FlattenSeq(SubSeq(seqs, 1, k)) BY <1>4, <1>6
<1>9. Bytes(recs, n) = FlattenSeq(seqs)
  <2>1. n \in 0 .. n OBVIOUS
  <2> QED BY <1>7, <1>8, <2>1
<1>10. Bytes(recs, 0) = << >>
  <2>1. SubSeq(seqs, 1, 0) = << >> BY SubSeqEmpty
  <2>2. 0 \in 0 .. n OBVIOUS
  <2> QED BY <1>5, <1>8, <2>1, <2>2, Flatten
<1>11. ASSUME NEW k \in 0 .. n
       PROVE  /\ Bytes(recs, k) \in Seq(Byte)
              /\ \E tail \in Seq(Byte) : Bytes(recs, k) \o tail = Bytes(recs, n)
  <2>1. k \in 0 .. Len(seqs) BY <1>5
  <2>2. FlattenSeq(SubSeq(seqs, 1, k)) \in Seq(Byte) BY <1>5, <2>1, Flatten
  <2>3. \E tail \in Seq(Byte) : FlattenSeq(SubSeq(seqs, 1, k)) \o tail = FlattenSeq(seqs)
    BY <1>5, <2>1, FlattenFront
  <2> QED BY <1>8, <1>9, <2>2, <2>3
<1>12. ASSUME NEW k \in 1 .. n PROVE Bytes(recs, k) = Bytes(recs, k - 1) \o e(k)
  <2>1. k \in 1 .. Len(seqs) /\ k \in 0 .. n /\ k - 1 \in 0 .. n BY <1>5
  <2>2. FlattenSeq(SubSeq(seqs, 1, k)) = FlattenSeq(SubSeq(seqs, 1, k - 1)) \o seqs[k]
    BY <1>5, <2>1, Flatten
  <2> QED BY <1>3, <1>8, <2>1, <2>2
<1> QED BY <1>1, <1>10, <1>11, <1>12 DEF e

\* They are longer with each record.
LEMMA BytesGrow ==
  ASSUME NEW recs, NEW n \in Nat, AllFit(recs, n)
  PROVE  /\ \A k \in 0 .. n : Len(Bytes(recs, k)) \in Nat
         /\ Len(Bytes(recs, 0)) = 0
         /\ \A k \in 1 .. n :
              /\ Len(encode_span(recs[k])) \in Nat
              /\ Len(Bytes(recs, k)) = Len(Bytes(recs, k - 1)) + 2 + Len(encode_span(recs[k]))
         /\ \A j, k \in 0 .. n : j < k => Len(Bytes(recs, j)) < Len(Bytes(recs, k))
<1> DEFINE L(k) == Len(Bytes(recs, k))
<1>1. \A k \in 0 .. n : L(k) \in Nat BY BytesAre, LenProperties
<1>2. L(0) = 0 BY BytesAre, EmptySeq
<1>3. ASSUME NEW k \in 1 .. n
      PROVE  Len(encode_span(recs[k])) \in Nat /\ L(k) = L(k - 1) + 2 + Len(encode_span(recs[k]))
  <2> DEFINE p == encode_span(recs[k])
             a == Bytes(recs, k - 1)
  <2>1. k - 1 \in 0 .. n OBVIOUS
  <2>2. p \in Seq(Byte) /\ a \in Seq(Byte) /\ Bytes(recs, k) = a \o Record(p) BY <2>1, BytesAre
  <2>3. Len(p) <= MAX_RECORD_BYTES BY DEF AllFit, Fits
  <2> HIDE DEF p, a
  <2>4. Record(p) \in Seq(Byte) /\ Len(Record(p)) = 2 + Len(p)
    <3>1. << >> \in Seq(Byte) BY EmptySeq
    <3> QED BY <2>2, <2>3, <3>1, RecordBack
  <2>5. Len(a \o Record(p)) = Len(a) + Len(Record(p)) BY <2>2, <2>4, ConcatProperties
  <2>6. Len(p) \in Nat /\ Len(a) \in Nat BY <2>2, LenProperties
  <2>7. Len(p) \in Nat /\ L(k) = Len(a) + 2 + Len(p) BY <2>2, <2>4, <2>5, <2>6
  <2> QED BY <2>7 DEF p, a
<1> HIDE DEF L
<1>4. ASSUME NEW j \in 0 .. n PROVE \A k \in 0 .. n : j < k => L(j) < L(k)
  <2> DEFINE Bad == {k \in 0 .. n : j < k /\ ~(L(j) < L(k))}
  <2>1. 0 \notin Bad OBVIOUS
  <2>2. ASSUME NEW k \in 1 .. n, k - 1 \notin Bad PROVE k \notin Bad
    <3>1. k - 1 \in 0 .. n /\ k \in 0 .. n OBVIOUS
    <3>2. L(k - 1) < L(k)
      <4>1. L(k - 1) \in Nat BY <1>1, <3>1
      <4> QED BY <1>3, <4>1
    <3>3. CASE j < k - 1
      <4>1. L(j) < L(k - 1) BY <2>2, <3>1, <3>3
      <4>2. L(j) \in Int /\ L(k - 1) \in Int /\ L(k) \in Int BY <1>1, <3>1
      <4>3. L(j) < L(k) BY <3>2, <4>1, <4>2
      <4> QED BY <4>3
    <3>4. CASE j = k - 1 BY <3>2, <3>4
    <3>5. CASE j > k - 1
      <4>1. ~(j < k) BY <3>1, <3>5
      <4> QED BY <4>1
    <3> QED BY <3>1, <3>3, <3>4, <3>5
  <2>3. Bad = {}
    <3>1. \A k \in 1 .. n : k \in Bad => k - 1 \in Bad BY <2>2
    <3>2. Bad \subseteq 0 .. n OBVIOUS
    <3> HIDE DEF Bad
    <3> QED BY <2>1, <3>1, <3>2, Upwards
  <2> QED BY <2>3
<1> QED BY <1>1, <1>2, <1>3, <1>4 DEF L

----------------------------------------------------------------------------
(* What is decoded *)

Decoded == [kind : {KIND_QUERY, KIND_PLAN_NODE}, fields : Seq(Values)]

TypeInv ==
  /\ spans \in Statements /\ Len(spans) \in Nat
  /\ \A j \in 1 .. Len(spans) : IsSpan(spans[j])
  /\ next \in 1 .. Len(spans) + 1 /\ skipped \in Nat /\ undecodable \in Nat
  /\ damage \in Nat \cup {-1}
  /\ records \in Seq({spans[j] : j \in 1 .. Len(spans)})
  /\ \A j \in 1 .. Len(records) : Fits(records[j])
  /\ skipped + Len(records) = next - 1
  /\ batch \in Seq(Byte) /\ stream \in Seq(Byte)
  /\ decoded \in Seq(Decoded) /\ payloads \in Seq(Seq(Byte)) /\ Len(payloads) = Len(decoded)
  /\ \A j \in 1 .. Len(decoded) : IsDecoded(decoded[j]) /\ encode_span(decoded[j]) = payloads[j]

\* A sequence with one more element.
LEMMA OneMore ==
  ASSUME NEW S, NEW s \in Seq(S), NEW x \in S
  PROVE  /\ Append(s, x) \in Seq(S) /\ Len(Append(s, x)) = Len(s) + 1 /\ Len(s) \in Nat
         /\ \A j \in 1 .. Len(s) : Append(s, x)[j] = s[j]
         /\ Append(s, x)[Len(s) + 1] = x
         /\ \A j \in 1 .. Len(s) + 1 : j \in 1 .. Len(s) \/ j = Len(s) + 1
<1>1. Len(s) \in Nat BY LenProperties
<1>2. \A j \in 1 .. Len(s) + 1 : j \in 1 .. Len(s) \/ j = Len(s) + 1 BY <1>1
<1> QED BY <1>1, <1>2, AppendProperties

LEMMA TypeInit == Init => TypeInv
<1> SUFFICES ASSUME Init PROVE TypeInv OBVIOUS
<1>1. spans \in Statements /\ next = 1 /\ batch = << >> /\ records = << >> /\ skipped = 0
      /\ damage = -1 /\ decoded = << >> /\ undecodable = 0 /\ payloads = << >> /\ stream = << >>
  BY DEF Init
<1>2. Len(spans) \in Nat BY <1>1, StatementsAssumption
<1>3. \A j \in 1 .. Len(spans) : IsSpan(spans[j])
  <2> SUFFICES ASSUME NEW j \in 1 .. Len(spans) PROVE IsSpan(spans[j]) OBVIOUS
  <2> QED BY <1>1, StatementsAssumption DEF IsSpan
<1>4. Len(<< >>) = 0 /\ \A S : << >> \in Seq(S) BY EmptySeq
<1>5. \A j \in 1 .. 0 : FALSE OBVIOUS
<1>6. next \in 1 .. Len(spans) + 1 /\ skipped + Len(records) = next - 1 BY <1>1, <1>2, <1>4
<1>7. 0 \in Nat OBVIOUS
<1> QED BY <1>1, <1>2, <1>3, <1>4, <1>5, <1>6, <1>7 DEF TypeInv

\* What a record that is read brings.
LEMMA RecordStep ==
  ASSUME batch \in Seq(Byte), DecodeRecord
  PROVE  \/ /\ split_record(batch) = {}
            /\ batch' = << >> /\ undecodable' = undecodable + 1 /\ decoded' = decoded
            /\ payloads' = payloads
         \/ \E record \in split_record(batch) :
              /\ record.value \in Seq(Byte) /\ record.rest \in Seq(Byte) /\ batch' = record.rest
              /\ \/ /\ decode_span(record.value) = {}
                    /\ undecodable' = undecodable + 1 /\ decoded' = decoded /\ payloads' = payloads
                 \/ \E span \in decode_span(record.value) :
                      /\ span \in Decoded /\ IsDecoded(span) /\ encode_span(span) = record.value
                      /\ undecodable' = undecodable /\ decoded' = Append(decoded, span)
                      /\ payloads' = Append(payloads, record.value)
<1>1. CASE split_record(batch) = {} BY <1>1 DEF DecodeRecord
<1>2. CASE split_record(batch) # {}
  <2>1. PICK record \in split_record(batch) :
          /\ IF decode_span(record.value) = {}
             THEN undecodable' = undecodable + 1 /\ UNCHANGED <<decoded, payloads>>
             ELSE /\ \E span \in decode_span(record.value) : decoded' = Append(decoded, span)
                  /\ payloads' = Append(payloads, record.value)
                  /\ UNCHANGED undecodable
          /\ batch' = record.rest
    BY <1>2 DEF DecodeRecord, go_on
  <2>2. record.value \in Seq(Byte) /\ record.rest \in Seq(Byte) BY RecordRead
  <2>3. CASE decode_span(record.value) = {} BY <2>1, <2>2, <2>3
  <2>4. CASE decode_span(record.value) # {}
    <3>1. PICK span \in decode_span(record.value) : decoded' = Append(decoded, span)
      BY <2>1, <2>4
    <3>2. IsDecoded(span) /\ encode_span(span) = record.value BY <2>2, SpanRead
    <3>3. span \in Decoded BY <3>2 DEF IsDecoded, Decoded
    <3> QED BY <2>1, <2>2, <2>4, <3>1, <3>2, <3>3
  <2> QED BY <2>3, <2>4
<1> QED BY <1>1, <1>2

\* What a stray write or a cut leaves.
LEMMA DamageStep ==
  ASSUME stream \in Seq(Byte), Damage
  PROVE  /\ stream' \in Seq(Byte) /\ batch' = stream' /\ damage' \in 1 .. Len(stream)
         /\ \/ \E b \in Byte : stream' = [stream EXCEPT ![damage'] = b]
            \/ stream' = SubSeq(stream, 1, damage' - 1)
<1>1. PICK offset \in 1 .. Len(stream) :
        /\ \/ \E b \in Byte \ {stream[offset]} : stream' = [stream EXCEPT ![offset] = b]
           \/ stream' = SubSeq(stream, 1, offset - 1)
        /\ damage' = offset /\ batch' = stream'
  BY DEF Damage
<1>2. Len(stream) \in Nat BY LenProperties
<1>3. CASE \E b \in Byte : stream' = [stream EXCEPT ![offset] = b]
  <2>1. PICK b \in Byte : stream' = [stream EXCEPT ![offset] = b] BY <1>3
  <2>2. stream' \in Seq(Byte) BY <2>1, ExceptSeq
  <2> QED BY <1>1, <2>1, <2>2
<1>4. CASE stream' = SubSeq(stream, 1, offset - 1)
  <2>1. offset - 1 \in 0 .. Len(stream) BY <1>2
  <2>2. SubSeq(stream, 1, offset - 1) \in Seq(Byte) BY <2>1, Parts
  <2> QED BY <1>1, <1>4, <2>2
<1> QED BY <1>1, <1>3, <1>4

LEMMA TypeStep == TypeInv /\ [Next]_vars => TypeInv'
<1> SUFFICES ASSUME TypeInv, [Next]_vars PROVE TypeInv' OBVIOUS
<1> DEFINE R == {spans[j] : j \in 1 .. Len(spans)}
<1>0. /\ spans \in Statements /\ Len(spans) \in Nat
      /\ \A j \in 1 .. Len(spans) : IsSpan(spans[j])
      /\ next \in 1 .. Len(spans) + 1 /\ skipped \in Nat /\ undecodable \in Nat
      /\ damage \in Nat \cup {-1}
      /\ records \in Seq(R)
      /\ \A j \in 1 .. Len(records) : Fits(records[j])
      /\ skipped + Len(records) = next - 1
      /\ batch \in Seq(Byte) /\ stream \in Seq(Byte)
      /\ decoded \in Seq(Decoded) /\ payloads \in Seq(Seq(Byte)) /\ Len(payloads) = Len(decoded)
      /\ \A j \in 1 .. Len(decoded) : IsDecoded(decoded[j]) /\ encode_span(decoded[j]) = payloads[j]
  BY DEF TypeInv
<1>1. CASE EncodeSpan
  <2> DEFINE span == spans[next]
             payload == encode_span(span)
  <2>1. /\ next <= Len(spans) /\ next' = next + 1
        /\ IF Len(payload) > MAX_RECORD_BYTES
           THEN skipped' = skipped + 1 /\ batch' = batch /\ records' = records
           ELSE /\ batch' = batch \o put_len(Len(payload)) \o payload
                /\ records' = Append(records, span) /\ skipped' = skipped
        /\ UNCHANGED <<spans, damage, decoded, undecodable, payloads, stream>>
    BY <1>1 DEF EncodeSpan
  <2>2. next \in 1 .. Len(spans) /\ IsSpan(span) /\ span \in R BY <1>0, <2>1
  <2>3. payload \in Seq(Byte) BY <2>2, SpanBack
  <2> DEFINE p == payload
  <2>4. Len(p) \in Nat BY <2>3, LenProperties
  <2> HIDE DEF R
  <2>5. CASE Len(p) > MAX_RECORD_BYTES
    <3>1. skipped' = skipped + 1 /\ batch' = batch /\ records' = records BY <2>1, <2>5
    <3>2. skipped' + Len(records') = next' - 1 /\ skipped' \in Nat
      <4>1. Len(records) \in Nat BY <1>0, LenProperties
      <4> QED BY <1>0, <2>1, <3>1, <4>1
    <3>3. next' \in 1 .. Len(spans) + 1 BY <1>0, <2>1
    <3> QED BY <1>0, <2>1, <3>1, <3>2, <3>3 DEF TypeInv, R
  <2>6. CASE ~(Len(p) > MAX_RECORD_BYTES)
    <3>1. /\ batch' = batch \o put_len(Len(p)) \o p
          /\ records' = Append(records, span) /\ skipped' = skipped
      BY <2>1, <2>6
    <3>2. Len(p) <= MAX_RECORD_BYTES BY <2>4, <2>6, Limit
    <3>3. Fits(span) BY <2>2, <3>2 DEF Fits
    <3>4. batch' \in Seq(Byte)
      <4> DEFINE a == put_len(Len(p))
      <4>1. a \in Seq(Byte)
        <5>1. << >> \in Seq(Byte) BY EmptySeq
        <5> HIDE DEF payload
        <5> QED BY <2>3, <3>2, <5>1, RecordBack
      <4> HIDE DEF a, payload
      <4>2. batch \o a \in Seq(Byte) BY <1>0, <4>1, ConcatProperties
      <4>3. (batch \o a) \o p \in Seq(Byte) BY <2>3, <4>2, ConcatProperties
      <4> QED BY <3>1, <4>3 DEF a
    <3> HIDE DEF span
    <3>5. /\ records' \in Seq(R) /\ Len(records') = Len(records) + 1 /\ Len(records) \in Nat
          /\ \A j \in 1 .. Len(records) : records'[j] = records[j]
          /\ records'[Len(records) + 1] = span
          /\ \A j \in 1 .. Len(records) + 1 : j \in 1 .. Len(records) \/ j = Len(records) + 1
      BY <1>0, <2>2, <3>1, OneMore
    <3>6. \A j \in 1 .. Len(records') : Fits(records'[j]) BY <1>0, <3>3, <3>5
    <3>7. skipped' + Len(records') = next' - 1 BY <1>0, <2>1, <3>1, <3>5
    <3>8. next' \in 1 .. Len(spans) + 1 BY <1>0, <2>1
    <3> QED BY <1>0, <2>1, <3>1, <3>4, <3>5, <3>6, <3>7, <3>8 DEF TypeInv, R
  <2> QED BY <2>5, <2>6
<1>2. CASE Publish
  <2>1. stream' = batch
        /\ UNCHANGED <<spans, next, batch, records, skipped, damage, decoded, undecodable, payloads>>
    BY <1>2 DEF Publish
  <2> QED BY <1>0, <2>1 DEF TypeInv
<1>3. CASE Damage
  <2>1. /\ stream' \in Seq(Byte) /\ batch' = stream' /\ damage' \in 1 .. Len(stream)
    BY <1>0, <1>3, DamageStep
  <2>2. UNCHANGED <<spans, next, records, skipped, decoded, undecodable, payloads>>
    BY <1>3 DEF Damage
  <2>3. damage' \in Nat \cup {-1}
    <3>1. Len(stream) \in Nat BY <1>0, LenProperties
    <3> QED BY <2>1, <3>1
  <2> QED BY <1>0, <2>1, <2>2, <2>3 DEF TypeInv
<1>4. CASE DecodeRecord
  <2>1. UNCHANGED <<spans, next, records, skipped, damage, stream>> BY <1>4 DEF DecodeRecord
  <2>2. undecodable + 1 \in Nat BY <1>0
  <2>3. ASSUME batch' \in Seq(Byte), undecodable' = undecodable + 1, decoded' = decoded,
               payloads' = payloads
        PROVE  TypeInv'
    BY <1>0, <2>1, <2>2, <2>3 DEF TypeInv
  <2>4. ASSUME NEW span \in Decoded, NEW p \in Seq(Byte), IsDecoded(span), encode_span(span) = p,
               batch' \in Seq(Byte), undecodable' = undecodable, decoded' = Append(decoded, span),
               payloads' = Append(payloads, p)
        PROVE  TypeInv'
    <3>1. /\ decoded' \in Seq(Decoded) /\ Len(decoded') = Len(decoded) + 1 /\ Len(decoded) \in Nat
          /\ \A j \in 1 .. Len(decoded) : decoded'[j] = decoded[j]
          /\ decoded'[Len(decoded) + 1] = span
          /\ \A j \in 1 .. Len(decoded) + 1 : j \in 1 .. Len(decoded) \/ j = Len(decoded) + 1
      BY <1>0, <2>4, OneMore
    <3>2. /\ payloads' \in Seq(Seq(Byte)) /\ Len(payloads') = Len(payloads) + 1
          /\ \A j \in 1 .. Len(payloads) : payloads'[j] = payloads[j]
          /\ payloads'[Len(payloads) + 1] = p
      BY <1>0, <2>4, OneMore
    <3>3. Len(payloads') = Len(decoded') BY <1>0, <3>1, <3>2
    <3>4. \A j \in 1 .. Len(decoded') : IsDecoded(decoded'[j]) /\ encode_span(decoded'[j]) = payloads'[j]
      <4> SUFFICES ASSUME NEW j \in 1 .. Len(decoded')
                   PROVE  IsDecoded(decoded'[j]) /\ encode_span(decoded'[j]) = payloads'[j]
        OBVIOUS
      <4>1. CASE j \in 1 .. Len(decoded) BY <1>0, <3>1, <3>2, <4>1
      <4>2. CASE j = Len(decoded) + 1 BY <1>0, <2>4, <3>1, <3>2, <4>2
      <4> QED BY <3>1, <4>1, <4>2
    <3> QED BY <1>0, <2>1, <2>4, <3>1, <3>2, <3>3, <3>4 DEF TypeInv
  <2>5. << >> \in Seq(Byte) BY EmptySeq
  <2> QED BY <1>0, <1>4, <2>3, <2>4, <2>5, RecordStep
<1>5. CASE Done \/ UNCHANGED vars
  <2>1. UNCHANGED vars BY <1>5 DEF Done
  <2> QED BY <1>0, <2>1 DEF TypeInv, vars
<1> QED BY <1>1, <1>2, <1>3, <1>4, <1>5 DEF Next

LEMMA TypeAlways == Spec => []TypeInv
BY TypeInit, TypeStep, PTL DEF Spec

\* The model's type invariant: whatever the bytes, what decode_records returns are spans,
\* each with the fields of its kind and each field of its type.
THEOREM TypeCorrect == Spec => []TypeOK
<1>1. TypeInv => TypeOK
  <2> SUFFICES ASSUME TypeInv PROVE TypeOK OBVIOUS
  <2>1. /\ Len(spans) \in Nat /\ next \in 1 .. Len(spans) + 1 /\ skipped \in Nat /\ undecodable \in Nat
        /\ skipped + Len(records) = next - 1 /\ Len(records) \in Nat
        /\ batch \in Seq(Byte) /\ stream \in Seq(Byte) /\ decoded \in Seq(Decoded)
        /\ \A j \in 1 .. Len(decoded) : IsDecoded(decoded[j])
    BY LenProperties DEF TypeInv
  <2>2. skipped \in 0 .. Len(spans) BY <2>1
  <2>3. \A s \in Seq(Byte) : ToSet(s) \subseteq Byte
    <3> SUFFICES ASSUME NEW s \in Seq(Byte) PROVE ToSet(s) \subseteq Byte OBVIOUS
    <3>1. DOMAIN s = 1 .. Len(s) BY LenProperties
    <3>2. \A j \in DOMAIN s : s[j] \in Byte BY <3>1, ElementOfSeq
    <3> QED BY <3>2 DEF ToSet
  <2>4. \A span \in ToSet(decoded) : IsDecoded(span)
    <3>1. DOMAIN decoded = 1 .. Len(decoded) BY <2>1, LenProperties
    <3> QED BY <2>1, <3>1 DEF ToSet
  <2>5. ToSet(batch) \cup ToSet(stream) \subseteq Byte BY <2>1, <2>3
  <2> QED BY <2>1, <2>2, <2>4, <2>5 DEF TypeOK, IsDecoded
<1> QED BY <1>1, TypeAlways, PTL

\* What decode_span returns of a payload is what was in it, all of it and nothing else:
\* encode_span makes the same bytes of it, also of damaged ones.
THEOREM NothingElseDecoded == Spec => []Canonical
<1>1. TypeInv => Canonical BY DEF TypeInv, Canonical
<1> QED BY <1>1, TypeAlways, PTL

----------------------------------------------------------------------------
(* What of the stream is read *)

\* The first good records are as they were made, and all that was read is the beginning of
\* them: nothing was undecodable, and every span is the one that was written.
InFront(good) ==
  /\ Len(decoded) <= good /\ undecodable = 0
  /\ \A j \in 1 .. Len(decoded) : decoded[j] = Written(records[j])
  /\ stream = Bytes(records, Len(decoded)) \o batch

\* The damage is a changed byte, and one of the payload of record k.
PayloadHit(k) ==
  /\ damage > Len(Bytes(records, k - 1)) + 2
  /\ Len(stream) = Len(Bytes(records, Len(records)))

\* The damage is in record k, and those in front of it are as they were made; if it is in
\* the payload, all prefixes are, and so are those behind it.
DamagedIn(k) ==
  /\ Len(Bytes(records, k - 1)) < damage /\ damage <= Len(Bytes(records, k))
  /\ \E x \in Seq(Byte) : stream = Bytes(records, k - 1) \o x
  /\ PayloadHit(k) =>
       \E p, tail \in Seq(Byte) :
         /\ Len(p) = Len(encode_span(records[k]))
         /\ stream = Bytes(records, k - 1) \o (Record(p) \o tail)
         /\ Bytes(records, Len(records)) = Bytes(records, k) \o tail

\* Record k was read: the spans in front of it are right; if the damage was in its payload
\* it gave one span or none, and those behind it are right.
Behind(k) ==
  /\ Len(decoded) >= k - 1 /\ \A j \in 1 .. k - 1 : decoded[j] = Written(records[j])
  /\ PayloadHit(k) =>
       LET m == Len(decoded) + undecodable
       IN  /\ m \in k .. Len(records) /\ undecodable <= 1
           /\ \A j \in k + 1 .. m : decoded[j - undecodable] = Written(records[j])
           /\ Bytes(records, Len(records)) = Bytes(records, m) \o batch

StreamInv ==
  /\ phase \in {"encode", "decode"}
  /\ phase = "encode" =>
       damage = -1 /\ decoded = << >> /\ undecodable = 0 /\ batch = Bytes(records, Len(records))
  /\ phase = "decode" /\ damage = -1 =>
       stream = Bytes(records, Len(records)) /\ InFront(Len(records))
  /\ damage # -1 =>
       /\ phase = "decode"
       /\ \E k \in 1 .. Len(records) : DamagedIn(k) /\ (InFront(k - 1) \/ Behind(k))

\* The first k records and t are the first g and x.
Same(recs, k, t, g, x) == Bytes(recs, k) \o t = Bytes(recs, g) \o x

\* Where the first g records are as they were made and those in front of k were read, the
\* next is k.
IsNext(recs, k, rest, g, x) ==
  /\ g \in Nat /\ AllFit(recs, g) /\ k \in 1 .. g /\ rest \in Seq(Byte) /\ x \in Seq(Byte)
  /\ Same(recs, k - 1, rest, g, x)

LEMMA NextRecord ==
  ASSUME NEW recs, NEW k, NEW rest, NEW g, NEW x, IsNext(recs, k, rest, g, x)
  PROVE  \E t \in Seq(Byte) :
           rest = Record(encode_span(recs[k])) \o t /\ Same(recs, k, t, g, x)
<1>0. /\ g \in Nat /\ AllFit(recs, g) /\ k \in 1 .. g /\ rest \in Seq(Byte) /\ x \in Seq(Byte)
      /\ Bytes(recs, k - 1) \o rest = Bytes(recs, g) \o x
  BY DEF IsNext, Same
<1>1. k - 1 \in 0 .. g /\ k \in 0 .. g BY <1>0
<1> DEFINE a == Bytes(recs, k - 1)
           b == Record(encode_span(recs[k]))
           c == Bytes(recs, k)
           all == Bytes(recs, g)
<1>2. PICK tail \in Seq(Byte) : c \o tail = all BY <1>0, <1>1, BytesAre
<1>3. a \in Seq(Byte) BY <1>0, <1>1, BytesAre
<1>4. b \in Seq(Byte) /\ c = a \o b BY <1>0, BytesAre
<1>5. a \o rest = all \o x BY <1>0
<1> HIDE DEF a, b, c, all
<1>6. \A u, v, w \in Seq(Byte) : (u \o v) \o w = u \o (v \o w) BY Joined
<1>7. \A u, v \in Seq(Byte) : u \o v \in Seq(Byte) BY Joined
<1>8. \A u, v, w \in Seq(Byte) : u \o v = u \o w => v = w BY Joined
<1> DEFINE t == tail \o x
<1>9. t \in Seq(Byte) /\ b \o t \in Seq(Byte) /\ c \in Seq(Byte) BY <1>0, <1>3, <1>4, <1>7
<1>10. c \o t = all \o x
  <2>1. c \in Seq(Byte) /\ tail \in Seq(Byte) /\ x \in Seq(Byte) BY <1>0, <1>9
  <2>2. (c \o tail) \o x = c \o (tail \o x) BY ONLY <2>1, Grouped, Zenon
  <2> QED BY <1>2, <2>2
<1> HIDE DEF t
<1>11. c \o t = a \o (b \o t)
  <2>1. a \in Seq(Byte) /\ b \in Seq(Byte) /\ t \in Seq(Byte) BY <1>3, <1>4, <1>9
  <2>2. (a \o b) \o t = a \o (b \o t) BY ONLY <2>1, Grouped, Zenon
  <2> QED BY <1>4, <2>2
<1>12. rest = b \o t BY <1>0, <1>3, <1>5, <1>8, <1>9, <1>10, <1>11
<1> QED BY <1>9, <1>10, <1>12 DEF a, b, c, all, Same

\* What is decoded of a record as it was made, and of one whose payload is another.
LEMMA ReadRecord ==
  ASSUME batch \in Seq(Byte), NEW p \in Seq(Byte), Len(p) <= MAX_RECORD_BYTES,
         NEW t \in Seq(Byte), batch = Record(p) \o t, DecodeRecord
  PROVE  /\ batch' = t
         /\ \/ decode_span(p) = {} /\ undecodable' = undecodable + 1 /\ decoded' = decoded
            \/ \E span \in decode_span(p) : /\ span \in Decoded /\ undecodable' = undecodable
                                            /\ decoded' = Append(decoded, span)
<1> DEFINE r == Read(p, t)
<1>1. split_record(batch) = {r} BY RecordBack
<1>2. r.value = p /\ r.rest = t BY DEF Read
<1> HIDE DEF r
<1> QED BY <1>1, <1>2, RecordStep

LEMMA ReadSpan ==
  ASSUME batch \in Seq(Byte), NEW span, Fits(span), NEW t \in Seq(Byte),
         batch = Record(encode_span(span)) \o t, DecodeRecord
  PROVE  /\ batch' = t /\ undecodable' = undecodable
         /\ decoded' = Append(decoded, Written(span)) /\ Written(span) \in Decoded
<1> DEFINE p == encode_span(span)
<1>1. p \in Seq(Byte) /\ Len(p) <= MAX_RECORD_BYTES /\ decode_span(p) = {Written(span)}
  BY SpanBack DEF Fits
<1> HIDE DEF p
<1>2. batch = Record(p) \o t BY DEF p
<1>3. /\ batch' = t
      /\ \/ decode_span(p) = {} /\ undecodable' = undecodable + 1 /\ decoded' = decoded
         \/ \E s \in decode_span(p) : /\ s \in Decoded /\ undecodable' = undecodable
                                      /\ decoded' = Append(decoded, s)
  BY <1>1, <1>2, ReadRecord
<1> QED BY <1>1, <1>3

\* While the records are as they were made, each that is read gives its span.
LEMMA FrontStep ==
  ASSUME TypeInv, DecodeRecord, NEW good \in 0 .. Len(records), NEW x \in Seq(Byte),
         stream = Bytes(records, good) \o x, InFront(good), Len(decoded) < good
  PROVE  InFront(good)'
<1> DEFINE k == Len(decoded) + 1
           span == records[k]
<1>1. /\ decoded \in Seq(Decoded) /\ batch \in Seq(Byte) /\ Len(records) \in Nat
      /\ Len(decoded) \in Nat /\ \A j \in 1 .. Len(records) : Fits(records[j])
  BY LenProperties DEF TypeInv
<1>2. /\ undecodable = 0
      /\ \A j \in 1 .. Len(decoded) : decoded[j] = Written(records[j])
      /\ stream = Bytes(records, Len(decoded)) \o batch
  BY DEF InFront
<1>3. UNCHANGED <<records, stream>> BY DEF DecodeRecord
<1>4. /\ good \in Nat /\ AllFit(records, good) /\ k \in 1 .. good /\ k \in 1 .. Len(records)
      /\ Len(decoded) = k - 1 /\ k <= good
  BY <1>1 DEF AllFit
<1> HIDE DEF k
<1>5. IsNext(records, k, batch, good, x)
  <2>1. Same(records, k - 1, batch, good, x) BY <1>2, <1>4 DEF Same
  <2> QED BY <1>1, <1>4, <2>1 DEF IsNext
<1>6. PICK t \in Seq(Byte) :
        batch = Record(encode_span(records[k])) \o t /\ Same(records, k, t, good, x)
  BY <1>5, NextRecord
<1>7. batch = Record(encode_span(span)) \o t /\ Fits(span) BY <1>1, <1>4, <1>6
<1> HIDE DEF span
<1>8. /\ batch' = t /\ undecodable' = undecodable
      /\ decoded' = Append(decoded, Written(span)) /\ Written(span) \in Decoded
  BY <1>1, <1>7, ReadSpan
<1>9. /\ Len(decoded') = Len(decoded) + 1
      /\ \A j \in 1 .. Len(decoded) : decoded'[j] = decoded[j]
      /\ decoded'[Len(decoded) + 1] = Written(span)
      /\ \A j \in 1 .. Len(decoded) + 1 : j \in 1 .. Len(decoded) \/ j = Len(decoded) + 1
  BY <1>1, <1>8, OneMore
<1>10. Len(decoded') = k /\ \A j \in 1 .. k : decoded'[j] = Written(records[j])
  BY <1>2, <1>9 DEF span, k
<1>11. stream = Bytes(records, k) \o t BY <1>6 DEF Same
<1> QED BY <1>2, <1>3, <1>4, <1>8, <1>10, <1>11 DEF InFront

\* s is a and b.
Joins(s, a, b) == s = a \o b

LEMMA Regroup ==
  ASSUME NEW u \in Seq(Byte), NEW v \in Seq(Byte), NEW w \in Seq(Byte), NEW s,
         Joins(s, u \o v, w)
  PROVE  Joins(s, u, v \o w)
<1>1. s = (u \o v) \o w BY DEF Joins
<1>2. (u \o v) \o w = u \o (v \o w) BY Grouped, Zenon
<1> QED BY <1>1, <1>2, Zenon DEF Joins

\* In a sequence of two, an element of the second is changed, or it is cut there.
LEMMA ChangedBehind ==
  ASSUME NEW S, NEW a \in Seq(S), NEW b \in Seq(S), NEW d \in 1 .. Len(b), NEW x \in S,
         NEW whole, Joins(whole, a, b), NEW changed, Joins(changed, a, [b EXCEPT ![d] = x])
  PROVE  [whole EXCEPT ![Len(a) + d] = x] = changed
<1> DEFINE n == Len(a)
           N == Len(b)
           c == [b EXCEPT ![d] = x]
           s == a \o b
           t == a \o c
           u == [s EXCEPT ![n + d] = x]
<1>1. n \in Nat /\ N \in Nat /\ d \in 1 .. N BY LenProperties
<1>2. c \in Seq(S) /\ Len(c) = N /\ \A j \in 1 .. N : c[j] = IF j = d THEN x ELSE b[j] BY ExceptSeq
<1>3. /\ s \in Seq(S) /\ Len(s) = n + N
      /\ \A j \in 1 .. n + N : s[j] = IF j <= n THEN a[j] ELSE b[j - n]
  BY ConcatProperties
<1>0. whole = s /\ changed = t BY DEF Joins
<1> HIDE DEF c
<1>4. /\ t \in Seq(S) /\ Len(t) = n + N
      /\ \A j \in 1 .. n + N : t[j] = IF j <= n THEN a[j] ELSE c[j - n]
  <2>1. /\ t \in Seq(S) /\ Len(t) = Len(a) + Len(c)
        /\ \A j \in 1 .. Len(a) + Len(c) : t[j] = IF j <= Len(a) THEN a[j] ELSE c[j - Len(a)]
    BY <1>2, ConcatProperties
  <2> QED BY <1>2, <2>1
<1> HIDE DEF s, t, n, N
<1>5. n + d \in 1 .. Len(s) BY <1>1, <1>3
<1>6. /\ u \in Seq(S) /\ Len(u) = n + N
      /\ \A j \in 1 .. n + N : u[j] = IF j = n + d THEN x ELSE s[j]
  <2> DEFINE l == n + d
  <2>1. l \in 1 .. Len(s) BY <1>5
  <2>2. u = [s EXCEPT ![l] = x] OBVIOUS
  <2> HIDE DEF u, l
  <2>3. u \in Seq(S) /\ Len(u) = Len(s) /\ \A j \in 1 .. Len(s) : u[j] = IF j = l THEN x ELSE s[j]
    BY <1>3, <2>1, <2>2, ExceptSeq
  <2> QED BY <1>3, <2>3 DEF l
<1> HIDE DEF u
<1>7. ASSUME NEW j \in 1 .. n + N PROVE u[j] = t[j]
  <2>1. CASE j <= n
    <3>1. j # n + d BY <1>1, <2>1
    <3> QED BY <1>3, <1>4, <1>6, <2>1, <3>1
  <2>2. CASE ~(j <= n)
    <3> DEFINE i == j - n
    <3>1. i \in 1 .. N /\ (j = n + d <=> i = d) BY <1>1, <2>2
    <3>2. s[j] = b[i] /\ t[j] = c[i] BY <1>3, <1>4, <2>2
    <3>3. c[i] = IF i = d THEN x ELSE b[i] BY <1>2, <3>1
    <3>4. u[j] = IF j = n + d THEN x ELSE s[j] BY <1>6
    <3> HIDE DEF i
    <3> QED BY <3>1, <3>2, <3>3, <3>4
  <2> QED BY <2>1, <2>2
<1>8. u = t BY <1>4, <1>6, <1>7, SeqEqual
<1> QED BY <1>0, <1>8 DEF u, n

LEMMA ChangedInFront ==
  ASSUME NEW S, NEW a \in Seq(S), NEW b \in Seq(S), NEW d \in 1 .. Len(a), NEW x \in S
  PROVE  [a \o b EXCEPT ![d] = x] = [a EXCEPT ![d] = x] \o b
<1> DEFINE n == Len(a)
           N == Len(b)
           c == [a EXCEPT ![d] = x]
           s == a \o b
           t == c \o b
           u == [s EXCEPT ![d] = x]
<1>1. n \in Nat /\ N \in Nat /\ d \in 1 .. n BY LenProperties
<1>2. c \in Seq(S) /\ Len(c) = n /\ \A j \in 1 .. n : c[j] = IF j = d THEN x ELSE a[j] BY ExceptSeq
<1>3. /\ s \in Seq(S) /\ Len(s) = n + N
      /\ \A j \in 1 .. n + N : s[j] = IF j <= n THEN a[j] ELSE b[j - n]
  BY ConcatProperties
<1> HIDE DEF c
<1>4. /\ t \in Seq(S) /\ Len(t) = n + N
      /\ \A j \in 1 .. n + N : t[j] = IF j <= n THEN c[j] ELSE b[j - n]
  <2>1. /\ t \in Seq(S) /\ Len(t) = Len(c) + Len(b)
        /\ \A j \in 1 .. Len(c) + Len(b) : t[j] = IF j <= Len(c) THEN c[j] ELSE b[j - Len(c)]
    BY <1>2, ConcatProperties
  <2> QED BY <1>2, <2>1
<1> HIDE DEF s, t, n, N
<1>5. d \in 1 .. Len(s) BY <1>1, <1>3
<1>6. /\ u \in Seq(S) /\ Len(u) = n + N
      /\ \A j \in 1 .. n + N : u[j] = IF j = d THEN x ELSE s[j]
  <2>1. u \in Seq(S) /\ Len(u) = Len(s) /\ \A j \in 1 .. Len(s) : u[j] = IF j = d THEN x ELSE s[j]
    BY <1>3, <1>5, ExceptSeq
  <2> QED BY <1>3, <2>1
<1> HIDE DEF u
<1>7. ASSUME NEW j \in 1 .. n + N PROVE u[j] = t[j]
  <2>1. CASE j <= n
    <3>1. j \in 1 .. n BY <1>1, <2>1
    <3> QED BY <1>2, <1>3, <1>4, <1>6, <2>1, <3>1
  <2>2. CASE ~(j <= n)
    <3>1. j # d BY <1>1, <2>2
    <3> QED BY <1>3, <1>4, <1>6, <2>2, <3>1
  <2> QED BY <2>1, <2>2
<1>8. u = t BY <1>4, <1>6, <1>7, SeqEqual
<1> QED BY <1>8 DEF u, t, s, c, n

\* What is left of a sequence of two that is cut in the second one.
LEMMA CutBehind ==
  ASSUME NEW S, NEW a \in Seq(S), NEW b \in Seq(S), NEW d \in 0 .. Len(b)
  PROVE  \E x \in Seq(S) : /\ SubSeq(a \o b, 1, Len(a) + d) = a \o x
                           /\ Len(SubSeq(a \o b, 1, Len(a) + d)) = Len(a) + d
<1> DEFINE n == Len(a)
           l == n + d
           s == a \o b
           u == SubSeq(s, 1, l)
           x == SubSeq(b, 1, d)
<1>1. n \in Nat /\ Len(b) \in Nat /\ d \in Nat /\ l \in Nat BY LenProperties
<1>2. /\ s \in Seq(S) /\ Len(s) = n + Len(b)
      /\ \A j \in 1 .. n + Len(b) : s[j] = IF j <= n THEN a[j] ELSE b[j - n]
  BY ConcatProperties
<1>3. x \in Seq(S) /\ Len(x) = d BY Parts
<1>4. \A j \in 1 .. d : x[j] = b[j]
  <2> DEFINE one == 1
  <2>1. one \in Nat /\ d \in Int /\ d <= Len(b) /\ one <= one BY <1>1
  <2>2. \A j \in 1 .. d - one + 1 : SubSeq(b, one, d)[j] = b[one + j - 1]
    <3> HIDE DEF one
    <3> QED BY <2>1, PartIs DEF one
  <2>3. d - one + 1 = d /\ \A j \in 1 .. d : one + j - 1 = j BY <1>1
  <2> HIDE DEF one
  <2>4. \A j \in 1 .. d : SubSeq(b, one, d)[j] = b[j] BY <2>2, <2>3
  <2> QED BY <2>4 DEF one
<1>5. l \in 0 .. Len(s) BY <1>1, <1>2
<1> HIDE DEF s, x
<1>6. u \in Seq(S) /\ Len(u) = l
  <2> HIDE DEF l
  <2> QED BY <1>2, <1>5, Parts
<1>7. \A j \in 1 .. l : u[j] = s[j]
  <2> DEFINE one == 1
  <2>1. one \in Nat /\ l \in Int /\ l <= Len(s) /\ one <= one BY <1>1, <1>5
  <2> HIDE DEF l
  <2>2. \A j \in 1 .. l - one + 1 : SubSeq(s, one, l)[j] = s[one + j - 1]
    <3> HIDE DEF one
    <3> QED BY <1>2, <2>1, PartIs DEF one
  <2>3. l - one + 1 = l /\ \A j \in 1 .. l : one + j - 1 = j BY <2>1
  <2> HIDE DEF one
  <2>4. \A j \in 1 .. l : SubSeq(s, one, l)[j] = s[j] BY <2>2, <2>3
  <2> QED BY <2>4 DEF one
<1> DEFINE t == a \o x
<1>8. /\ t \in Seq(S) /\ Len(t) = n + d
      /\ \A j \in 1 .. n + d : t[j] = IF j <= n THEN a[j] ELSE x[j - n]
  <2>1. /\ t \in Seq(S) /\ Len(t) = Len(a) + Len(x)
        /\ \A j \in 1 .. Len(a) + Len(x) : t[j] = IF j <= Len(a) THEN a[j] ELSE x[j - Len(a)]
    BY <1>3, ConcatProperties
  <2> QED BY <1>3, <2>1
<1> HIDE DEF t, u
<1>9. ASSUME NEW j \in 1 .. l PROVE u[j] = t[j]
  <2>1. j \in 1 .. n + d /\ j \in 1 .. n + Len(b) BY <1>1
  <2>2. CASE j <= n BY <1>2, <1>7, <1>8, <2>1, <2>2
  <2>3. CASE ~(j <= n)
    <3> DEFINE i == j - n
    <3>1. i \in 1 .. d BY <1>1, <2>1, <2>3
    <3>2. s[j] = b[i] /\ t[j] = x[i] BY <1>2, <1>8, <2>1, <2>3
    <3>3. u[j] = s[j] BY <1>7
    <3> HIDE DEF i
    <3> QED BY <1>4, <3>1, <3>2, <3>3
  <2> QED BY <2>2, <2>3
<1>10. u = t BY <1>6, <1>8, <1>9, SeqEqual
<1> QED BY <1>3, <1>6, <1>10 DEF u, t, s, l, n

\* A byte of the payload of a record is changed: its length and what is behind it are not.
LEMMA RecordHit ==
  ASSUME NEW p \in Seq(Byte), Len(p) <= MAX_RECORD_BYTES, NEW tail \in Seq(Byte),
         NEW f \in 1 .. Len(p), NEW x \in Byte, NEW whole, Joins(whole, Record(p), tail)
  PROVE  \E q \in Seq(Byte) : Len(q) = Len(p) /\ Joins([whole EXCEPT ![2 + f] = x], Record(q), tail)
<1> DEFINE a == put_len(Len(p))
           q == [p EXCEPT ![f] = x]
           b == p \o tail
           c == q \o tail
<1>1. a \in Seq(Byte) /\ Len(a) = 2 BY RecordBack
<1>2. q \in Seq(Byte) /\ Len(q) = Len(p) BY ExceptSeq
<1>3. [b EXCEPT ![f] = x] = c BY ChangedInFront
<1>4. b \in Seq(Byte) /\ c \in Seq(Byte) /\ Len(b) = Len(p) + Len(tail) BY <1>2, Joined
<1>5. f \in 1 .. Len(b)
  <2>1. Len(p) \in Nat /\ Len(tail) \in Nat BY LenProperties
  <2> QED BY <1>4, <2>1
<1> DEFINE s == Record(p) \o tail
           t == Record(q) \o tail
<1>6. s = a \o b
  <2>1. Record(p) = a \o p BY DEF Record
  <2>2. p \in Seq(Byte) /\ tail \in Seq(Byte) OBVIOUS
  <2> HIDE DEF a
  <2>3. (a \o p) \o tail = a \o (p \o tail) BY ONLY <1>1, <2>2, Grouped, Zenon
  <2> QED BY <2>1, <2>3
<1>7. t = a \o c
  <2>1. Record(q) = a \o q BY DEF Record
  <2>2. q \in Seq(Byte) /\ tail \in Seq(Byte) BY <1>2
  <2> HIDE DEF a, q
  <2>3. (a \o q) \o tail = a \o (q \o tail) BY ONLY <1>1, <2>2, Grouped, Zenon
  <2> QED BY <2>1, <2>3
<1> HIDE DEF a, b, c, s, t
<1>8. Joins(s, a, b) /\ Joins(t, a, [b EXCEPT ![f] = x]) BY <1>3, <1>6, <1>7 DEF Joins
<1>9. [s EXCEPT ![Len(a) + f] = x] = t BY <1>1, <1>4, <1>5, <1>8, ChangedBehind
<1>10. [s EXCEPT ![2 + f] = x] = t BY <1>1, <1>9
<1>11. Joins([whole EXCEPT ![2 + f] = x], Record(q), tail)
  <2>1. whole = s BY DEF Joins, s
  <2> QED BY <1>10, <2>1 DEF Joins, t
<1> HIDE DEF q
<1> QED BY <1>2, <1>11

\* Every byte is in a record.
LEMMA WhichRecord ==
  ASSUME NEW recs, NEW n \in Nat, AllFit(recs, n), NEW d \in 1 .. Len(Bytes(recs, n))
  PROVE  \E k \in 1 .. n : Len(Bytes(recs, k - 1)) < d /\ d <= Len(Bytes(recs, k))
<1> DEFINE L(k) == Len(Bytes(recs, k))
           Bad == {k \in 0 .. n : d <= L(k)}
<1> SUFFICES ASSUME \A k \in 1 .. n : ~(L(k - 1) < d /\ d <= L(k)) PROVE FALSE OBVIOUS
<1>1. (\A k \in 0 .. n : L(k) \in Nat) /\ L(0) = 0 BY BytesGrow
<1>2. d \in 1 .. L(n) OBVIOUS
<1> HIDE DEF L
<1>3. n \in 0 .. n /\ L(n) \in Nat BY <1>1
<1>4. 0 \notin Bad BY <1>1, <1>2, <1>3
<1>5. ASSUME NEW k \in 1 .. n, k \in Bad PROVE k - 1 \in Bad
  <2>1. k - 1 \in 0 .. n /\ d <= L(k) BY <1>5
  <2>2. ~(L(k - 1) < d) BY <2>1
  <2>3. L(k - 1) \in Nat BY <1>1, <2>1
  <2>4. d <= L(k - 1) BY <1>2, <1>3, <2>2, <2>3
  <2> QED BY <2>1, <2>4
<1>6. n \in Bad BY <1>2, <1>3
<1>7. Bad \subseteq 0 .. n OBVIOUS
<1> HIDE DEF Bad
<1> QED BY <1>4, <1>5, <1>6, <1>7, Upwards

LEMMA EncodeStep ==
  ASSUME TypeInv, StreamInv, EncodeSpan
  PROVE  StreamInv'
<1>0. /\ phase = "encode" /\ damage = -1 /\ decoded = << >> /\ undecodable = 0
      /\ batch = Bytes(records, Len(records))
  BY DEF EncodeSpan, StreamInv
<1> DEFINE span == spans[next]
           p == encode_span(span)
           n == Len(records)
<1>1. /\ IF Len(p) > MAX_RECORD_BYTES
         THEN batch' = batch /\ records' = records
         ELSE batch' = batch \o put_len(Len(p)) \o p /\ records' = Append(records, span)
      /\ next <= Len(spans) /\ UNCHANGED <<damage, decoded, undecodable, phase>>
  BY DEF EncodeSpan
<1>2. CASE Len(p) > MAX_RECORD_BYTES
  <2>1. batch' = batch /\ records' = records BY <1>1, <1>2
  <2> QED BY <1>0, <1>1, <2>1 DEF StreamInv
<1>3. CASE ~(Len(p) > MAX_RECORD_BYTES)
  <2>1. batch' = batch \o put_len(Len(p)) \o p /\ records' = Append(records, span) BY <1>1, <1>3
  <2>2. /\ records \in Seq({spans[j] : j \in 1 .. Len(spans)}) /\ batch \in Seq(Byte)
        /\ span \in {spans[j] : j \in 1 .. Len(spans)} /\ IsSpan(span)
    <3>1. next \in 1 .. Len(spans) BY <1>1 DEF TypeInv
    <3> QED BY <3>1 DEF TypeInv
  <2>3. p \in Seq(Byte) /\ Len(p) \in Nat BY <2>2, SpanBack, LenProperties
  <2>4. Len(p) <= MAX_RECORD_BYTES BY <1>3, <2>3, Limit
  <2>5. batch \o put_len(Len(p)) \o p = batch \o Record(p)
    <3> DEFINE a == put_len(Len(p))
    <3> HIDE DEF p
    <3>1. << >> \in Seq(Byte) BY EmptySeq
    <3>2. a \in Seq(Byte) BY <2>3, <2>4, <3>1, RecordBack
    <3>3. Record(p) = a \o p BY DEF Record
    <3> HIDE DEF a
    <3>4. batch \in Seq(Byte) /\ p \in Seq(Byte) BY <2>2, <2>3
    <3>5. (batch \o a) \o p = batch \o (a \o p) BY ONLY <3>2, <3>4, Grouped, Zenon
    <3> QED BY <3>3, <3>5 DEF a
  <2>6. /\ records' \in Seq({spans[j] : j \in 1 .. Len(spans)}) /\ Len(records') = n + 1 /\ n \in Nat
        /\ \A j \in 1 .. n : records'[j] = records[j]
        /\ records'[n + 1] = span
        /\ \A j \in 1 .. n + 1 : j \in 1 .. n \/ j = n + 1
    <3> DEFINE R == {spans[j] : j \in 1 .. Len(spans)}
    <3>1. records \in Seq(R) /\ span \in R BY <2>2
    <3> HIDE DEF R, span
    <3>2. records' = Append(records, span) BY <2>1
    <3>3. /\ records' \in Seq(R) /\ Len(records') = n + 1 /\ n \in Nat
          /\ \A j \in 1 .. n : records'[j] = records[j]
          /\ records'[n + 1] = span
          /\ \A j \in 1 .. n + 1 : j \in 1 .. n \/ j = n + 1
      BY <3>1, <3>2, OneMore
    <3> QED BY <3>3 DEF R
  <2>7. AllFit(records', Len(records'))
    <3>1. Fits(span) BY <2>2, <2>4 DEF Fits
    <3>2. \A j \in 1 .. n : Fits(records[j]) BY DEF TypeInv
    <3> HIDE DEF span, n
    <3> QED BY <2>6, <3>1, <3>2 DEF AllFit
  <2> DEFINE l == n + 1
  <2>8. l \in Nat /\ l \in 1 .. l /\ l - 1 = n /\ Len(records') = l BY <2>6
  <2>9. Bytes(records', n) = Bytes(records, n)
    <3> HIDE DEF n
    <3>1. [j \in 1 .. n |-> Record(encode_span(records'[j]))] =
          [j \in 1 .. n |-> Record(encode_span(records[j]))]
      BY <2>6
    <3> QED BY <3>1, Zenon DEF Bytes
  <2>10. records'[l] = span BY <2>6
  <2> HIDE DEF l
  <2>11. Bytes(records', l) = Bytes(records', l - 1) \o Record(encode_span(records'[l]))
    <3> DEFINE recs == records'
    <3>1. AllFit(recs, l) /\ l \in Nat /\ l \in 1 .. l BY <2>7, <2>8
    <3> HIDE DEF recs
    <3>2. Bytes(recs, l) = Bytes(recs, l - 1) \o Record(encode_span(recs[l])) BY <3>1, BytesAre
    <3> QED BY <3>2 DEF recs
  <2>12. Bytes(records', Len(records')) = Bytes(records, n) \o Record(p)
    BY <2>8, <2>9, <2>10, <2>11
  <2>13. batch' = batch \o Record(p) BY <2>1, <2>5
  <2> HIDE DEF p, n
  <2>14. batch' = Bytes(records', Len(records')) BY <1>0, <2>12, <2>13 DEF n
  <2>15. phase' = "encode" /\ damage' = -1 /\ decoded' = << >> /\ undecodable' = 0 BY <1>0, <1>1
  <2> QED BY <2>14, <2>15 DEF StreamInv
<1> QED BY <1>2, <1>3

LEMMA PublishStep ==
  ASSUME TypeInv, StreamInv, Publish
  PROVE  StreamInv'
<1>1. /\ phase = "encode" /\ damage = -1 /\ decoded = << >> /\ undecodable = 0
      /\ batch = Bytes(records, Len(records))
  BY DEF Publish, StreamInv
<1>2. /\ stream' = batch /\ phase' = "decode"
      /\ UNCHANGED <<batch, records, damage, decoded, undecodable>>
  BY DEF Publish
<1>3. /\ AllFit(records, Len(records)) /\ Len(records) \in Nat /\ batch \in Seq(Byte)
  BY LenProperties DEF TypeInv, AllFit
<1>4. Bytes(records, 0) = << >> BY <1>3, BytesAre
<1>5. Len(<< >>) = 0 /\ \A j \in 1 .. 0 : FALSE BY EmptySeq
<1>6. << >> \o batch = batch BY <1>3, ConcatEmptySeq
<1>7. stream' = Bytes(records', Len(decoded')) \o batch' BY <1>1, <1>2, <1>4, <1>5, <1>6
<1>8. InFront(Len(records))'
  <2>1. Len(decoded') = 0 /\ 0 <= Len(records') /\ undecodable' = 0 BY <1>1, <1>2, <1>3, <1>5
  <2>2. \A j \in 1 .. Len(decoded') : decoded'[j] = Written(records'[j]) BY <2>1
  <2> QED BY <1>7, <2>1, <2>2 DEF InFront
<1>9. stream' = Bytes(records', Len(records')) BY <1>1, <1>2
<1> QED BY <1>1, <1>2, <1>8, <1>9 DEF StreamInv

\* What is damaged was not read before, and the damage is in one of the records.
LEMMA DamageInRecord ==
  ASSUME TypeInv, StreamInv, Damage
  PROVE  StreamInv'
<1>1. /\ phase = "decode" /\ batch = stream /\ damage = -1
      /\ UNCHANGED <<records, decoded, undecodable, phase>>
  BY DEF Damage
<1> DEFINE n == Len(records)
           whole == Bytes(records, n)
<1>2. stream = whole /\ InFront(n) BY <1>1 DEF StreamInv
<1>3. AllFit(records, n) /\ n \in Nat /\ stream \in Seq(Byte) /\ decoded \in Seq(Decoded)
  BY LenProperties DEF TypeInv, AllFit
<1>4. decoded = << >> /\ undecodable = 0
  <2> DEFINE m == Len(decoded)
             a == Bytes(records, m)
  <2>1. m <= n /\ undecodable = 0 /\ stream = a \o batch BY <1>2 DEF InFront
  <2>2. m \in Nat BY <1>3, LenProperties
  <2>3. m \in 0 .. n /\ 0 \in 0 .. n BY <1>3, <2>1, <2>2
  <2>4. a \in Seq(Byte) BY <1>3, <2>3, BytesAre
  <2>5. Len(stream) = Len(a) + Len(batch) /\ Len(stream) \in Nat /\ Len(batch) = Len(stream)
    <3> HIDE DEF a
    <3> QED BY <1>1, <1>3, <2>1, <2>4, Joined, LenProperties
  <2>6. Len(a) = 0
    <3>1. Len(a) \in Nat BY <2>4, LenProperties
    <3> HIDE DEF a
    <3> QED BY <2>5, <3>1
  <2>7. /\ Len(Bytes(records, 0)) = 0
        /\ \A j, k \in 0 .. n : j < k => Len(Bytes(records, j)) < Len(Bytes(records, k))
    BY <1>3, BytesGrow
  <2>8. m = 0
    <3> SUFFICES ASSUME 0 < m PROVE FALSE BY <2>2
    <3>1. 0 < 0
      <4> DEFINE L(k) == Len(Bytes(records, k))
      <4>1. L(0) < L(m) BY <2>3, <2>7
      <4>2. L(0) = 0 /\ L(m) = 0 BY <2>6, <2>7
      <4> HIDE DEF L
      <4> QED BY <4>1, <4>2
    <3> QED BY <3>1
  <2> QED BY <1>3, <2>1, <2>8, EmptySeq
<1> DEFINE d == damage'
<1>5. /\ stream' \in Seq(Byte) /\ batch' = stream' /\ d \in 1 .. Len(stream)
      /\ \/ \E b \in Byte : stream' = [stream EXCEPT ![d] = b]
         \/ stream' = SubSeq(stream, 1, d - 1)
  BY <1>3, DamageStep
<1>6. PICK k \in 1 .. n : Len(Bytes(records, k - 1)) < d /\ d <= Len(Bytes(records, k))
  <2>1. d \in 1 .. Len(Bytes(records, n)) BY <1>2, <1>5
  <2> HIDE DEF n, d, whole
  <2> QED BY <1>3, <2>1, WhichRecord
<1> DEFINE a == Bytes(records, k - 1)
           p == encode_span(records[k])
           L == Len(a)
<1>7. /\ k - 1 \in 0 .. n /\ k \in 0 .. n
      /\ a \in Seq(Byte) /\ p \in Seq(Byte) /\ L \in Nat /\ Len(p) \in Nat
      /\ Bytes(records, k) = a \o Record(p) /\ Len(p) <= MAX_RECORD_BYTES
      /\ Len(Bytes(records, k)) = L + 2 + Len(p)
  <2>1. k - 1 \in 0 .. n /\ k \in 0 .. n /\ n \in Nat BY <1>3
  <2> HIDE DEF n
  <2>2. a \in Seq(Byte) /\ p \in Seq(Byte) /\ Bytes(records, k) = a \o Record(p)
    BY <1>3, <2>1, BytesAre
  <2>3. Len(p) <= MAX_RECORD_BYTES BY <1>3 DEF AllFit, Fits
  <2>4. Len(Bytes(records, k)) = L + 2 + Len(p) BY <1>3, <2>1, BytesGrow
  <2> QED BY <2>1, <2>2, <2>3, <2>4, LenProperties
<1>8. PICK tail \in Seq(Byte) : Bytes(records, k) \o tail = whole
  <2> HIDE DEF n
  <2> QED BY <1>3, <1>7, BytesAre
<1> DEFINE r == Record(p)
           b == r \o tail
<1>9. r \in Seq(Byte) /\ Len(r) = 2 + Len(p) BY <1>7, RecordBack
<1>10. b \in Seq(Byte) /\ Len(b) = 2 + Len(p) + Len(tail) /\ Len(tail) \in Nat
  <2> HIDE DEF r, p
  <2>1. b \in Seq(Byte) /\ Len(b) = Len(r) + Len(tail) BY <1>9, Joined
  <2> HIDE DEF b
  <2> QED BY <1>9, <2>1, LenProperties
<1>11. stream = a \o b
  <2> HIDE DEF a, r, p, whole
  <2>1. Joins(whole, a \o r, tail) BY <1>7, <1>8 DEF r, Joins
  <2>2. Joins(whole, a, b) BY <1>7, <1>9, <2>1, Regroup
  <2> QED BY <1>2, <2>2 DEF Joins
<1> DEFINE e == d - L
<1>12. /\ e \in 1 .. Len(b) /\ d = L + e /\ e <= 2 + Len(p) /\ d \in Nat
  <2>1. d \in Nat /\ L < d /\ d <= L + 2 + Len(p) BY <1>5, <1>6, <1>7
  <2> HIDE DEF d, L, b
  <2> QED BY <1>7, <1>10, <2>1
<1>13. Len(stream) = L + Len(b)
  <2> HIDE DEF a, b
  <2> QED BY <1>7, <1>10, <1>11, Joined
<1>14. InFront(k - 1)'
  <2>1. Bytes(records, 0) = << >> /\ Len(<< >>) = 0 /\ \A j \in 1 .. 0 : FALSE
    BY <1>3, BytesAre, EmptySeq
  <2>2. << >> \o stream' = stream' BY <1>5, ConcatEmptySeq
  <2>3. decoded' = << >> /\ undecodable' = 0 /\ records' = records BY <1>1, <1>4
  <2>4. stream' = Bytes(records', Len(decoded')) \o batch' BY <1>5, <2>1, <2>2, <2>3
  <2>5. Len(decoded') <= k - 1 BY <1>7, <2>1, <2>3
  <2> QED BY <2>1, <2>3, <2>4, <2>5 DEF InFront
<1>15. DamagedIn(k)'
  <2>1. CASE \E x \in Byte : stream' = [stream EXCEPT ![d] = x]
    <3>1. PICK x \in Byte : stream' = [stream EXCEPT ![d] = x] BY <2>1
    <3> DEFINE y == [b EXCEPT ![e] = x]
               c == a \o y
    <3>2. y \in Seq(Byte)
      <4> HIDE DEF b, e
      <4> QED BY <1>10, <1>12, ExceptSeq
    <3>3. stream' = c
      <4> HIDE DEF a, b, e, d, c
      <4>1. Joins(stream, a, b) BY <1>11 DEF Joins
      <4>2. Joins(c, a, [b EXCEPT ![e] = x]) BY DEF Joins, c
      <4>3. [stream EXCEPT ![Len(a) + e] = x] = c
        BY <1>7, <1>10, <1>12, <4>1, <4>2, ChangedBehind
      <4> QED BY <1>12, <3>1, <4>3
    <3>4. ASSUME d > L + 2
          PROVE  \E q, t \in Seq(Byte) :
                   /\ Len(q) = Len(p) /\ stream' = a \o (Record(q) \o t)
                   /\ whole = Bytes(records, k) \o t
      <4> DEFINE f == e - 2
      <4>1. f \in 1 .. Len(p) /\ e = 2 + f
        <5> HIDE DEF d, L, p, b
        <5> QED BY <1>7, <1>12, <3>4
      <4>2. PICK q \in Seq(Byte) :
              Len(q) = Len(p) /\ Joins([b EXCEPT ![2 + f] = x], Record(q), tail)
        <5>1. Joins(b, Record(p), tail) BY DEF Joins
        <5> HIDE DEF p, f, b
        <5> QED BY <1>7, <4>1, <5>1, RecordHit
      <4>3. y = Record(q) \o tail
        <5> HIDE DEF b, e, f
        <5> QED BY <4>1, <4>2 DEF Joins
      <4>4. stream' = a \o (Record(q) \o tail) BY <3>3, <4>3
      <4>5. whole = Bytes(records, k) \o tail BY <1>8
      <4> QED BY <4>2, <4>4, <4>5
    <3> HIDE DEF p, L, d, whole, y
    <3>5. \E z \in Seq(Byte) : stream' = a \o z BY <3>2, <3>3
    <3> HIDE DEF a
    <3> QED BY <1>1, <1>6, <3>4, <3>5 DEF DamagedIn, PayloadHit, a, p, L, d, whole, n
  <2>2. CASE stream' = SubSeq(stream, 1, d - 1)
    <3> DEFINE g == e - 1
    <3>1. g \in 0 .. Len(b) /\ d - 1 = Len(a) + g
      <4> HIDE DEF b, d
      <4> QED BY <1>7, <1>12
    <3>2. PICK z \in Seq(Byte) : stream' = a \o z /\ Len(stream') = Len(a) + g
      <4> HIDE DEF a, b, g, d
      <4>1. \E z \in Seq(Byte) : /\ SubSeq(a \o b, 1, Len(a) + g) = a \o z
                                 /\ Len(SubSeq(a \o b, 1, Len(a) + g)) = Len(a) + g
        BY <1>7, <1>10, <3>1, CutBehind
      <4> DEFINE cut == SubSeq(a \o b, 1, Len(a) + g)
      <4>2. stream' = cut BY <1>11, <2>2, <3>1
      <4>3. \E z \in Seq(Byte) : cut = a \o z /\ Len(cut) = Len(a) + g BY <4>1
      <4> HIDE DEF cut
      <4> QED BY <4>2, <4>3
    <3>3. Len(stream') # Len(whole)
      <4> HIDE DEF a, b, whole, d
      <4> QED BY <1>2, <1>7, <1>10, <1>12, <1>13, <3>1, <3>2
    <3> HIDE DEF d, whole
    <3> QED BY <1>1, <1>6, <3>2, <3>3 DEF DamagedIn, PayloadHit, whole, n, d
  <2> QED BY <1>5, <2>1, <2>2
<1>16. d # -1 /\ phase' = "decode" /\ records' = records
  <2> HIDE DEF d
  <2> QED BY <1>1, <1>12
<1>17. \E i \in 1 .. Len(records') : DamagedIn(i)' /\ (InFront(i - 1)' \/ Behind(i)')
  BY <1>14, <1>15, <1>16
<1> QED BY <1>16, <1>17 DEF StreamInv

\* What is decoded is only ever added to.
LEMMA OnlyAdded ==
  ASSUME TypeInv, DecodeRecord
  PROVE  /\ Len(decoded) \in Nat /\ Len(decoded') \in Nat /\ Len(decoded') >= Len(decoded)
         /\ \A j \in 1 .. Len(decoded) : decoded'[j] = decoded[j]
<1>1. decoded \in Seq(Decoded) /\ batch \in Seq(Byte) /\ Len(decoded) \in Nat
  BY LenProperties DEF TypeInv
<1>2. decoded' = decoded \/ \E span \in Decoded : decoded' = Append(decoded, span)
  BY <1>1, RecordStep
<1>3. CASE decoded' = decoded BY <1>1, <1>3
<1>4. CASE \E span \in Decoded : decoded' = Append(decoded, span)
  <2>1. PICK span \in Decoded : decoded' = Append(decoded, span) BY <1>4
  <2>2. Len(decoded') = Len(decoded) + 1 /\ \A j \in 1 .. Len(decoded) : decoded'[j] = decoded[j]
    BY <1>1, <2>1, OneMore
  <2> QED BY <1>1, <2>2
<1> QED BY <1>2, <1>3, <1>4

\* The damaged record is read.
LEMMA AtDamage ==
  ASSUME TypeInv, DecodeRecord, NEW k \in 1 .. Len(records), DamagedIn(k), InFront(k - 1),
         Len(decoded) = k - 1
  PROVE  Behind(k)'
<1> DEFINE n == Len(records)
           a == Bytes(records, k - 1)
           whole == Bytes(records, n)
<1>1. /\ batch \in Seq(Byte) /\ decoded \in Seq(Decoded) /\ n \in Nat
      /\ AllFit(records, n) /\ k \in 1 .. n
  BY LenProperties DEF TypeInv, AllFit
<1>2. /\ undecodable = 0 /\ stream = a \o batch
      /\ \A j \in 1 .. k - 1 : decoded[j] = Written(records[j])
  BY DEF InFront
<1>3. UNCHANGED <<records, stream, damage>> BY DEF DecodeRecord
<1>4. /\ Len(decoded') \in Nat /\ Len(decoded') >= k - 1
      /\ \A j \in 1 .. k - 1 : decoded'[j] = Written(records[j])
  BY <1>2, OnlyAdded
<1>5. ASSUME PayloadHit(k)
      PROVE  /\ Len(decoded') + undecodable' = k /\ undecodable' <= 1
             /\ whole = Bytes(records, k) \o batch'
  <2>1. PICK p, tail \in Seq(Byte) :
          /\ Len(p) = Len(encode_span(records[k])) /\ stream = a \o (Record(p) \o tail)
          /\ whole = Bytes(records, k) \o tail
    BY <1>5 DEF DamagedIn
  <2>2. Len(p) <= MAX_RECORD_BYTES BY <1>1, <2>1 DEF AllFit, Fits
  <2>3. batch = Record(p) \o tail
    <3> DEFINE b == Record(p) \o tail
    <3>1. Record(p) \in Seq(Byte) BY <2>1, <2>2, RecordBack
    <3>2. b \in Seq(Byte) BY <2>1, <3>1, Joined
    <3>3. a \in Seq(Byte)
      <4>1. k - 1 \in 0 .. n BY <1>1
      <4> HIDE DEF n
      <4> QED BY <1>1, <4>1, BytesAre
    <3>4. stream = a \o b BY <2>1
    <3> HIDE DEF a, b
    <3>5. a \o batch = a \o b BY <1>2, <3>4
    <3>6. batch = b BY <1>1, <3>2, <3>3, <3>5, Joined
    <3> QED BY <3>6 DEF b
  <2>4. /\ batch' = tail
        /\ \/ decode_span(p) = {} /\ undecodable' = undecodable + 1 /\ decoded' = decoded
           \/ \E span \in decode_span(p) : /\ span \in Decoded /\ undecodable' = undecodable
                                           /\ decoded' = Append(decoded, span)
    BY <1>1, <2>1, <2>2, <2>3, ReadRecord
  <2>5. Len(decoded') + undecodable' = k /\ undecodable' <= 1
    <3>1. CASE undecodable' = undecodable + 1 /\ decoded' = decoded BY <1>1, <1>2, <3>1
    <3>2. CASE \E span \in Decoded : undecodable' = undecodable /\ decoded' = Append(decoded, span)
      <4>1. Len(decoded') = Len(decoded) + 1 BY <1>1, <3>2, OneMore
      <4> QED BY <1>1, <1>2, <3>2, <4>1
    <3> QED BY <2>4, <3>1, <3>2
  <2> QED BY <2>1, <2>4, <2>5
<1>6. \A j \in k + 1 .. k : FALSE BY <1>1
<1>7. k \in k .. n BY <1>1
<1>8. PayloadHit(k)' <=> PayloadHit(k) BY <1>3 DEF PayloadHit
<1>9. PayloadHit(k) =>
        LET m == Len(decoded') + undecodable'
        IN  /\ m \in k .. Len(records) /\ undecodable' <= 1
            /\ \A j \in k + 1 .. m : decoded'[j - undecodable'] = Written(records[j])
            /\ Bytes(records, Len(records)) = Bytes(records, m) \o batch'
  <2> SUFFICES ASSUME PayloadHit(k)
               PROVE  LET m == Len(decoded') + undecodable'
                      IN  /\ m \in k .. Len(records) /\ undecodable' <= 1
                          /\ \A j \in k + 1 .. m : decoded'[j - undecodable'] = Written(records[j])
                          /\ Bytes(records, Len(records)) = Bytes(records, m) \o batch'
    OBVIOUS
  <2> DEFINE m == Len(decoded') + undecodable'
  <2>1. m = k /\ undecodable' <= 1 /\ whole = Bytes(records, k) \o batch' BY <1>5
  <2> HIDE DEF m
  <2>2. /\ m \in k .. Len(records) /\ undecodable' <= 1
        /\ \A j \in k + 1 .. m : decoded'[j - undecodable'] = Written(records[j])
        /\ Bytes(records, Len(records)) = Bytes(records, m) \o batch'
    BY <1>6, <1>7, <2>1
  <2> QED BY <2>2 DEF m
<1> HIDE DEF a, whole, n
<1> QED BY <1>3, <1>4, <1>8, <1>9 DEF Behind

\* A record behind the damaged one is read.
LEMMA BehindDamage ==
  ASSUME TypeInv, DecodeRecord, NEW k \in 1 .. Len(records), Behind(k)
  PROVE  Behind(k)'
<1> DEFINE n == Len(records)
           whole == Bytes(records, n)
           m == Len(decoded) + undecodable
           u == undecodable
<1>1. /\ batch \in Seq(Byte) /\ decoded \in Seq(Decoded) /\ n \in Nat /\ u \in Nat
      /\ AllFit(records, n) /\ k \in 1 .. n /\ Len(decoded) \in Nat
  BY LenProperties DEF TypeInv, AllFit
<1>2. Len(decoded) >= k - 1 /\ \A j \in 1 .. k - 1 : decoded[j] = Written(records[j]) BY DEF Behind
<1>3. UNCHANGED <<records, stream, damage>> /\ batch # << >> BY DEF DecodeRecord
<1>4. /\ Len(decoded') \in Nat /\ Len(decoded') >= k - 1
      /\ \A j \in 1 .. k - 1 : decoded'[j] = Written(records[j])
  <2>1. /\ Len(decoded') \in Nat /\ Len(decoded') >= Len(decoded)
        /\ \A j \in 1 .. Len(decoded) : decoded'[j] = decoded[j]
    BY OnlyAdded
  <2>2. Len(decoded') >= k - 1 BY <1>1, <1>2, <2>1
  <2>3. \A j \in 1 .. k - 1 : j \in 1 .. Len(decoded) BY <1>1, <1>2
  <2> QED BY <1>2, <2>1, <2>2, <2>3
<1>5. PayloadHit(k)' <=> PayloadHit(k) BY <1>3 DEF PayloadHit
<1>6. ASSUME PayloadHit(k)
      PROVE  LET l == Len(decoded') + undecodable'
             IN  /\ l \in k .. Len(records) /\ undecodable' <= 1
                 /\ \A j \in k + 1 .. l : decoded'[j - undecodable'] = Written(records[j])
                 /\ Bytes(records, Len(records)) = Bytes(records, l) \o batch'
  <2>1. /\ m \in k .. n /\ u <= 1
        /\ \A j \in k + 1 .. m : decoded[j - u] = Written(records[j])
        /\ whole = Bytes(records, m) \o batch
    BY <1>6 DEF Behind
  <2> DEFINE i == m + 1
             span == records[i]
  <2>2. whole \in Seq(Byte) /\ whole \o << >> = whole /\ << >> \in Seq(Byte)
    <3>1. n \in 0 .. n BY <1>1
    <3> HIDE DEF n
    <3>2. Bytes(records, n) \in Seq(Byte) BY <1>1, <3>1, BytesAre
    <3> QED BY <3>2, EmptySeq, ConcatEmptySeq
  <2>3. m < n
    <3> SUFFICES ASSUME m = n PROVE FALSE BY <1>1, <2>1
    <3>1. whole = whole \o batch BY <2>1
    <3> HIDE DEF whole
    <3>2. Len(whole) = Len(whole) + Len(batch) BY <1>1, <2>2, <3>1, Joined
    <3>3. Len(whole) \in Nat /\ Len(batch) \in Nat /\ (Len(batch) = 0 => batch = << >>)
      BY <1>1, <2>2, LenProperties, EmptySeq
    <3>4. Len(batch) = 0 BY <3>2, <3>3
    <3> QED BY <1>3, <3>3, <3>4
  <2>4. i \in 1 .. n /\ i - 1 = m /\ m \in Nat BY <1>1, <2>1, <2>3
  <2>5. IsNext(records, i, batch, n, << >>)
    <3>1. whole \o << >> = Bytes(records, i - 1) \o batch
      <4> HIDE DEF i, m, whole
      <4> QED BY <2>1, <2>2, <2>4
    <3>2. Same(records, i - 1, batch, n, << >>)
      <4> HIDE DEF i, n
      <4> QED BY <3>1 DEF Same
    <3> HIDE DEF i, n
    <3> QED BY <1>1, <2>2, <2>4, <3>2 DEF IsNext
  <2> HIDE DEF i
  <2>6. PICK t \in Seq(Byte) :
          batch = Record(encode_span(records[i])) \o t /\ Same(records, i, t, n, << >>)
    BY <2>5, NextRecord
  <2>7. whole = Bytes(records, i) \o t
    <3>1. Bytes(records, i) \o t = whole \o << >> BY <2>6 DEF Same
    <3> QED BY <2>2, <3>1
  <2>8. Fits(span) BY <1>1, <2>4 DEF AllFit
  <2>9. batch = Record(encode_span(span)) \o t BY <2>6
  <2> HIDE DEF span
  <2>10. /\ batch' = t /\ undecodable' = u
         /\ decoded' = Append(decoded, Written(span)) /\ Written(span) \in Decoded
    BY <1>1, <2>8, <2>9, ReadSpan
  <2>11. /\ Len(decoded') = Len(decoded) + 1
         /\ \A j \in 1 .. Len(decoded) : decoded'[j] = decoded[j]
         /\ decoded'[Len(decoded) + 1] = Written(span)
    BY <1>1, <2>10, OneMore
  <2> DEFINE l == Len(decoded') + undecodable'
  <2>12. l = i BY <1>1, <2>10, <2>11 DEF i
  <2>13. ASSUME NEW j \in k + 1 .. l PROVE decoded'[j - undecodable'] = Written(records[j])
    <3>1. CASE j = i
      <4>1. j - u = Len(decoded) + 1 BY <1>1, <3>1 DEF i
      <4> QED BY <2>10, <2>11, <3>1, <4>1 DEF span
    <3>2. CASE j # i
      <4>1. j \in k + 1 .. m /\ j - u \in 1 .. Len(decoded)
        <5>1. j \in k + 1 .. m + 1 /\ j # m + 1 BY <2>12, <3>2 DEF i
        <5> HIDE DEF l
        <5> QED BY <1>1, <2>1, <2>4, <5>1
      <4> QED BY <2>1, <2>10, <2>11, <4>1
    <3> QED BY <3>1, <3>2
  <2>14. l \in k .. n
    <3> HIDE DEF l
    <3> QED BY <1>1, <2>1, <2>3, <2>4, <2>12
  <2>15. whole = Bytes(records, l) \o batch' BY <2>7, <2>10, <2>12
  <2>16. undecodable' <= 1 BY <2>1, <2>10
  <2> QED BY <2>13, <2>14, <2>15, <2>16
<1> HIDE DEF whole, n, m, u
<1> QED BY <1>3, <1>4, <1>5, <1>6 DEF Behind

LEMMA DecodeStep ==
  ASSUME TypeInv, StreamInv, DecodeRecord
  PROVE  StreamInv'
<1> DEFINE n == Len(records)
           whole == Bytes(records, n)
<1>1. phase = "decode" /\ batch # << >> /\ UNCHANGED <<records, stream, damage, phase>>
  BY DEF DecodeRecord
<1>2. /\ AllFit(records, n) /\ n \in Nat /\ batch \in Seq(Byte) /\ Len(decoded) \in Nat
  BY LenProperties DEF TypeInv, AllFit
<1>3. CASE damage = -1
  <2>1. stream = whole /\ InFront(n) BY <1>1, <1>3 DEF StreamInv
  <2>2. whole \in Seq(Byte) /\ whole \o << >> = whole /\ << >> \in Seq(Byte)
    <3>1. n \in 0 .. n BY <1>2
    <3> HIDE DEF n
    <3>2. Bytes(records, n) \in Seq(Byte) BY <1>2, <3>1, BytesAre
    <3> QED BY <3>2, EmptySeq, ConcatEmptySeq
  <2>3. Len(decoded) < n
    <3>1. Len(decoded) <= n /\ stream = Bytes(records, Len(decoded)) \o batch BY <2>1 DEF InFront
    <3> SUFFICES ASSUME Len(decoded) = n PROVE FALSE BY <1>2, <3>1
    <3>2. whole = whole \o batch BY <2>1, <3>1
    <3> HIDE DEF whole
    <3>3. Len(whole) = Len(whole) + Len(batch) BY <1>2, <2>2, <3>2, Joined
    <3>4. Len(whole) \in Nat /\ Len(batch) \in Nat /\ (Len(batch) = 0 => batch = << >>)
      BY <1>2, <2>2, LenProperties, EmptySeq
    <3>5. Len(batch) = 0 BY <3>3, <3>4
    <3> QED BY <1>1, <3>4, <3>5
  <2>4. InFront(n)'
    <3>1. n \in 0 .. Len(records) /\ stream = Bytes(records, n) \o << >> BY <1>2, <2>1, <2>2
    <3>2. n' = n BY <1>1
    <3>3. \A good \in 0 .. Len(records) :
            good = n => InFront(good)'
      <4> SUFFICES ASSUME NEW good \in 0 .. Len(records), good = n PROVE InFront(good)' OBVIOUS
      <4>1. /\ stream = Bytes(records, good) \o << >> /\ InFront(good) /\ Len(decoded) < good
        BY <2>1, <2>3, <3>1
      <4> QED BY <2>2, <4>1, FrontStep
    <3>4. PICK good \in 0 .. Len(records) : good = n BY <3>1
    <3>5. InFront(good)' BY <3>3, <3>4
    <3> QED BY <3>2, <3>4, <3>5 DEF InFront
  <2> QED BY <1>1, <1>3, <2>1, <2>4 DEF StreamInv
<1>4. CASE damage # -1
  <2>1. PICK k \in 1 .. n : DamagedIn(k) /\ (InFront(k - 1) \/ Behind(k)) BY <1>4 DEF StreamInv
  <2>2. DamagedIn(k)' BY <1>1, <2>1 DEF DamagedIn, PayloadHit
  <2>3. CASE InFront(k - 1) /\ Len(decoded) < k - 1
    <3>1. PICK x \in Seq(Byte) : stream = Bytes(records, k - 1) \o x BY <2>1 DEF DamagedIn
    <3> DEFINE good == k - 1
    <3>2. good \in 0 .. Len(records) BY <1>2
    <3> HIDE DEF good
    <3>3. /\ stream = Bytes(records, good) \o x /\ InFront(good) /\ Len(decoded) < good
      BY <2>3, <3>1 DEF good
    <3>4. InFront(good)' BY <3>2, <3>3, FrontStep
    <3>5. InFront(k - 1)' BY <3>4 DEF good
    <3> QED BY <1>1, <1>4, <2>2, <3>5 DEF StreamInv
  <2>4. CASE InFront(k - 1) /\ ~(Len(decoded) < k - 1)
    <3>1. Len(decoded) = k - 1
      <4>1. Len(decoded) <= k - 1 BY <2>4 DEF InFront
      <4> QED BY <1>2, <2>4, <4>1
    <3>2. Behind(k)' BY <2>1, <2>4, <3>1, AtDamage
    <3> QED BY <1>1, <1>4, <2>2, <3>2 DEF StreamInv
  <2>5. CASE Behind(k)
    <3>1. Behind(k)' BY <2>5, BehindDamage
    <3> QED BY <1>1, <1>4, <2>2, <3>1 DEF StreamInv
  <2> QED BY <2>1, <2>3, <2>4, <2>5
<1> QED BY <1>3, <1>4

LEMMA StreamInit == Init => StreamInv
<1> SUFFICES ASSUME Init PROVE StreamInv OBVIOUS
<1>1. /\ phase = "encode" /\ batch = << >> /\ records = << >> /\ damage = -1
      /\ decoded = << >> /\ undecodable = 0
  BY DEF Init
<1>2. AllFit(records, 0) /\ 0 \in Nat
  <2>1. \A j \in 1 .. 0 : FALSE OBVIOUS
  <2> QED BY <2>1 DEF AllFit
<1>3. Bytes(records, 0) = << >> BY <1>2, BytesAre
<1>4. Len(records) = 0 BY <1>1, EmptySeq
<1>5. batch = Bytes(records, Len(records)) BY <1>1, <1>3, <1>4
<1> QED BY <1>1, <1>5 DEF StreamInv

LEMMA StreamStep == TypeInv /\ StreamInv /\ [Next]_vars => StreamInv'
<1> SUFFICES ASSUME TypeInv, StreamInv, [Next]_vars PROVE StreamInv' OBVIOUS
<1>1. CASE EncodeSpan BY <1>1, EncodeStep
<1>2. CASE Publish BY <1>2, PublishStep
<1>3. CASE Damage BY <1>3, DamageInRecord
<1>4. CASE DecodeRecord BY <1>4, DecodeStep
<1>5. CASE Done \/ UNCHANGED vars
  <2>1. UNCHANGED <<batch, records, damage, decoded, undecodable, stream, phase>>
    BY <1>5 DEF Done, vars
  <2> QED BY <2>1 DEF StreamInv, InFront, DamagedIn, Behind, PayloadHit
<1> QED BY <1>1, <1>2, <1>3, <1>4, <1>5 DEF Next

LEMMA StreamAlways == Spec => [](TypeInv /\ StreamInv)
BY TypeInit, TypeStep, StreamInit, StreamStep, PTL DEF Spec

----------------------------------------------------------------------------
(* What was read when all was *)

\* As many bytes are as many records.
LEMMA SameCount ==
  ASSUME NEW recs, NEW n \in Nat, AllFit(recs, n), NEW i \in 0 .. n, NEW j \in 0 .. n,
         Len(Bytes(recs, i)) = Len(Bytes(recs, j))
  PROVE  i = j
<1> DEFINE L(k) == Len(Bytes(recs, k))
<1>1. L(i) \in Nat /\ L(i) = L(j) /\ (i < j => L(i) < L(j)) /\ (j < i => L(j) < L(i))
  BY BytesGrow
<1> HIDE DEF L
<1>2. ~(i < j) /\ ~(j < i) BY <1>1
<1> QED BY <1>2

\* When nothing is left, what the first m records and the rest were is the first m.
LEMMA NoneLeft ==
  ASSUME TypeInv, batch = << >>, NEW m \in 0 .. Len(records)
  PROVE  /\ AllFit(records, Len(records)) /\ Len(records) \in Nat /\ Len(decoded) \in Nat
         /\ Bytes(records, m) \o batch = Bytes(records, m)
         /\ Bytes(records, m) \in Seq(Byte)
<1>1. AllFit(records, Len(records)) /\ Len(records) \in Nat /\ Len(decoded) \in Nat
  BY LenProperties DEF TypeInv, AllFit
<1>2. Bytes(records, m) \in Seq(Byte) BY <1>1, BytesAre
<1> QED BY <1>1, <1>2, ConcatEmptySeq

\* What encode_batch makes of the spans of a statement, decode_records makes spans of again
\* when no byte was changed: all but those too large for a record, in their order, each
\* with its fields, and its times as near as they can be written; none is undecodable.
THEOREM WrittenSpansRead == Spec => []RoundTrip
<1>1. TypeInv /\ StreamInv => RoundTrip
  <2> SUFFICES ASSUME TypeInv, StreamInv PROVE RoundTrip OBVIOUS
  <2>1. skipped + Len(records) = next - 1 BY DEF TypeInv
  <2>2. CASE phase = "encode"
    <3>1. undecodable = 0 /\ ~Read_all BY <2>2 DEF StreamInv, Read_all
    <3> QED BY <2>1, <3>1 DEF RoundTrip
  <2>3. CASE phase = "decode" /\ damage # -1 BY <2>1, <2>3 DEF RoundTrip
  <2>4. CASE phase = "decode" /\ damage = -1
    <3> DEFINE n == Len(records)
               m == Len(decoded)
    <3>1. /\ stream = Bytes(records, n) /\ m <= n /\ undecodable = 0
          /\ \A j \in 1 .. m : decoded[j] = Written(records[j])
          /\ stream = Bytes(records, m) \o batch
      BY <2>4 DEF StreamInv, InFront
    <3>2. ASSUME batch = << >> PROVE decoded = [k \in 1 .. n |-> Written(records[k])]
      <4>1. n \in Nat /\ m \in Nat /\ AllFit(records, n) BY LenProperties DEF TypeInv, AllFit
      <4>2. m \in 0 .. n /\ n \in 0 .. n BY <3>1, <4>1
      <4>3. Bytes(records, m) \o batch = Bytes(records, m)
        BY <3>2, <4>2, NoneLeft
      <4>4. Len(Bytes(records, m)) = Len(Bytes(records, n)) BY <3>1, <4>3
      <4>5. m = n
        <5> HIDE DEF m, n
        <5> QED BY <4>1, <4>2, <4>4, SameCount
      <4>6. decoded = [k \in 1 .. m |-> decoded[k]]
        <5>1. decoded \in Seq(Decoded) BY DEF TypeInv
        <5> QED BY <5>1
      <4> HIDE DEF m, n
      <4> QED BY <3>1, <4>5, <4>6
    <3> QED BY <2>1, <3>1, <3>2 DEF RoundTrip, Read_all
  <2>5. phase \in {"encode", "decode"} BY DEF StreamInv
  <2> QED BY <2>2, <2>3, <2>4, <2>5
<1> QED BY <1>1, StreamAlways, PTL

\* The records in front of the damage were read, when all was.
LEMMA FrontRead ==
  ASSUME TypeInv, Read_all, NEW k \in 1 .. Len(records), DamagedIn(k), InFront(k - 1)
  PROVE  Len(decoded) = k - 1 /\ ~PayloadHit(k)
<1> DEFINE n == Len(records)
           m == Len(decoded)
           i == k - 1
<1>1. batch = << >> BY DEF Read_all
<1>2. m <= i /\ stream = Bytes(records, m) \o batch BY DEF InFront
<1>3. k \in 1 .. n OBVIOUS
<1>4. m \in Nat /\ n \in Nat /\ AllFit(records, n) BY LenProperties DEF TypeInv, AllFit
<1>5. m \in 0 .. n /\ i \in 0 .. n /\ n \in 0 .. n /\ m < n
  <2> HIDE DEF n, m
  <2> QED BY <1>2, <1>3, <1>4
<1>6. stream = Bytes(records, m) /\ Bytes(records, m) \in Seq(Byte) BY <1>1, <1>2, <1>5, NoneLeft
<1>7. PICK x \in Seq(Byte) : stream = Bytes(records, i) \o x BY DEF DamagedIn
<1>8. Len(Bytes(records, m)) = Len(Bytes(records, i)) + Len(x)
  <2>1. Bytes(records, i) \in Seq(Byte) BY <1>4, <1>5, BytesAre
  <2> HIDE DEF i, m
  <2> QED BY <1>6, <1>7, <2>1, Joined
<1>9. m = i
  <2> DEFINE L(j) == Len(Bytes(records, j))
  <2>1. L(m) \in Nat /\ L(i) \in Nat /\ (m < i => L(m) < L(i)) BY <1>4, <1>5, BytesGrow
  <2>2. Len(x) \in Nat /\ L(m) = L(i) + Len(x) BY <1>7, <1>8, LenProperties
  <2> HIDE DEF L, i, m
  <2>3. ~(m < i) BY <2>1, <2>2
  <2> QED BY <1>2, <1>4, <1>5, <2>3
<1>10. Len(stream) # Len(Bytes(records, n))
  <2> HIDE DEF m, n
  <2>1. m # n BY <1>4, <1>5
  <2> QED BY <1>4, <1>5, <1>6, <2>1, SameCount
<1>11. ~PayloadHit(k) BY <1>10 DEF PayloadHit
<1> QED BY <1>9, <1>11

\* So were those behind it, when its prefix was as it was made.
LEMMA BehindRead ==
  ASSUME TypeInv, Read_all, NEW k \in 1 .. Len(records), Behind(k), PayloadHit(k)
  PROVE  /\ Len(decoded) + undecodable = Len(records) /\ undecodable <= 1
         /\ \A j \in k + 1 .. Len(records) : decoded[j - undecodable] = Written(records[j])
<1> DEFINE n == Len(records)
           m == Len(decoded) + undecodable
<1>1. batch = << >> BY DEF Read_all
<1>2. /\ m \in k .. n /\ undecodable <= 1
      /\ \A j \in k + 1 .. m : decoded[j - undecodable] = Written(records[j])
      /\ Bytes(records, n) = Bytes(records, m) \o batch
  BY DEF Behind
<1>3. k \in 1 .. n /\ n \in Nat /\ AllFit(records, n) BY LenProperties DEF TypeInv, AllFit
<1>4. m \in 0 .. n /\ n \in 0 .. n
  <2> HIDE DEF n, m
  <2> QED BY <1>2, <1>3
<1>5. Bytes(records, m) \o batch = Bytes(records, m)
  <2> HIDE DEF m
  <2> QED BY <1>1, <1>4, NoneLeft
<1>6. m = n
  <2> HIDE DEF m, n
  <2> QED BY <1>2, <1>3, <1>4, <1>5, SameCount
<1> QED BY <1>2, <1>6

\* Damage is confined, in a stream of any length and with any byte changed or any cut:
\* records yields, up to the damaged record, what encode_batch made, and decode_records
\* returns those spans; a changed payload costs at most its own record, and all behind it
\* are decoded as they were written, because split_record finds where they begin.
THEOREM OneRecordLost == Spec => []DamageConfined
<1>1. TypeInv /\ StreamInv => DamageConfined
  <2> SUFFICES ASSUME TypeInv, StreamInv, damage # -1, Read_all
               PROVE  \E k \in 1 .. Len(records) :
                 /\ Before(k) < damage /\ damage <= End(k)
                 /\ Len(decoded) >= k - 1 /\ \A j \in 1 .. k - 1 : decoded[j] = Written(records[j])
                 /\ damage > Before(k) + 2 /\ Len(stream) = End(Len(records)) =>
                      /\ Len(decoded) + undecodable = Len(records) /\ undecodable <= 1
                      /\ \A j \in k + 1 .. Len(records) : decoded[j - undecodable] = Written(records[j])
    BY DEF DamageConfined
  <2>1. PICK k \in 1 .. Len(records) : DamagedIn(k) /\ (InFront(k - 1) \/ Behind(k))
    BY DEF StreamInv
  <2>2. \A i : End(i) = Len(Bytes(records, i)) BY DEF End, First, Bytes, Record
  <2>3. Before(k) = Len(Bytes(records, k - 1)) BY <2>2 DEF Before
  <2>4. Before(k) < damage /\ damage <= End(k) BY <2>1, <2>2, <2>3 DEF DamagedIn
  <2>5. Len(decoded) >= k - 1 /\ \A j \in 1 .. k - 1 : decoded[j] = Written(records[j])
    <3>1. CASE InFront(k - 1)
      <4>1. Len(decoded) = k - 1 BY <2>1, <3>1, FrontRead
      <4> QED BY <3>1, <4>1 DEF InFront
    <3>2. CASE Behind(k) BY <3>2 DEF Behind
    <3> QED BY <2>1, <3>1, <3>2
  <2>6. PayloadHit(k) <=> damage > Before(k) + 2 /\ Len(stream) = End(Len(records))
    BY <2>2, <2>3 DEF PayloadHit
  <2>7. PayloadHit(k) =>
          /\ Len(decoded) + undecodable = Len(records) /\ undecodable <= 1
          /\ \A j \in k + 1 .. Len(records) : decoded[j - undecodable] = Written(records[j])
    <3>1. CASE InFront(k - 1) BY <2>1, <3>1, FrontRead
    <3>2. CASE Behind(k) BY <3>2, BehindRead
    <3> QED BY <2>1, <3>1, <3>2
  <2> QED BY <2>4, <2>5, <2>6, <2>7
<1> QED BY <1>1, StreamAlways, PTL
=============================================================================
